---------------------------- MODULE CacheProofs ----------------------------
(***************************************************************************)
(* What is committed to the client's cache stays readable, is what the      *)
(* server has sent, and tells of what it lacks.  Most of it is about        *)
(* values: every file operation of apply, archive and the others takes a    *)
(* disk that keeps its promise to one that does, so that it does not matter *)
(* after which of them the process is killed.                               *)
(***************************************************************************)
EXTENDS CacheWriter, FiniteSetTheorems, TLAPS

(***************************************************************************)
(* Types.                                                                   *)
(***************************************************************************)
Files == UNION {[S -> Seq(Nat)] : S \in {T \in SUBSET Nat : IsFiniteSet(T)}}

\* Physical rows are in a file.
Record == {c \in Current : c.kind = "rows" => c.file # None}

\* A directory whose record is at hand, and one on disk.
Work == [exists : BOOLEAN, files : Files, current : Record]
Directory ==
    {d \in [exists : BOOLEAN, files : Files, current : Record \cup {None}] :
        d.exists \/ d.current = None}

Disk ==
    [live : Directory, archived : Directory, previous : Directory,
     preserved : Seq(Nat) \cup {None}, saved : [current : Record, history : Seq(Nat)] \cup {None},
     transcript : Seq(Nat)]

(***************************************************************************)
(* The invariant.                                                           *)
(***************************************************************************)
\* What a reader of the disk k finds; Visible is Seen(disk).
Seen(k) ==
    IF Found(k.live) THEN k.live
    ELSE IF k.archived.exists THEN k.archived ELSE k.previous

\* The legacy transcript is preserved beside the record.
Beside(k) == k.transcript # <<>> => k.preserved = k.transcript

\* The legacy transcript is still the record, and nothing of it was copied yet.
Untouched(k) ==
    /\ k.preserved = None
    /\ Found(Seen(k)) /\ Intact(Seen(k))
    /\ Seen(k).current.version = 1 /\ History(Seen(k)) = k.transcript

\* What was committed last is readable, a transcript is preserved or is the
\* record, and a live directory without a record hides nothing.
Kept(k) ==
    /\ k.saved # None => View(Seen(k)) = k.saved
    /\ Beside(k) \/ Untouched(k)
    /\ k.live.exists /\ ~Found(k.live) => k.saved = None /\ Beside(k)

Good == {k \in Disk : Kept(k)}

(***************************************************************************)
(* Files.                                                                   *)
(***************************************************************************)
\* A set of files is a finite function to sequences of rows.
LEMMA FilesAre ==
    ASSUME NEW F \in Files
    PROVE  /\ DOMAIN F \subseteq Nat /\ IsFiniteSet(DOMAIN F)
           /\ \A x \in DOMAIN F : F[x] \in Seq(Nat)
           /\ F = [x \in DOMAIN F |-> F[x]]
  BY DEF Files

\* G has the rows in the file f, and the other files as F has them.
HasWritten(F, f, rows, G) ==
    /\ G \in Files /\ DOMAIN G = DOMAIN F \cup {f} /\ G[f] = rows
    /\ \A x \in DOMAIN F : x # f => G[x] = F[x]

\* A file that is written, and the others.
LEMMA Written ==
    ASSUME NEW F \in Files, NEW f \in Nat, NEW rows \in Seq(Nat)
    PROVE  HasWritten(F, f, rows, WriteFile(F, f, rows))
  <1> DEFINE G == WriteFile(F, f, rows)
  <1>1. DOMAIN F \subseteq Nat /\ IsFiniteSet(DOMAIN F) /\ \A x \in DOMAIN F : F[x] \in Seq(Nat)
    BY FilesAre
  <1>2. /\ DOMAIN G = DOMAIN F \cup {f} /\ G[f] = rows
        /\ \A x \in DOMAIN F : x # f => G[x] = F[x]
    BY DEF WriteFile
  <1>3. G \in [DOMAIN F \cup {f} -> Seq(Nat)]
    BY <1>1 DEF WriteFile
  <1>4. IsFiniteSet(DOMAIN F \cup {f})
    BY <1>1, FS_AddElement
  <1>5. DOMAIN F \cup {f} \in {T \in SUBSET Nat : IsFiniteSet(T)}
    BY <1>1, <1>4
  <1>6. G \in Files
    BY <1>3, <1>5 DEF Files
  <1> QED BY <1>2, <1>6 DEF HasWritten

\* Files that are left of some.
LEMMA Restricted ==
    ASSUME NEW F \in Files, NEW S, S \subseteq DOMAIN F
    PROVE  /\ Restrict(F, S) \in Files /\ DOMAIN Restrict(F, S) = S
           /\ \A x \in S : Restrict(F, S)[x] = F[x]
  <1>1. DOMAIN F \subseteq Nat /\ IsFiniteSet(DOMAIN F) /\ \A x \in DOMAIN F : F[x] \in Seq(Nat)
    BY FilesAre
  <1>2. DOMAIN Restrict(F, S) = S /\ \A x \in S : Restrict(F, S)[x] = F[x]
    BY DEF Restrict
  <1>3. Restrict(F, S) \in [S -> Seq(Nat)]
    BY <1>1 DEF Restrict
  <1>4. S \in {T \in SUBSET Nat : IsFiniteSet(T)}
    BY <1>1, FS_Subset
  <1> QED BY <1>2, <1>3, <1>4 DEF Files

\* No files.
LEMMA NoFiles == <<>> \in Files /\ DOMAIN <<>> = {}
  <1>1. {} \in {T \in SUBSET Nat : IsFiniteSet(T)}
    BY FS_EmptySet
  <1>2. <<>> \in [{} -> Seq(Nat)] /\ DOMAIN <<>> = {}
    OBVIOUS
  <1> QED BY <1>1, <1>2 DEF Files

\* The names in the records on disk.
Named == {r.current.file : r \in {r \in {disk.live, disk.archived, disk.previous} : Found(r)}}

\* A new file has a name that is in no directory at hand and in no record.
LEMMA FreshName ==
    ASSUME NEW d \in Work
    PROVE  Fresh(d) \in Nat /\ Fresh(d) \notin DOMAIN d.files \cup {d.current.file} \cup Named
  <1> DEFINE used == DOMAIN d.files \cup {d.current.file} \cup Named
             three == {disk.live.current.file, disk.archived.current.file, disk.previous.current.file}
             n == Cardinality(used)
  <1>1. IsFiniteSet(DOMAIN d.files \cup {d.current.file})
    BY FilesAre, FS_AddElement DEF Work
  <1>2. IsFiniteSet(Named)
    <2>0. IsFiniteSet({disk.live.current.file})
      BY FS_Singleton
    <2>1. IsFiniteSet({disk.live.current.file} \cup {disk.archived.current.file})
      BY <2>0, FS_AddElement
    <2>2. IsFiniteSet({disk.live.current.file} \cup {disk.archived.current.file}
                        \cup {disk.previous.current.file})
      BY <2>1, FS_AddElement
    <2>3. IsFiniteSet(three)
      BY <2>2
    <2> QED BY <2>3, FS_Subset DEF Named
  <1>3. IsFiniteSet(used)
    BY <1>1, <1>2, FS_Union
  <1>4. n \in Nat
    BY <1>3, FS_CardinalityType
  <1>5. \E f \in 1 .. n + 1 : f \notin used
    <2> SUFFICES ASSUME 1 .. n + 1 \subseteq used PROVE FALSE
      OBVIOUS
    <2>1. Cardinality(1 .. n + 1) = n + 1
      <3>1. n + 1 \in Int /\ 1 \in Int /\ 1 <= n + 1
        BY <1>4
      <3>2. Cardinality(1 .. n + 1) = IF 1 > n + 1 THEN 0 ELSE (n + 1) - 1 + 1
        BY <3>1, FS_Interval
      <3> QED BY <1>4, <3>2
    <2>2. Cardinality(1 .. n + 1) <= n
      BY <1>3, FS_Subset
    <2> QED BY <1>4, <2>1, <2>2
  <1>6. Fresh(d) = CHOOSE f \in 1 .. n + 1 : f \notin used
    BY DEF Fresh, Named
  <1> HIDE DEF used
  <1>7. Fresh(d) \in 1 .. n + 1 /\ Fresh(d) \notin used
    BY <1>5, <1>6
  <1> QED BY <1>4, <1>7 DEF used

(***************************************************************************)
(* Rows.                                                                    *)
(***************************************************************************)
\* Rows, and the newest of some.
LEMMA RowsTyped ==
    ASSUME NEW from \in Nat, NEW to \in Nat
    PROVE  Rows(from, to) \in Seq(Nat)
  <1>1. CASE from <= to
    <2>1. to - from \in Nat
      BY <1>1
    <2>2. \A i \in 1 .. to - from : from + i - 1 \in Nat
      OBVIOUS
    <2> QED BY <2>1, <2>2 DEF Rows
  <1>2. CASE ~(from <= to)
    <2>1. 1 .. to - from = 1 .. 0
      BY <1>2
    <2>2. Rows(from, to) \in [1 .. 0 -> Nat]
      BY <2>1 DEF Rows
    <2> QED BY <2>2
  <1> QED BY <1>1, <1>2

\* A part of some rows.
LEMMA PartTyped ==
    ASSUME NEW s \in Seq(Nat), NEW m \in Nat, NEW n \in Nat, n <= Len(s)
    PROVE  SubSeq(s, m + 1, n) \in Seq(Nat)
  OBVIOUS

\* The first n of some rows, followed by others.
LEMMA HeadTyped ==
    ASSUME NEW s \in Seq(Nat), NEW n \in Nat, n <= Len(s), NEW rows \in Seq(Nat)
    PROVE  /\ SubSeq(s, 1, n) \o rows \in Seq(Nat)
           /\ Len(SubSeq(s, 1, n) \o rows) = n + Len(rows)
           /\ \A i \in 1 .. n : (SubSeq(s, 1, n) \o rows)[i] = s[i]
  <1>1. /\ SubSeq(s, 1, n) \in Seq(Nat) /\ Len(SubSeq(s, 1, n)) = n
        /\ \A i \in 1 .. n : SubSeq(s, 1, n)[i] = s[i]
    OBVIOUS
  <1> QED BY <1>1

\* The newest of some rows are rows.
LEMMA NewestTyped ==
    ASSUME NEW s \in Seq(Nat), NEW n \in Nat
    PROVE  Newest(s, n) \in Seq(Nat)
  <1>1. CASE Len(s) > n
    <2>1. Len(s) - n \in Nat /\ Len(s) \in Nat
      BY <1>1
    <2> QED BY <1>1, <2>1, PartTyped DEF Newest
  <1> QED BY <1>1 DEF Newest

\* The rows of a data file, and of a history that is all there.
LEMMA ContentTyped ==
    ASSUME NEW d \in Work
    PROVE  /\ Content(d) \in Seq(Nat) /\ Len(Content(d)) \in Nat
           /\ Intact(d) => History(d) \in Seq(Nat)
  <1>1. Content(d) \in Seq(Nat)
    BY FilesAre DEF Work, Content
  <1>2. Len(Content(d)) \in Nat
    BY <1>1
  <1>3. d.current.start \in Nat /\ d.current.end \in Nat
    BY DEF Work, Record, Current
  <1>4. Intact(d) => History(d) \in Seq(Nat)
    BY <1>1, <1>3, PartTyped DEF Intact, History
  <1> QED BY <1>1, <1>2, <1>4

(***************************************************************************)
(* Data files.                                                              *)
(***************************************************************************)
\* Files were added, under names that no record on disk has.
Beyond(F, G) ==
    /\ \A x \in DOMAIN F : x \in DOMAIN G /\ G[x] = F[x]
    /\ \A x \in DOMAIN G : x \in DOMAIN F \/ x \notin Named

\* Files that are added to files that were added.
LEMMA BeyondTwice ==
    ASSUME NEW F, NEW G, NEW H, Beyond(F, G), Beyond(G, H)
    PROVE  Beyond(F, H)
  BY DEF Beyond

\* The history is in a new file.
Rewritten(d, w) ==
    /\ w \in Work /\ w.exists = d.exists
    /\ Beyond(d.files, w.files)
    /\ w.current.file \in Nat /\ w.current.file \notin Named \cup DOMAIN d.files
    /\ Intact(w)

\* write_lines makes a new file of exactly these rows, and the record names it.
LEMMA Replaced ==
    ASSUME NEW d \in Work, NEW rows \in Seq(Nat), NEW kind \in {"lines", "rows"}
    PROVE  /\ Rewritten(d, Replace(d, rows, kind))
           /\ Content(Replace(d, rows, kind)) = rows
           /\ Replace(d, rows, kind).current =
                [d.current EXCEPT !.file = Fresh(d), !.kind = kind, !.start = 0, !.end = Len(rows)]
  <1> DEFINE f == Fresh(d)
             w == Replace(d, rows, kind)
             c == [d.current EXCEPT !.file = f, !.kind = kind, !.start = 0, !.end = Len(rows)]
  <1>1. f \in Nat /\ f \notin DOMAIN d.files \cup Named /\ f # None
    BY FreshName, SessionCacheAssumption
  <1>2. d.files \in Files /\ d.current \in Record /\ d.exists \in BOOLEAN /\ Len(rows) \in Nat
    BY DEF Work
  <1> HIDE DEF f
  <1>3. c \in Record
    BY <1>1, <1>2 DEF Record, Current
  <1>4. w = [d EXCEPT !.files = WriteFile(d.files, f, rows), !.current = c]
    BY DEF Replace, f
  <1>5. /\ WriteFile(d.files, f, rows) \in Files
        /\ DOMAIN WriteFile(d.files, f, rows) = DOMAIN d.files \cup {f}
        /\ WriteFile(d.files, f, rows)[f] = rows
        /\ \A x \in DOMAIN d.files : x # f => WriteFile(d.files, f, rows)[x] = d.files[x]
    <2>1. HasWritten(d.files, f, rows, WriteFile(d.files, f, rows))
      BY <1>1, <1>2, Written
    <2> QED BY <2>1 DEF HasWritten
  <1>6. c.file = f /\ c.end = Len(rows)
    BY <1>2 DEF Record, Current
  <1> HIDE DEF c, w
  <1>7. /\ w \in Work /\ w.exists = d.exists
        /\ w.files = WriteFile(d.files, f, rows) /\ w.current = c
    BY <1>2, <1>3, <1>4, <1>5 DEF Work
  <1>8. Content(w) = rows /\ Intact(w)
    BY <1>2, <1>7, <1>5, <1>6 DEF Content, Intact
  <1>9. Beyond(d.files, w.files)
    BY <1>1, <1>5, <1>7 DEF Beyond
  <1>10. Rewritten(d, w)
    BY <1>1, <1>6, <1>7, <1>8, <1>9 DEF Rewritten
  <1> QED BY <1>7, <1>8, <1>10 DEF f, c, w

\* The record in memory is changed.
LEMMA Recorded ==
    ASSUME NEW w \in Work, NEW c \in Record
    PROVE  /\ [w EXCEPT !.current = c] \in Work
           /\ [w EXCEPT !.current = c].current = c
           /\ [w EXCEPT !.current = c].files = w.files
           /\ [w EXCEPT !.current = c].exists = w.exists
  BY DEF Work

\* Another record of the same part of the new file.
LEMMA RewrittenRecorded ==
    ASSUME NEW d, NEW w, Rewritten(d, w), NEW c \in Record,
           c.file = w.current.file, c.end = w.current.end
    PROVE  Rewritten(d, [w EXCEPT !.current = c])
  <1>1. w \in Work
    BY DEF Rewritten
  <1> QED BY <1>1, Recorded DEF Rewritten, Intact, Content

\* replace_lines keeps the newest rows in a new file, and says so if there were more.
LEMMA LinesReplaced ==
    ASSUME NEW d \in Work, NEW rows \in Seq(Nat)
    PROVE  /\ Rewritten(d, ReplaceLines(d, rows))
           /\ Content(ReplaceLines(d, rows)) = Newest(rows, Limit)
           /\ ReplaceLines(d, rows).current =
                [d.current EXCEPT !.file = Fresh(d), !.kind = "lines", !.start = 0,
                                  !.end = Len(Newest(rows, Limit)),
                                  !.gap = d.current.gap \/ Len(rows) > Limit]
  <1> DEFINE newest == Newest(rows, Limit)
             kept == Replace(d, newest, "lines")
             c == [kept.current EXCEPT !.gap = kept.current.gap \/ Len(rows) > Limit]
  <1>1. newest \in Seq(Nat)
    BY NewestTyped, SessionCacheAssumption
  <1>2. /\ Rewritten(d, kept) /\ Content(kept) = newest
        /\ kept.current = [d.current EXCEPT !.file = Fresh(d), !.kind = "lines", !.start = 0,
                                            !.end = Len(newest)]
    BY <1>1, Replaced
  <1>3. d.current \in Record
    BY DEF Work
  <1> HIDE DEF newest, kept
  <1>4. kept \in Work /\ kept.current \in Record
    BY <1>2 DEF Rewritten, Work
  <1>5. c \in Record /\ c.file = kept.current.file /\ c.end = kept.current.end
    BY <1>4 DEF Record, Current
  <1>6. ReplaceLines(d, rows) = [kept EXCEPT !.current = c]
    BY DEF ReplaceLines, kept, newest
  <1>7. kept.current.gap = d.current.gap
    BY <1>2, <1>3 DEF Record, Current
  <1>8. c = [d.current EXCEPT !.file = Fresh(d), !.kind = "lines", !.start = 0,
                              !.end = Len(newest), !.gap = d.current.gap \/ Len(rows) > Limit]
    BY <1>2, <1>3, <1>7 DEF Record, Current
  <1> HIDE DEF c
  <1>9. Rewritten(d, ReplaceLines(d, rows))
    <2>1. Rewritten(d, [kept EXCEPT !.current = c])
      BY <1>2, <1>5, RewrittenRecorded
    <2> QED BY <1>6, <2>1
  <1>10. ReplaceLines(d, rows).current = c /\ Content(ReplaceLines(d, rows)) = newest
    BY <1>2, <1>4, <1>5, <1>6, Recorded DEF Content
  <1> QED BY <1>8, <1>9, <1>10 DEF newest

\* An append leaves the committed rows and the new ones, without an earlier tail.
LEMMA Extended ==
    ASSUME NEW d \in Work, NEW rows \in Seq(Nat), Intact(d), d.current.file # None
    PROVE  /\ Extend(d, rows) \in Work /\ Extend(d, rows).exists = d.exists
           /\ Extend(d, rows).current = [d.current EXCEPT !.end = d.current.end + Len(rows)]
           /\ Extend(d, rows).files =
                WriteFile(d.files, d.current.file, SubSeq(Content(d), 1, d.current.end) \o rows)
           /\ Content(Extend(d, rows)) = SubSeq(Content(d), 1, d.current.end) \o rows
           /\ Intact(Extend(d, rows))
  <1> DEFINE f == d.current.file
             head == SubSeq(Content(d), 1, d.current.end)
             c == [d.current EXCEPT !.end = d.current.end + Len(rows)]
             w == Extend(d, rows)
  <1>1. /\ d.files \in Files /\ d.current \in Record /\ f \in Nat /\ d.current.end \in Nat
        /\ Len(rows) \in Nat
    BY DEF Work, Record, Current
  <1>2. /\ Content(d) \in Seq(Nat) /\ d.current.end <= Len(Content(d))
    BY ContentTyped DEF Intact
  <1>3. d.current.end + Len(rows) \in Nat
    BY <1>1
  <1>4. c \in Record /\ c.file = f /\ c.end = d.current.end + Len(rows)
    BY <1>1, <1>3 DEF Record, Current
  <1>5. w = [d EXCEPT !.files = WriteFile(d.files, f, head \o rows), !.current = c]
    BY DEF Extend
  <1> HIDE DEF f, head, c, w
  <1>6. head \o rows \in Seq(Nat) /\ Len(head \o rows) = d.current.end + Len(rows)
    BY <1>1, <1>2, HeadTyped DEF head
  <1>7. /\ WriteFile(d.files, f, head \o rows) \in Files
        /\ DOMAIN WriteFile(d.files, f, head \o rows) = DOMAIN d.files \cup {f}
        /\ WriteFile(d.files, f, head \o rows)[f] = head \o rows
    <2>1. HasWritten(d.files, f, head \o rows, WriteFile(d.files, f, head \o rows))
      BY <1>1, <1>6, Written
    <2> QED BY <2>1 DEF HasWritten
  <1>8. /\ w \in Work /\ w.exists = d.exists
        /\ w.files = WriteFile(d.files, f, head \o rows) /\ w.current = c
    BY <1>1, <1>4, <1>5, <1>7 DEF Work
  <1>9. Content(w) = head \o rows /\ Intact(w)
    <2>1. Content(w) = head \o rows
      BY <1>4, <1>7, <1>8 DEF Content
    <2>2. w.current.end = Len(Content(w)) /\ Len(Content(w)) \in Nat
      BY <1>3, <1>4, <1>6, <1>8, <2>1
    <2> QED BY <2>1, <2>2 DEF Intact
  <1> QED BY <1>8, <1>9 DEF f, head, c, w

\* The rows of a file.
At(F, f) == IF f \in DOMAIN F THEN F[f] ELSE <<>>

\* What the record c has in the files F it also has in G, and if it has all of
\* its rows in G it had them in F.
Preserves(c, F, G) ==
    /\ c.end <= Len(At(G, c.file)) <=> c.end <= Len(At(F, c.file))
    /\ c.end <= Len(At(F, c.file)) =>
         \A i \in 1 .. c.end : At(G, c.file)[i] = At(F, c.file)[i]

\* The record c is on disk, and d goes on where c ends if it has the same file.
Behind(c, d) ==
    /\ c \in Record /\ c.file \in Named
    /\ d.current.file = c.file => d.current.end = c.end

\* What is preserved twice is preserved.
LEMMA PreservesTwice ==
    ASSUME NEW c \in Record, NEW F, NEW G, NEW H, Preserves(c, F, G), Preserves(c, G, H)
    PROVE  Preserves(c, F, H)
  BY DEF Preserves, Record, Current

\* Files that are added under new names preserve every record on disk.
LEMMA BeyondPreserves ==
    ASSUME NEW c \in Record, NEW F, NEW G, c.file \in Named, Beyond(F, G)
    PROVE  Preserves(c, F, G)
  <1>1. At(G, c.file) = At(F, c.file)
    BY DEF Beyond, At
  <1> QED BY <1>1 DEF Preserves

\* An append behind a record's end preserves the record.
LEMMA ExtendPreserves ==
    ASSUME NEW d \in Work, NEW rows \in Seq(Nat), Intact(d), d.current.file # None,
           NEW c, Behind(c, d)
    PROVE  Preserves(c, d.files, Extend(d, rows).files)
  <1> DEFINE f == d.current.file
             more == SubSeq(Content(d), 1, d.current.end) \o rows
             G == WriteFile(d.files, f, more)
  <1>1. Extend(d, rows).files = G
    BY Extended
  <1>2. d.files \in Files /\ f \in Nat /\ d.current.end \in Nat /\ c.end \in Nat
    BY DEF Work, Record, Current, Behind
  <1>3. Content(d) \in Seq(Nat) /\ d.current.end <= Len(Content(d)) /\ Content(d) = At(d.files, f)
    BY ContentTyped DEF Intact, Content, At
  <1>4. /\ more \in Seq(Nat) /\ Len(more) = d.current.end + Len(rows)
        /\ \A i \in 1 .. d.current.end : more[i] = Content(d)[i]
    BY <1>2, <1>3, HeadTyped
  <1> HIDE DEF more, f, G
  <1>5. /\ DOMAIN G = DOMAIN d.files \cup {f} /\ G[f] = more
        /\ \A x \in DOMAIN d.files : x # f => G[x] = d.files[x]
    <2>1. HasWritten(d.files, f, more, G)
      BY <1>2, <1>4, Written DEF G
    <2> QED BY <2>1 DEF HasWritten
  <1>6. CASE c.file = f
    <2>1. At(G, c.file) = more /\ At(d.files, c.file) = Content(d)
      BY <1>3, <1>5, <1>6 DEF At
    <2>2. c.end = d.current.end
      BY <1>6 DEF Behind, f
    <2>3. Len(rows) \in Nat
      OBVIOUS
    <2>4. c.end <= Len(more)
      BY <1>2, <1>4, <2>2, <2>3
    <2> QED BY <1>1, <1>3, <1>4, <2>1, <2>2, <2>4 DEF Preserves
  <1>7. CASE c.file # f
    <2>1. At(G, c.file) = At(d.files, c.file)
      BY <1>5, <1>7 DEF At
    <2> QED BY <1>1, <2>1 DEF Preserves
  <1> QED BY <1>6, <1>7

\* append_lines keeps what was committed.
LEMMA LinesAppended ==
    ASSUME NEW d \in Work, NEW rows \in Seq(Nat), rows # <<>> /\ d.current.file # None => Intact(d)
    PROVE  /\ AppendLines(d, rows) \in Work /\ AppendLines(d, rows).exists = d.exists
           /\ \A c : Behind(c, d) => Preserves(c, d.files, AppendLines(d, rows).files)
  <1>1. CASE rows = <<>>
    <2>1. AppendLines(d, rows) = d
      BY <1>1 DEF AppendLines
    <2> QED BY <2>1 DEF Preserves
  <1>2. CASE rows # <<>> /\ d.current.file = None
    <2>1. AppendLines(d, rows) = ReplaceLines(d, rows)
      BY <1>2 DEF AppendLines
    <2>2. Rewritten(d, ReplaceLines(d, rows))
      BY LinesReplaced
    <2> QED BY <2>1, <2>2, BeyondPreserves DEF Rewritten, Behind
  <1>3. CASE rows # <<>> /\ d.current.file # None
    <2> DEFINE longer == Extend(d, rows)
    <2>1. longer \in Work /\ longer.exists = d.exists /\ Intact(longer)
      BY <1>3, Extended
    <2>2. \A c : Behind(c, d) => Preserves(c, d.files, longer.files)
      BY <1>3, ExtendPreserves
    <2>3. AppendLines(d, rows) = IF longer.current.end > Limit
                                 THEN ReplaceLines(longer, History(longer)) ELSE longer
      BY <1>3 DEF AppendLines
    <2> HIDE DEF longer
    <2>4. Rewritten(longer, ReplaceLines(longer, History(longer)))
      BY <2>1, ContentTyped, LinesReplaced
    <2>5. \A c : Behind(c, d) => Preserves(c, d.files, ReplaceLines(longer, History(longer)).files)
      BY <2>2, <2>4, BeyondPreserves, PreservesTwice DEF Rewritten, Behind
    <2> QED BY <2>1, <2>2, <2>3, <2>4, <2>5 DEF Rewritten
  <1> QED BY <1>1, <1>2, <1>3

\* append_rows does.
LEMMA RowsAppended ==
    ASSUME NEW d \in Work, NEW rows \in Seq(Nat), Intact(d), d.current.kind = "rows"
    PROVE  /\ AppendRows(d, rows) \in Work /\ AppendRows(d, rows).exists = d.exists
           /\ \A c : Behind(c, d) => Preserves(c, d.files, AppendRows(d, rows).files)
  <1> DEFINE longer == Extend(d, rows)
             excess == IF longer.current.end - longer.current.start > Limit
                       THEN longer.current.end - longer.current.start - Limit ELSE 0
             moved == [longer EXCEPT !.current.start = @ + excess, !.current.gap = @ \/ excess > 0]
             m == [longer.current EXCEPT !.start = longer.current.start + excess,
                                         !.gap = longer.current.gap \/ excess > 0]
  <1>1. d.current.file # None
    BY DEF Work, Record
  <1>2. longer \in Work /\ longer.exists = d.exists /\ Intact(longer)
    BY <1>1, Extended
  <1>3. \A c : Behind(c, d) => Preserves(c, d.files, longer.files)
    BY <1>1, ExtendPreserves
  <1>4. AppendRows(d, rows) = IF moved.current.start >= CompactAt
                              THEN Replace(moved, History(moved), "rows") ELSE moved
    BY DEF AppendRows
  <1> HIDE DEF longer
  <1>5. longer.current \in Record /\ longer.current.end \in Nat /\ longer.current.start \in Nat
    BY <1>2 DEF Work, Record, Current
  <1>6. excess \in Nat
    BY <1>5, SessionCacheAssumption
  <1> HIDE DEF excess
  <1>7. m \in Record /\ m.file = longer.current.file /\ m.end = longer.current.end
    <2>1. longer.current.start + excess \in Nat
      BY <1>5, <1>6
    <2> QED BY <1>5, <2>1 DEF Record, Current
  <1>8. moved = [longer EXCEPT !.current = m]
    BY <1>2, <1>5 DEF Work, Record, Current
  <1> HIDE DEF moved, m
  <1>9. /\ moved \in Work /\ moved.exists = d.exists /\ moved.files = longer.files
        /\ moved.current = m
    BY <1>2, <1>7, <1>8, Recorded
  <1>10. Intact(moved)
    BY <1>2, <1>7, <1>9 DEF Intact, Content
  <1>11. Rewritten(moved, Replace(moved, History(moved), "rows"))
    BY <1>9, <1>10, ContentTyped, Replaced
  <1>12. \A c : Behind(c, d) => Preserves(c, d.files, Replace(moved, History(moved), "rows").files)
    BY <1>3, <1>9, <1>11, BeyondPreserves, PreservesTwice DEF Rewritten, Behind
  <1> QED BY <1>3, <1>4, <1>9, <1>11, <1>12 DEF Rewritten

\* An append keeps what was committed, if what is there can be appended to.
LEMMA HistoryAppended ==
    ASSUME NEW d \in Work, NEW rows \in Seq(Nat), InPlace(d, rows) => Intact(d)
    PROVE  /\ AppendHistory(d, rows) \in Work /\ AppendHistory(d, rows).exists = d.exists
           /\ \A c : Behind(c, d) => Preserves(c, d.files, AppendHistory(d, rows).files)
  <1>1. CASE d.current.kind = "rows"
    BY <1>1, RowsAppended DEF AppendHistory, InPlace
  <1>2. CASE d.current.kind # "rows"
    BY <1>2, LinesAppended DEF AppendHistory, InPlace
  <1> QED BY <1>1, <1>2

(***************************************************************************)
(* Events.                                                                  *)
(***************************************************************************)
Event ==
    [kind : {"checkpoint"}, seq : Nat, first : Nat, id : Nat \cup {None}, gap : BOOLEAN]
    \cup [kind : {"synced"}, id : Nat, from : Nat, gap : BOOLEAN]
    \cup [kind : {"output"}, from : Nat, to : Nat, clear : BOOLEAN]
    \cup [kind : {"resize"}, seq : Nat]

\* The files keep what they had, and the record is in a new one or goes on in
\* its own.
Changed(d, u) ==
    /\ u \in Work /\ u.exists = d.exists
    /\ Beyond(d.files, u.files)
    /\ \/ u.current.file \notin Named
       \/ u.current.file = d.current.file /\ u.current.end = d.current.end

\* Two changes of the record in memory are one.
LEMMA ChangedTwice ==
    ASSUME NEW d, NEW v, NEW u, Changed(d, v), Changed(v, u)
    PROVE  Changed(d, u)
  BY BeyondTwice DEF Changed

\* A history in a new file is a change.
LEMMA RewrittenChanged ==
    ASSUME NEW d, NEW w, Rewritten(d, w)
    PROVE  Changed(d, w)
  BY DEF Rewritten, Changed

\* So is another record of the same part of the same file.
LEMMA RecordChanged ==
    ASSUME NEW d \in Work, NEW c \in Record, c.file = d.current.file, c.end = d.current.end
    PROVE  Changed(d, [d EXCEPT !.current = c]) /\ [d EXCEPT !.current = c].current = c
  <1>1. Beyond(d.files, d.files)
    BY DEF Beyond
  <1> QED BY <1>1, Recorded DEF Changed

\* A checkpoint replaces everything.
LEMMA CheckpointChanges ==
    ASSUME NEW d \in Work, NEW e \in Event, e.kind = "checkpoint"
    PROVE  Changed(d, WithCheckpoint(d, e))
  <1> DEFINE b == [d.current EXCEPT !.version = 2, !.gap = e.gap]
             bounded == [d EXCEPT !.current.version = 2, !.current.gap = e.gap]
             replaced == ReplaceLines(bounded, Rows(e.first, e.seq))
             manifest == IF e.id = None THEN None ELSE [id |-> e.id, seq |-> e.seq]
             c == [replaced.current EXCEPT !.seq = e.seq, !.manifest = manifest,
                                           !.synced = (e.id = None), !.truncated = FALSE]
  <1>1. e.first \in Nat /\ e.seq \in Nat /\ e.id \in Nat \cup {None} /\ e.gap \in BOOLEAN
    BY DEF Event
  <1>2. b \in Record /\ b.file = d.current.file /\ b.end = d.current.end
    BY <1>1 DEF Work, Record, Current
  <1>3. bounded = [d EXCEPT !.current = b]
    BY DEF Work, Record, Current
  <1> HIDE DEF b, bounded
  <1>4. bounded \in Work /\ Changed(d, bounded)
    BY <1>2, <1>3, RecordChanged DEF Changed
  <1>5. Rewritten(bounded, replaced)
    BY <1>1, <1>4, RowsTyped, LinesReplaced
  <1>6. replaced \in Work /\ replaced.current \in Record
    BY <1>5 DEF Rewritten, Work
  <1>7. manifest \in [id : Nat, seq : Nat] \cup {None}
    BY <1>1
  <1>8. WithCheckpoint(d, e) = [replaced EXCEPT !.current = c]
    BY <1>6 DEF WithCheckpoint, Work, Record, Current, bounded
  <1> HIDE DEF replaced, manifest
  <1>9. c \in Record /\ c.file = replaced.current.file /\ c.end = replaced.current.end
    BY <1>1, <1>6, <1>7 DEF Record, Current
  <1> HIDE DEF c
  <1>10. Changed(replaced, WithCheckpoint(d, e))
    BY <1>6, <1>8, <1>9, RecordChanged
  <1> QED BY <1>4, <1>5, <1>10, ChangedTwice, RewrittenChanged

\* The transferred history replaces that of the record.
LEMMA HistoryChanges ==
    ASSUME NEW d \in Work, NEW e \in Event, e.kind = "synced"
    PROVE  Changed(d, WithHistory(d, e))
  <1> DEFINE rows == Rows(e.from, d.current.seq)
             complete == Replace(d, Newest(rows, Limit), "rows")
             c == [complete.current EXCEPT !.gap = e.gap \/ Len(rows) > Limit, !.synced = TRUE]
  <1>1. e.from \in Nat /\ e.gap \in BOOLEAN /\ d.current.seq \in Nat
    BY DEF Event, Work, Record, Current
  <1>2. rows \in Seq(Nat) /\ Newest(rows, Limit) \in Seq(Nat)
    BY <1>1, RowsTyped, NewestTyped, SessionCacheAssumption
  <1> HIDE DEF rows
  <1>3. Rewritten(d, complete)
    BY <1>2, Replaced
  <1>4. complete \in Work /\ complete.current \in Record
    BY <1>3 DEF Rewritten, Work
  <1>5. WithHistory(d, e) = [complete EXCEPT !.current = c]
    BY <1>4 DEF WithHistory, Work, Record, Current, rows
  <1> HIDE DEF complete
  <1>6. c \in Record /\ c.file = complete.current.file /\ c.end = complete.current.end
    BY <1>1, <1>4 DEF Record, Current
  <1> HIDE DEF c
  <1>7. Changed(complete, WithHistory(d, e))
    BY <1>4, <1>5, <1>6, RecordChanged
  <1> QED BY <1>3, <1>7, ChangedTwice, RewrittenChanged

\* A legacy record becomes one of this version.
LEMMA LegacyBounded ==
    ASSUME NEW d \in Work, d.current.version = 1 => Intact(d)
    PROVE  Changed(d, BoundLegacy(d))
  <1>1. CASE d.current.version = 1
    <2> DEFINE b == [d.current EXCEPT !.version = 2, !.gap = TRUE]
               bounded == [d EXCEPT !.current.version = 2, !.current.gap = TRUE]
               rows == Newest(History(d), Limit)
    <2>1. rows \in Seq(Nat)
      BY <1>1, ContentTyped, NewestTyped, SessionCacheAssumption
    <2>2. b \in Record /\ b.file = d.current.file /\ b.end = d.current.end
      BY DEF Work, Record, Current
    <2>3. bounded = [d EXCEPT !.current = b]
      BY DEF Work, Record, Current
    <2> HIDE DEF b, rows, bounded
    <2>4. bounded \in Work /\ Changed(d, bounded)
      BY <2>2, <2>3, RecordChanged DEF Changed
    <2>5. BoundLegacy(d) = ReplaceLines(bounded, rows)
      BY <1>1 DEF BoundLegacy, rows, bounded
    <2>6. Rewritten(bounded, BoundLegacy(d))
      BY <2>1, <2>4, <2>5, LinesReplaced
    <2> QED BY <2>4, <2>6, ChangedTwice, RewrittenChanged
  <1>2. CASE d.current.version # 1
    BY <1>2 DEF BoundLegacy, Changed, Beyond
  <1> QED BY <1>1, <1>2

\* Records that are changed in memory are records of the same rows.
LEMMA RecordsTyped ==
    ASSUME NEW c \in Record, NEW n
    PROVE  /\ Unjoined(c) \in Record /\ Unjoined(c).file = c.file /\ Unjoined(c).end = c.end
           /\ RetainReplay(c, n) \in Record /\ RetainReplay(c, n).file = c.file
           /\ RetainReplay(c, n).end = c.end
  BY DEF Unjoined, RetainReplay, Record, Current

\* The rows that output scrolls off the screen.
LEMMA ScrolledTyped ==
    ASSUME NEW c \in Record, NEW e \in Event
    PROVE  Scrolled(c, e) \in Seq(Nat)
  <1>1. CASE e.kind = "output" /\ ~e.clear
    <2>1. e.to \in Nat /\ c.seq \in Nat
      BY <1>1 DEF Event, Record, Current
    <2> QED BY <1>1, <2>1, RowsTyped DEF Scrolled
  <1>2. CASE ~(e.kind = "output" /\ ~e.clear)
    BY <1>2 DEF Scrolled
  <1> QED BY <1>1, <1>2

\* Output, apart from the rows to append.
LEMMA OutputChanges ==
    ASSUME NEW d \in Work, NEW e \in Event, e.kind = "output"
    PROVE  Changed(d, WithOutput(d, e))
  <1> DEFINE r == RetainReplay(d.current, e.to - d.current.seq)
             retained == [d EXCEPT !.current = r]
             long == Len(Scrolled(d.current, e)) > Limit
             bounded == [retained EXCEPT !.current.gap = @ \/ long]
             g == [r EXCEPT !.gap = r.gap \/ long]
             open == [retained EXCEPT !.current = Unjoined(@), !.current.synced = FALSE]
             o == [Unjoined(r) EXCEPT !.synced = FALSE]
             cleared0 == ReplaceLines(open, <<>>)
  <1>1. e.to \in Nat /\ e.clear \in BOOLEAN /\ d.current \in Record
    BY DEF Event, Work
  <1>2. WithOutput(d, e) = [(IF e.clear THEN cleared0 ELSE bounded) EXCEPT !.current.seq = e.to]
    BY DEF WithOutput
  <1>3. r \in Record /\ r.file = d.current.file /\ r.end = d.current.end
    BY <1>1, RecordsTyped
  <1> HIDE DEF r
  <1>4. retained \in Work /\ Changed(d, retained) /\ retained.current = r
    BY <1>3, RecordChanged DEF Changed
  <1>5. g \in Record /\ g.file = r.file /\ g.end = r.end
    BY <1>3 DEF Record, Current
  <1>6. o \in Record /\ o.file = r.file /\ o.end = r.end
    <2>1. Unjoined(r) \in Record /\ Unjoined(r).file = r.file /\ Unjoined(r).end = r.end
      BY <1>3, RecordsTyped
    <2> HIDE DEF Unjoined
    <2> QED BY <2>1 DEF Record, Current
  <1> HIDE DEF retained, long
  <1>7. bounded = [retained EXCEPT !.current = g]
    BY <1>4 DEF Work, Record, Current
  <1>8. open = [retained EXCEPT !.current = o]
    BY <1>4 DEF Work
  <1> HIDE DEF bounded, g, open, o
  <1>9. Changed(retained, bounded) /\ Changed(retained, open) /\ open \in Work
    BY <1>4, <1>5, <1>6, <1>7, <1>8, RecordChanged DEF Changed
  <1>10. Rewritten(open, cleared0)
    <2>1. <<>> \in Seq(Nat)
      OBVIOUS
    <2> QED BY <1>9, <2>1, LinesReplaced
  <1> HIDE DEF cleared0
  <1>11. Changed(d, cleared0) /\ Changed(d, bounded)
    BY <1>4, <1>9, <1>10, ChangedTwice, RewrittenChanged
  <1>12. ASSUME NEW w, Changed(d, w)
         PROVE  Changed(d, [w EXCEPT !.current.seq = e.to])
    <2> DEFINE c == [w.current EXCEPT !.seq = e.to]
    <2>1. w \in Work
      BY <1>12 DEF Changed
    <2>2. c \in Record /\ c.file = w.current.file /\ c.end = w.current.end
      BY <1>1, <2>1 DEF Work, Record, Current
    <2>3. [w EXCEPT !.current.seq = e.to] = [w EXCEPT !.current = c]
      BY <2>1
    <2> HIDE DEF c
    <2>4. Changed(w, [w EXCEPT !.current = c])
      BY <2>1, <2>2, RecordChanged
    <2> QED BY <1>12, <2>3, <2>4, ChangedTwice
  <1>13. CASE e.clear
    BY <1>2, <1>11, <1>12, <1>13
  <1>14. CASE ~e.clear
    BY <1>2, <1>11, <1>12, <1>14
  <1> QED BY <1>1, <1>13, <1>14

\* Every event that is not refused.
LEMMA EventChanges ==
    ASSUME NEW d \in Work, NEW e \in Event, ~Refused(d, e)
    PROVE  Changed(d, Updated(d, e))
  <1>1. e.kind \in {"checkpoint", "synced", "output", "resize"}
    BY DEF Event
  <1>2. CASE e.kind = "checkpoint"
    BY <1>2, CheckpointChanges DEF Updated
  <1>3. CASE e.kind = "synced"
    BY <1>3, HistoryChanges DEF Updated
  <1>4. ASSUME e.kind \in {"output", "resize"}
        PROVE  Changed(d, BoundLegacy(d)) /\ BoundLegacy(d) \in Work
    BY <1>4, LegacyBounded DEF Refused, Changed
  <1>5. CASE e.kind = "output"
    <2>1. Updated(d, e) = WithOutput(BoundLegacy(d), e)
      BY <1>5 DEF Updated
    <2> QED BY <1>4, <1>5, <2>1, OutputChanges, ChangedTwice
  <1>6. CASE e.kind = "resize"
    <2> DEFINE b == BoundLegacy(d)
               c == Unjoined(b.current)
    <2>1. Updated(d, e) = [b EXCEPT !.current = c]
      BY <1>6 DEF Updated
    <2>2. Changed(d, b) /\ b \in Work /\ b.current \in Record
      BY <1>4, <1>6 DEF Work
    <2> HIDE DEF b
    <2>3. c \in Record /\ c.file = b.current.file /\ c.end = b.current.end
      BY <2>2, RecordsTyped
    <2> HIDE DEF c
    <2>4. Changed(b, [b EXCEPT !.current = c])
      BY <2>2, <2>3, RecordChanged
    <2> QED BY <2>1, <2>2, <2>4, ChangedTwice
  <1> QED BY <1>1, <1>2, <1>3, <1>5, <1>6

(***************************************************************************)
(* Directories.                                                             *)
(***************************************************************************)
\* A directory with a record, on disk and at hand.
LEMMA FoundWork ==
    ASSUME NEW d \in Directory, Found(d)
    PROVE  d \in Work /\ d.exists /\ d.current \in Record
  BY DEF Directory, Work, Found

\* And back: a directory at hand that exists has its record.
LEMMA WorkFound ==
    ASSUME NEW d \in Work, d.exists
    PROVE  d \in Directory /\ Found(d)
  BY SessionCacheAssumption DEF Directory, Work, Found, Record

\* Directories that were removed or just made.
LEMMA EmptyTyped ==
    /\ NoDirectory \in Directory /\ ~Found(NoDirectory) /\ ~NoDirectory.exists
    /\ EmptyDirectory \in Directory /\ ~Found(EmptyDirectory) /\ EmptyDirectory.exists
  <1>1. <<>> \in Files
    BY NoFiles
  <1> QED BY <1>1 DEF NoDirectory, EmptyDirectory, Directory, Found

\* A record is read as before if the files preserve it.
LEMMA ReadAsBefore ==
    ASSUME NEW d \in Work, NEW G \in Files, Preserves(d.current, d.files, G), Intact(d)
    PROVE  /\ [d EXCEPT !.files = G] \in Work /\ Intact([d EXCEPT !.files = G])
           /\ History([d EXCEPT !.files = G]) = History(d)
  <1> DEFINE w == [d EXCEPT !.files = G]
             s == Content(d)
             t == Content(w)
             n == d.current.end
             m == d.current.start
  <1>1. w \in Work /\ w.files = G /\ w.current = d.current
    BY DEF Work
  <1>2. s = At(d.files, d.current.file) /\ t = At(G, d.current.file)
    BY <1>1 DEF Content, At
  <1>3. m \in Nat /\ n \in Nat
    BY DEF Work, Record, Current
  <1>4. s \in Seq(Nat) /\ t \in Seq(Nat)
    BY <1>1, ContentTyped
  <1>5. n <= Len(s) /\ n <= Len(t) /\ \A i \in 1 .. n : t[i] = s[i]
    BY <1>2 DEF Intact, Preserves
  <1>6. Intact(w)
    BY <1>1, <1>5 DEF Intact
  <1>7. History(w) = SubSeq(t, m + 1, n) /\ History(d) = SubSeq(s, m + 1, n)
    BY <1>1 DEF History
  <1> HIDE DEF s, t, n, m
  <1>8. SubSeq(t, m + 1, n) = SubSeq(s, m + 1, n)
    BY <1>3, <1>4, <1>5
  <1> QED BY <1>1, <1>6, <1>7, <1>8

\* A copy has the file that its record names.
LEMMA Copied ==
    ASSUME NEW d \in Directory, Found(d)
    PROVE  /\ Copy(d) \in Directory /\ Found(Copy(d)) /\ Copy(d).exists
           /\ Copy(d).current = d.current /\ Copy(d).files \in Files
           /\ Intact(Copy(d)) = Intact(d) /\ History(Copy(d)) = History(d)
  <1> DEFINE S == DOMAIN d.files \cap {d.current.file}
             G == Restrict(d.files, S)
  <1>1. d \in Work /\ d.files \in Files /\ d.exists
    BY FoundWork DEF Work
  <1>2. G \in Files /\ DOMAIN G = S /\ \A x \in S : G[x] = d.files[x]
    BY <1>1, Restricted
  <1>3. Copy(d) = [d EXCEPT !.files = G]
    BY DEF Copy
  <1> HIDE DEF G
  <1>4. Copy(d) \in Work /\ Copy(d).files = G /\ Copy(d).current = d.current /\ Copy(d).exists
    BY <1>1, <1>2, <1>3 DEF Work
  <1>5. Content(Copy(d)) = Content(d)
    BY <1>2, <1>4 DEF Content
  <1>6. Intact(Copy(d)) = Intact(d) /\ History(Copy(d)) = History(d)
    BY <1>4, <1>5 DEF Intact, History
  <1> QED BY <1>2, <1>4, <1>6, WorkFound

(***************************************************************************)
(* Disks.                                                                   *)
(***************************************************************************)
\* The parts of a disk.
LEMMA DiskTyped ==
    ASSUME NEW k \in Disk
    PROVE  /\ k.live \in Directory /\ k.archived \in Directory /\ k.previous \in Directory
           /\ k.preserved \in Seq(Nat) \cup {None} /\ k.transcript \in Seq(Nat)
  BY DEF Disk

\* The live directory is another one.
LEMMA LiveReplaced ==
    ASSUME NEW k \in Disk, NEW d \in Directory
    PROVE  /\ [k EXCEPT !.live = d] \in Disk /\ [k EXCEPT !.live = d].live = d
           /\ [k EXCEPT !.live = d].archived = k.archived
           /\ [k EXCEPT !.live = d].previous = k.previous
           /\ [k EXCEPT !.live = d].preserved = k.preserved
           /\ [k EXCEPT !.live = d].saved = k.saved
           /\ [k EXCEPT !.live = d].transcript = k.transcript
  BY DEF Disk

\* A disk on which apply works: the session is open and a legacy transcript is
\* preserved.
Open == {k \in Good : k.live.exists /\ Beside(k)}

\* The live directory is the same to a reader.
LEMMA LiveTheSame ==
    ASSUME NEW k \in Open, NEW d \in Directory, d.exists, Found(d) = Found(k.live),
           Found(k.live) /\ Intact(k.live) => View(d) = View(k.live)
    PROVE  [k EXCEPT !.live = d] \in Open
  <1> DEFINE w == [k EXCEPT !.live = d]
  <1>1. k \in Disk /\ Kept(k) /\ k.live.exists /\ Beside(k)
    BY DEF Open, Good
  <1>2. /\ w \in Disk /\ w.live = d /\ w.saved = k.saved
        /\ w.preserved = k.preserved /\ w.transcript = k.transcript
    BY <1>1, LiveReplaced
  <1> HIDE DEF w
  <1>3. Beside(w)
    BY <1>1, <1>2 DEF Beside
  <1>4. w.saved # None => Found(k.live) /\ View(k.live) = k.saved
    BY <1>1, <1>2 DEF Kept, Seen
  <1>5. w.saved # None => View(Seen(w)) = w.saved
    <2> SUFFICES ASSUME w.saved # None PROVE View(Seen(w)) = w.saved
      OBVIOUS
    <2>1. Seen(w) = d
      BY <1>2, <1>4 DEF Seen
    <2>2. Intact(k.live)
      BY <1>2, <1>4 DEF View
    <2> QED BY <1>2, <1>4, <2>1, <2>2
  <1>6. ~Found(w.live) => w.saved = None
    BY <1>1, <1>2 DEF Kept
  <1>7. Kept(w)
    BY <1>3, <1>5, <1>6 DEF Kept
  <1> QED BY <1>1, <1>2, <1>3, <1>7 DEF Open, Good, w

\* Data files are written.
LEMMA FilesWritten ==
    ASSUME NEW k \in Open, NEW G \in Files,
           Found(k.live) => Preserves(k.live.current, k.live.files, G)
    PROVE  /\ [k EXCEPT !.live.files = G] \in Open
           /\ [k EXCEPT !.live.files = G].live.files = G
           /\ [k EXCEPT !.live.files = G].live.current = k.live.current
  <1> DEFINE d == [k.live EXCEPT !.files = G]
  <1>1. k \in Disk /\ k.live \in Directory /\ k.live.exists
    BY DiskTyped DEF Open, Good
  <1>2. [k EXCEPT !.live.files = G] = [k EXCEPT !.live = d]
    BY <1>1
  <1>3. d \in Directory /\ d.exists /\ d.current = k.live.current /\ d.files = G
    BY <1>1 DEF Directory
  <1>4. Found(k.live) /\ Intact(k.live) => View(d) = View(k.live)
    <2> SUFFICES ASSUME Found(k.live), Intact(k.live) PROVE View(d) = View(k.live)
      OBVIOUS
    <2>1. Intact(d) /\ History(d) = History(k.live)
      BY <1>1, FoundWork, ReadAsBefore
    <2> QED BY <1>3, <2>1 DEF View, Found
  <1> HIDE DEF d
  <1>5. [k EXCEPT !.live = d] \in Open
    BY <1>3, <1>4, LiveTheSame DEF Found
  <1>6. [k EXCEPT !.live = d].live = d
    BY <1>1, <1>3, LiveReplaced
  <1> QED BY <1>2, <1>3, <1>5, <1>6

\* A record is committed.
LEMMA Committed ==
    ASSUME NEW k \in Open, NEW c \in Record
    PROVE  /\ Commit(k, c) \in Open
           /\ Commit(k, c).live = [k.live EXCEPT !.current = c]
           /\ Found(Commit(k, c).live) /\ Commit(k, c).live.current = c
           /\ Commit(k, c).live.files = k.live.files
  <1> DEFINE d == [k.live EXCEPT !.current = c]
             w == Commit(k, c)
  <1>1. k \in Disk /\ Kept(k) /\ k.live \in Directory /\ k.live.exists /\ Beside(k)
    BY DiskTyped DEF Open, Good
  <1>2. d \in Work /\ d.exists /\ d.current = c /\ d.files = k.live.files
    BY <1>1 DEF Directory, Work
  <1> HIDE DEF d
  <1>3. d \in Directory /\ Found(d)
    BY <1>2, WorkFound
  <1>4. View(d) \in [current : Record, history : Seq(Nat)] \cup {None}
    BY <1>2, ContentTyped DEF View
  <1>5. w = [k EXCEPT !.live = d, !.saved = View(d)]
    BY DEF Commit, d
  <1> HIDE DEF w
  <1>6. /\ w \in Disk /\ w.live = d /\ w.saved = View(d)
        /\ w.preserved = k.preserved /\ w.transcript = k.transcript
    BY <1>1, <1>3, <1>4, <1>5 DEF Disk
  <1>7. Beside(w)
    BY <1>1, <1>6 DEF Beside
  <1>8. Kept(w)
    BY <1>3, <1>6, <1>7 DEF Kept, Seen
  <1> QED BY <1>2, <1>3, <1>6, <1>7, <1>8 DEF Open, Good, d, w

(***************************************************************************)
(* Operations.                                                              *)
(***************************************************************************)
\* An archive that was being replaced is put back.
LEMMA Recovers ==
    ASSUME NEW k \in Good
    PROVE  /\ RecoverArchive(k) \in Good /\ RecoverArchive(k).live = k.live
           /\ RecoverArchive(k).archived \in {k.archived, k.previous}
           /\ RecoverArchive(k).previous = NoDirectory
  <1> DEFINE a == IF k.archived.exists THEN k.archived ELSE k.previous
             w == RecoverArchive(k)
  <1>1. k \in Disk /\ Kept(k)
    BY DEF Good
  <1>2. k.archived \in Directory /\ k.previous \in Directory /\ k.live \in Directory
    BY <1>1, DiskTyped
  <1>3. w = [k EXCEPT !.archived = a, !.previous = NoDirectory]
    BY DEF RecoverArchive
  <1>4. /\ w \in Disk /\ w.live = k.live /\ w.archived = a /\ w.previous = NoDirectory
        /\ w.preserved = k.preserved /\ w.saved = k.saved /\ w.transcript = k.transcript
    BY <1>1, <1>2, <1>3, EmptyTyped DEF Disk
  <1>5. Seen(w) = Seen(k) \/ (~Found(Seen(w)) /\ ~Found(Seen(k)))
    <2>1. CASE Found(k.live)
      BY <1>4, <2>1 DEF Seen
    <2>2. CASE ~Found(k.live) /\ a.exists
      BY <1>4, <2>2 DEF Seen
    <2>3. CASE ~Found(k.live) /\ ~a.exists
      <3>1. ~k.archived.exists /\ ~k.previous.exists
        BY <2>3
      <3>2. Seen(k) = k.previous /\ Seen(w) = NoDirectory
        BY <1>4, <2>3, <3>1 DEF Seen
      <3> QED BY <1>2, <3>1, <3>2, EmptyTyped DEF Directory, Found
    <2> QED BY <2>1, <2>2, <2>3
  <1>6. View(Seen(w)) = View(Seen(k))
    BY <1>5 DEF View
  <1>7. Untouched(k) => Untouched(w)
    BY <1>4, <1>5 DEF Untouched
  <1>8. Kept(w)
    BY <1>1, <1>4, <1>6, <1>7 DEF Kept, Beside
  <1> QED BY <1>4, <1>8 DEF Good

\* The session is opened, from its archive if that is all there is.
LEMMA Resumes ==
    ASSUME NEW k \in Good, ~k.previous.exists
    PROVE  /\ Resume(k) \in Good /\ Resume(k).live.exists
           /\ Found(Resume(k).live) =>
                \E r \in {k.live, k.archived} : Found(r) /\ r.current = Resume(k).live.current
  <1> DEFINE d == CASE k.live.exists -> k.live
                    [] ~k.live.exists /\ Found(k.archived) -> Copy(k.archived)
                    [] OTHER -> EmptyDirectory
             w == Resume(k)
  <1>1. k \in Disk /\ Kept(k)
    BY DEF Good
  <1>2. k.archived \in Directory /\ k.previous \in Directory /\ k.live \in Directory
    BY <1>1, DiskTyped
  <1>3. w = [k EXCEPT !.live = d]
    BY DEF Resume
  <1>4. k.live.exists \in BOOLEAN
    BY <1>2 DEF Directory
  <1>5. CASE k.live.exists
    <2>1. d = k.live
      BY <1>5
    <2>2. /\ w \in Disk /\ w.live = k.live /\ w.archived = k.archived /\ w.previous = k.previous
          /\ w.preserved = k.preserved /\ w.saved = k.saved /\ w.transcript = k.transcript
      BY <1>1, <1>2, <1>3, <2>1, LiveReplaced
    <2>3. Kept(w)
      BY <1>1, <2>2 DEF Kept, Beside, Untouched, Seen
    <2> QED BY <1>5, <2>2, <2>3 DEF Good
  <1>6. CASE ~k.live.exists /\ Found(k.archived)
    <2>1. d = Copy(k.archived)
      BY <1>6
    <2>2. /\ d \in Directory /\ Found(d) /\ d.exists /\ d.current = k.archived.current
          /\ Intact(d) = Intact(k.archived) /\ History(d) = History(k.archived)
      BY <1>2, <1>6, <2>1, Copied
    <2> HIDE DEF d
    <2>3. /\ w \in Disk /\ w.live = d
          /\ w.preserved = k.preserved /\ w.saved = k.saved /\ w.transcript = k.transcript
      BY <1>1, <1>3, <2>2, LiveReplaced
    <2>4. Seen(k) = k.archived /\ Seen(w) = d
      <3>1. ~Found(k.live) /\ k.archived.exists
        BY <1>2, <1>6 DEF Directory, Found
      <3> QED BY <2>2, <2>3, <3>1 DEF Seen
    <2>5. View(d) = View(k.archived)
      BY <1>6, <2>2 DEF View
    <2>6. Untouched(k) => Untouched(w)
      BY <2>2, <2>3, <2>4 DEF Untouched
    <2>7. Kept(w)
      BY <1>1, <2>2, <2>3, <2>4, <2>5, <2>6 DEF Kept, Beside
    <2> QED BY <1>6, <2>2, <2>3, <2>7 DEF Good
  <1>7. CASE ~k.live.exists /\ ~Found(k.archived)
    <2>1. d = EmptyDirectory
      BY <1>7
    <2>2. d \in Directory /\ ~Found(d) /\ d.exists
      BY <2>1, EmptyTyped
    <2> HIDE DEF d
    <2>3. /\ w \in Disk /\ w.live = d
          /\ w.preserved = k.preserved /\ w.saved = k.saved /\ w.transcript = k.transcript
      BY <1>1, <1>3, <2>2, LiveReplaced
    <2>4. ~Found(Seen(k))
      BY <1>2, <1>7 DEF Seen, Directory, Found
    <2>5. k.saved = None /\ Beside(k)
      BY <1>1, <2>4 DEF Kept, View, Untouched
    <2>6. Kept(w)
      BY <2>3, <2>5 DEF Kept, Beside
    <2> QED BY <2>2, <2>3, <2>6 DEF Good
  <1> QED BY <1>4, <1>5, <1>6, <1>7

\* The whole session is copied before a legacy record is touched.
LEMMA Preserved ==
    ASSUME NEW k \in Good, Legacy(k), k.live.exists
    PROVE  Preserve(k) \in Open /\ Preserve(k).live = k.live
  <1> DEFINE p == IF k.preserved # None THEN k.preserved
                  ELSE IF Intact(k.live) THEN History(k.live) ELSE <<>>
             w == Preserve(k)
  <1>1. k \in Disk /\ Kept(k)
    BY DEF Good
  <1>2. /\ k.live \in Directory /\ k.preserved \in Seq(Nat) \cup {None} /\ k.transcript \in Seq(Nat)
        /\ Found(k.live)
    BY <1>1, DiskTyped DEF Legacy
  <1>3. w = [k EXCEPT !.preserved = p]
    BY DEF Preserve
  <1>4. p \in Seq(Nat) \cup {None}
    BY <1>2, FoundWork, ContentTyped
  <1>5. k.transcript # <<>> => p = k.transcript
    <2>1. CASE Beside(k)
      BY <1>2, <2>1, SessionCacheAssumption DEF Beside
    <2>2. CASE Untouched(k)
      BY <1>2, <2>2 DEF Untouched, Seen
    <2> QED BY <1>1, <2>1, <2>2 DEF Kept
  <1> HIDE DEF p
  <1>6. /\ w \in Disk /\ w.live = k.live /\ w.archived = k.archived /\ w.previous = k.previous
        /\ w.preserved = p /\ w.saved = k.saved /\ w.transcript = k.transcript
    BY <1>1, <1>3, <1>4 DEF Disk
  <1>7. Beside(w)
    BY <1>5, <1>6 DEF Beside
  <1>8. Kept(w)
    BY <1>1, <1>2, <1>6, <1>7 DEF Kept, Seen
  <1> QED BY <1>6, <1>7, <1>8 DEF Good, Open

\* Steps, one after the other.
LEMMA NotEmpty ==
    ASSUME NEW S, NEW s \in Seq(S), Len(s) # 0
    PROVE  s # <<>>
  OBVIOUS

\* The length of two sequences of steps.
LEMMA Joined ==
    ASSUME NEW S, NEW s \in Seq(S), NEW t \in Seq(S)
    PROVE  s \o t \in Seq(S) /\ Len(s \o t) = Len(s) + Len(t)
  OBVIOUS

\* An event finds the session open.
LEMMA OpensSession ==
    ASSUME disk \in Good
    PROVE  LET opened == Opened(disk)
               at == Last(opened)
               read == opened[3].live.current IN
           /\ opened \in Seq(Good) /\ opened # <<>> /\ at \in Open
           /\ read = None <=> ~Found(at.live)
           /\ read # None => /\ read \in Record /\ read.file \in Named
                             /\ at.live.current \in {read, [read EXCEPT !.preserved = TRUE]}
  <1> DEFINE recovered == RecoverArchive(disk)
             resumed == Resume(recovered)
             copied == Preserve(resumed)
             marked0 == MarkPreserved(copied)
             cond == Legacy(resumed) /\ (~resumed.live.current.preserved \/ resumed.preserved = None)
             read == resumed.live.current
             opened == Opened(disk)
  <1>1. /\ recovered \in Good /\ recovered.live = disk.live
        /\ recovered.archived \in {disk.archived, disk.previous} /\ ~recovered.previous.exists
    BY Recovers, EmptyTyped
  <1>2. /\ resumed \in Good /\ resumed.live.exists
        /\ Found(resumed.live) =>
             \E r \in {recovered.live, recovered.archived} : Found(r) /\ r.current = read
    BY <1>1, Resumes
  <1>3. opened = <<disk, recovered, resumed>>
                   \o (IF cond THEN <<copied, marked0>> ELSE <<>>)
    BY DEF Opened
  <1> HIDE DEF recovered, resumed, opened
  <1>4. Found(resumed.live) => read \in Record /\ read.file \in Named
    <2> SUFFICES ASSUME Found(resumed.live) PROVE read \in Record /\ read.file \in Named
      OBVIOUS
    <2>1. resumed.live \in Directory
      BY <1>2, DiskTyped DEF Good
    <2>2. \E r \in {disk.live, disk.archived, disk.previous} : Found(r) /\ r.current = read
      BY <1>1, <1>2
    <2> QED BY <2>1, <2>2, FoundWork DEF Named
  <1>5. CASE cond
    <2>1. copied \in Open /\ copied.live = resumed.live /\ Found(resumed.live)
      BY <1>2, <1>5, Preserved DEF Legacy
    <2> HIDE DEF copied
    <2>2. [read EXCEPT !.preserved = TRUE] \in Record
      BY <1>4, <2>1 DEF Record, Current
    <2>3. marked0 \in Open /\ Found(marked0.live) /\ marked0.live.current = [read EXCEPT !.preserved = TRUE]
      <3> DEFINE c == [read EXCEPT !.preserved = TRUE]
      <3>1. marked0 = Commit(copied, c)
        BY <2>1 DEF MarkPreserved
      <3>2. c \in Record
        BY <2>2
      <3> HIDE DEF c, marked0
      <3>3. marked0 \in Open /\ Found(marked0.live) /\ marked0.live.current = c
        BY <2>1, <3>1, <3>2, Committed
      <3> QED BY <3>3 DEF c
    <2> HIDE DEF marked0
    <2>4. disk \in Good /\ recovered \in Good /\ resumed \in Good /\ copied \in Good /\ marked0 \in Good
      BY <1>1, <1>2, <2>1, <2>3 DEF Open
    <2>5. opened = <<disk, recovered, resumed>> \o <<copied, marked0>>
      BY <1>3, <1>5
    <2>6. <<disk, recovered, resumed>> \in Seq(Good) /\ <<copied, marked0>> \in Seq(Good)
      BY <2>4
    <2>7. opened \in Seq(Good) /\ Len(opened) = 5 /\ opened[3] = resumed /\ opened[5] = marked0
      BY <2>5, <2>6
    <2>8. opened # <<>> /\ Last(opened) = marked0
      <3>1. opened # <<>>
        <4>1. Len(opened) # 0 /\ opened \in Seq(Good)
          BY <2>7
        <4> QED BY <4>1, NotEmpty
      <3> QED BY <2>7, <3>1 DEF Last
    <2>9. read # None
      BY <2>1 DEF Found
    <2> QED BY <1>4, <2>1, <2>3, <2>7, <2>8, <2>9 DEF opened
  <1>6. CASE ~cond
    <2>1. Beside(resumed)
      <3>1. CASE Beside(resumed)
        BY <3>1
      <3>2. CASE Untouched(resumed)
        <4>1. CASE Found(resumed.live)
          BY <1>6, <3>2, <4>1 DEF Untouched, Seen, Legacy
        <4>2. CASE ~Found(resumed.live)
          BY <1>2, <4>2 DEF Good, Kept
        <4> QED BY <4>1, <4>2
      <3> QED BY <1>2, <3>1, <3>2 DEF Good, Kept
    <2>2. resumed \in Open
      BY <1>2, <2>1 DEF Open
    <2>3. opened = <<disk, recovered, resumed>> \o <<>>
      BY <1>3, <1>6
    <2>4. <<disk, recovered, resumed>> \in Seq(Good)
      BY <1>1, <1>2
    <2>5. opened \in Seq(Good) /\ Len(opened) = 3 /\ opened[3] = resumed
      BY <2>3, <2>4
    <2>6. opened # <<>> /\ Last(opened) = resumed
      <3>1. opened # <<>>
        <4>1. Len(opened) # 0 /\ opened \in Seq(Good)
          BY <2>5
        <4> QED BY <4>1, NotEmpty
      <3> QED BY <2>5, <3>1 DEF Last
    <2>7. read = None <=> ~Found(resumed.live)
      BY DEF Found
    <2> QED BY <1>4, <2>2, <2>5, <2>6, <2>7 DEF opened
  <1> QED BY <1>5, <1>6

\* The steps of a commit.
LEMMA SavedGood ==
    ASSUME NEW k \in Open, NEW c \in Record
    PROVE  Saved(k, c) \in Seq(Good)
  <1> DEFINE committed == Commit(k, c)
             d == Copy(committed.live)
             cleaned == [committed EXCEPT !.live = d]
  <1>1. committed \in Open /\ Found(committed.live)
    BY Committed
  <1>2. Saved(k, c) = <<committed, cleaned>>
    BY DEF Saved
  <1> HIDE DEF committed
  <1>3. committed.live \in Directory
    BY <1>1, DiskTyped DEF Open, Good
  <1>4. /\ d \in Directory /\ Found(d) /\ d.exists /\ d.current = committed.live.current
        /\ Intact(d) = Intact(committed.live) /\ History(d) = History(committed.live)
    BY <1>1, <1>3, Copied
  <1> HIDE DEF d
  <1>5. View(d) = View(committed.live)
    BY <1>1, <1>4 DEF View
  <1>6. cleaned \in Open
    BY <1>1, <1>4, <1>5, LiveTheSame
  <1> HIDE DEF cleaned
  <1>7. committed \in Good /\ cleaned \in Good
    BY <1>1, <1>6 DEF Open
  <1> QED BY <1>2, <1>7

\* Whatever part of an append was written, what was committed is still there.
LEMMA PartlyGood ==
    ASSUME NEW k \in Open, NEW d \in Work, NEW rows \in Seq(Nat), InPlace(d, rows) => Intact(d),
           d.files = k.live.files, Found(k.live) => Behind(k.live.current, d)
    PROVE  Partly(k, d, rows) \in Seq(Good)
  <1>1. CASE ~InPlace(d, rows)
    BY <1>1 DEF Partly
  <1>2. CASE InPlace(d, rows)
    <2> DEFINE part(i) == SubSeq(rows, 1, i - 1)
               after(i) == [k EXCEPT !.live.files = Extend(d, part(i)).files]
    <2>1. Intact(d) /\ d.current.file # None
      BY <1>2 DEF InPlace, Work, Record
    <2>2. Len(rows) + 1 \in Nat
      OBVIOUS
    <2>3. ASSUME NEW i \in 1 .. Len(rows) + 1 PROVE after(i) \in Good
      <3>1. part(i) \in Seq(Nat)
        BY <2>3
      <3> HIDE DEF part
      <3>2. Extend(d, part(i)).files \in Files
        BY <2>1, <3>1, Extended DEF Work
      <3>3. Found(k.live) => Preserves(k.live.current, k.live.files, Extend(d, part(i)).files)
        BY <2>1, <3>1, ExtendPreserves
      <3>4. after(i) \in Open
        BY <3>2, <3>3, FilesWritten
      <3> QED BY <3>4 DEF Open
    <2>4. Partly(k, d, rows) = [i \in 1 .. Len(rows) + 1 |-> after(i)]
      BY <1>2 DEF Partly
    <2> HIDE DEF after
    <2> QED BY <2>2, <2>3, <2>4
  <1> QED BY <1>1, <1>2

\* The record of a terminal that has none is one.
LEMMA NewTyped == NewCurrent \in Record
  BY DEF NewCurrent, Record, Current

\* apply leaves a good disk after each of its steps, whether it ignores the
\* event, refuses it or saves it.
LEMMA AppliesWell ==
    ASSUME disk \in Good, NEW e \in Event
    PROVE  Apply(disk, e).steps \in Seq(Good) /\ Apply(disk, e).steps # <<>>
  <1> DEFINE opened == Opened(disk)
             at == Last(opened)
             read == opened[3].live.current
             has == read # None
             before == [at.live EXCEPT !.current = IF has THEN read ELSE NewCurrent]
             updated == Updated(before, e)
             written0 == [at EXCEPT !.live.files = updated.files]
             rows == Newest(Scrolled(before.current, e), Limit)
             appended == AppendHistory(updated, rows)
             whole == [at EXCEPT !.live.files = appended.files]
             ignored == Ignored(before.current, has, e)
             refused == Refused(before, e)
             stuck == InPlace(updated, rows) /\ ~Intact(updated)
             last == Append(opened, written0) \o Partly(written0, updated, rows)
                       \o <<whole>> \o Saved(whole, appended.current)
             result == Apply(disk, e)
  <1>1. result = CASE ignored -> [ok |-> TRUE, steps |-> opened]
                   [] ~ignored /\ refused -> [ok |-> FALSE, steps |-> opened]
                   [] OTHER -> IF stuck THEN [ok |-> FALSE, steps |-> Append(opened, written0)]
                               ELSE [ok |-> TRUE, steps |-> last]
    BY DEF Apply
  <1>2. /\ opened \in Seq(Good) /\ opened # <<>> /\ at \in Open
        /\ read = None <=> ~Found(at.live)
        /\ read # None => /\ read \in Record /\ read.file \in Named
                          /\ at.live.current \in {read, [read EXCEPT !.preserved = TRUE]}
    BY OpensSession
  <1> HIDE DEF opened, at, read, result
  <1>3. at.live \in Directory /\ at.live.exists /\ at.live.files \in Files
    BY <1>2, DiskTyped DEF Open, Good, Directory
  <1>4. before \in Work /\ before.files = at.live.files /\ (has => before.current = read)
    BY <1>2, <1>3, NewTyped DEF Directory, Work
  <1>5. Found(at.live) => at.live.current \in Record /\ at.live.current.file = read.file
                          /\ at.live.current.end = read.end /\ at.live.current.file \in Named
    BY <1>2 DEF Record, Current
  <1> HIDE DEF before
  <1>6. rows \in Seq(Nat)
    <2>1. Scrolled(before.current, e) \in Seq(Nat)
      BY <1>4, ScrolledTyped DEF Work
    <2> QED BY <2>1, NewestTyped, SessionCacheAssumption
  <1> HIDE DEF rows, has, ignored, refused
  <1>7. CASE ignored \/ refused
    <2>1. result.steps = opened
      BY <1>1, <1>7
    <2> QED BY <1>2, <2>1 DEF result
  <1>8. CASE ~ignored /\ ~refused
    <2>1. Changed(before, updated)
      BY <1>4, <1>8, EventChanges DEF refused
    <2> HIDE DEF updated
    <2>2. updated \in Work /\ updated.files \in Files
      BY <2>1 DEF Changed, Work
    <2>3. Found(at.live) => /\ Preserves(at.live.current, at.live.files, updated.files)
                            /\ Behind(at.live.current, updated)
      <3> SUFFICES ASSUME Found(at.live)
                   PROVE  /\ Preserves(at.live.current, at.live.files, updated.files)
                          /\ Behind(at.live.current, updated)
        OBVIOUS
      <3>1. Preserves(at.live.current, at.live.files, updated.files)
        BY <1>4, <1>5, <2>1, BeyondPreserves DEF Changed
      <3>2. before.current = read
        BY <1>2, <1>4 DEF has
      <3>3. updated.current.file = at.live.current.file => updated.current.end = at.live.current.end
        BY <1>5, <2>1, <3>2 DEF Changed
      <3> QED BY <1>5, <3>1, <3>3 DEF Behind
    <2>4. /\ written0 \in Open /\ written0.live.files = updated.files
          /\ written0.live.current = at.live.current
      BY <1>2, <2>2, <2>3, FilesWritten
    <2> HIDE DEF written0
    <2>5. Append(opened, written0) \in Seq(Good) /\ Append(opened, written0) # <<>>
      BY <1>2, <2>4 DEF Open
    <2>6. CASE stuck
      <3>1. result.steps = Append(opened, written0)
        BY <1>1, <1>8, <2>6
      <3> QED BY <2>5, <3>1 DEF result
    <2>7. CASE ~stuck
      <3>1. InPlace(updated, rows) => Intact(updated)
        BY <2>7
      <3> HIDE DEF stuck
      <3>2. result.steps = last
        BY <1>1, <1>8, <2>7
      <3>3. Partly(written0, updated, rows) \in Seq(Good)
        BY <1>6, <2>2, <2>3, <2>4, <3>1, PartlyGood DEF Found
      <3>4. /\ appended \in Work
            /\ \A c : Behind(c, updated) => Preserves(c, updated.files, appended.files)
        BY <1>6, <2>2, <3>1, HistoryAppended
      <3> HIDE DEF appended
      <3>5. appended.files \in Files /\ appended.current \in Record
        BY <3>4 DEF Work
      <3>6. Found(at.live) => Preserves(at.live.current, at.live.files, appended.files)
        BY <1>5, <2>3, <3>4, PreservesTwice
      <3>7. whole \in Open
        BY <1>2, <3>5, <3>6, FilesWritten
      <3> HIDE DEF whole
      <3>8. Saved(whole, appended.current) \in Seq(Good) /\ <<whole>> \in Seq(Good)
        BY <3>5, <3>7, SavedGood DEF Open
      <3>9. Append(opened, written0) \o Partly(written0, updated, rows) \in Seq(Good)
        BY <2>5, <3>3, Joined
      <3>10. Append(opened, written0) \o Partly(written0, updated, rows) \o <<whole>> \in Seq(Good)
             /\ Len(Append(opened, written0) \o Partly(written0, updated, rows) \o <<whole>>) > 0
        BY <3>8, <3>9, Joined
      <3>11. last \in Seq(Good) /\ Len(last) > 0
        BY <3>8, <3>10, Joined
      <3>12. last # <<>>
        BY <3>11
      <3> QED BY <3>2, <3>11, <3>12 DEF result
    <2> QED BY <2>6, <2>7
  <1> QED BY <1>7, <1>8

\* mark_history_gap: the rows and the version stay.
LEMMA MarksWell ==
    ASSUME NEW k \in Good, Found(k.live)
    PROVE  MarkHistoryGap(k) \in Good
  <1> DEFINE c == [Unjoined(k.live.current) EXCEPT !.synced = FALSE]
             d == [k.live EXCEPT !.current = c]
             w == MarkHistoryGap(k)
  <1>1. k \in Disk /\ Kept(k) /\ k.live \in Directory /\ k.live \in Work /\ k.live.exists
    BY DiskTyped, FoundWork DEF Good
  <1>2. /\ c \in Record /\ c.file = k.live.current.file /\ c.start = k.live.current.start
        /\ c.end = k.live.current.end /\ c.version = k.live.current.version
    BY <1>1 DEF Work, Unjoined, Record, Current
  <1>3. w = [k EXCEPT !.live = d, !.saved = View(d)]
    BY DEF MarkHistoryGap, Commit
  <1> HIDE DEF c, w
  <1>4. d \in Work /\ d.exists /\ d.current = c /\ d.files = k.live.files
    BY <1>1, <1>2, Recorded
  <1> HIDE DEF d
  <1>5. d \in Directory /\ Found(d)
    BY <1>4, WorkFound
  <1>6. View(d) \in [current : Record, history : Seq(Nat)] \cup {None}
    BY <1>4, ContentTyped DEF View, Work
  <1>7. /\ w \in Disk /\ w.live = d /\ w.saved = View(d)
        /\ w.preserved = k.preserved /\ w.transcript = k.transcript
    BY <1>1, <1>3, <1>5, <1>6 DEF Disk
  <1>8. Content(d) = Content(k.live)
    BY <1>2, <1>4 DEF Content
  <1>9. Intact(d) = Intact(k.live) /\ History(d) = History(k.live)
    BY <1>2, <1>4, <1>8 DEF Intact, History
  <1>10. Untouched(k) => Untouched(w)
    BY <1>2, <1>4, <1>5, <1>7, <1>9 DEF Untouched, Seen
  <1>11. Kept(w)
    BY <1>1, <1>5, <1>7, <1>10 DEF Kept, Beside, Seen
  <1> QED BY <1>7, <1>11 DEF Good, w

\* archive: whatever rename was the last, the record is in one of the two
\* places where a reader looks.
LEMMA ArchivesWell ==
    ASSUME NEW k \in Good, k.live.exists
    PROVE  Archive(k) \in Seq(Good) /\ Archive(k) # <<>>
  <1> DEFINE recovered == RecoverArchive(k)
             aside == [recovered EXCEPT !.previous = recovered.archived, !.archived = NoDirectory]
             moved == [aside EXCEPT !.archived = aside.live, !.live = NoDirectory]
             removed == [moved EXCEPT !.previous = NoDirectory]
  <1>1. Archive(k) = <<k, recovered, aside, moved, removed>>
    BY DEF Archive
  <1>2. recovered \in Good /\ recovered.live.exists
    BY Recovers
  <1> HIDE DEF recovered
  <1>3. recovered \in Disk /\ Kept(recovered) /\ recovered.archived \in Directory /\ recovered.live \in Directory
    BY <1>2, DiskTyped DEF Good
  <1>4. /\ aside \in Disk /\ aside.live = recovered.live /\ aside.saved = recovered.saved
        /\ aside.preserved = recovered.preserved /\ aside.transcript = recovered.transcript
    BY <1>3, EmptyTyped DEF Disk
  <1> HIDE DEF aside
  <1>5. /\ moved \in Disk /\ moved.live = NoDirectory /\ moved.archived = aside.live
        /\ moved.saved = recovered.saved /\ moved.preserved = recovered.preserved
        /\ moved.transcript = recovered.transcript
    BY <1>3, <1>4, EmptyTyped DEF Disk
  <1> HIDE DEF moved
  <1>6. /\ removed \in Disk /\ removed.live = NoDirectory /\ removed.archived = aside.live
        /\ removed.saved = recovered.saved /\ removed.preserved = recovered.preserved
        /\ removed.transcript = recovered.transcript
    BY <1>5, EmptyTyped DEF Disk
  <1> HIDE DEF removed
  <1>7. /\ recovered.saved # None => View(recovered.live) = recovered.saved
        /\ Beside(recovered) \/ (Found(recovered.live) /\ Untouched(recovered))
    BY <1>2, <1>3 DEF Kept, Seen
  <1>8. Kept(aside)
    <2>1. Found(recovered.live) => Seen(aside) = recovered.live /\ Seen(recovered) = recovered.live
      BY <1>4 DEF Seen
    <2>2. Found(recovered.live) /\ Untouched(recovered) => Untouched(aside)
      BY <1>4, <2>1 DEF Untouched
    <2> QED BY <1>2, <1>3, <1>4, <1>7, <2>1, <2>2 DEF Kept, Beside
  <1>9. ASSUME NEW w \in {moved, removed} PROVE Kept(w)
    <2>1. /\ w.live = NoDirectory /\ w.archived = recovered.live
          /\ w.saved = recovered.saved /\ w.preserved = recovered.preserved
          /\ w.transcript = recovered.transcript
      BY <1>4, <1>5, <1>6
    <2>2. Seen(w) = recovered.live
      BY <1>2, <2>1, EmptyTyped DEF Seen
    <2>3. Found(recovered.live) /\ Untouched(recovered) => Untouched(w)
      BY <2>1, <2>2 DEF Untouched, Seen
    <2> QED BY <1>7, <2>1, <2>2, <2>3, EmptyTyped DEF Kept, Beside
  <1>10. aside \in Good /\ moved \in Good /\ removed \in Good
    BY <1>4, <1>5, <1>6, <1>8, <1>9 DEF Good
  <1>11. <<k, recovered, aside, moved, removed>> \in Seq(Good)
    BY <1>2, <1>10
  <1>12. <<k, recovered, aside, moved, removed>> # <<>>
    OBVIOUS
  <1> QED BY <1>1, <1>11, <1>12

\* delete_archive: whatever is left of the archive.
LEMMA DeletesWell ==
    ASSUME NEW k \in Good, NEW left \in {NoDirectory} \cup Remaining(k.archived)
    PROVE  [Forget(k) EXCEPT !.archived = left] \in Good
  <1> DEFINE w == [Forget(k) EXCEPT !.archived = left]
  <1>1. k \in Disk /\ Kept(k) /\ k.archived \in Directory /\ k.live \in Directory
    BY DiskTyped DEF Good
  <1>2. left \in Directory
    <2>1. CASE left = NoDirectory
      BY <2>1, EmptyTyped
    <2>2. CASE left \in Remaining(k.archived)
      <3> DEFINE a == k.archived
      <3>1. PICK p \in (SUBSET DOMAIN a.files) \X {a.current, None} :
               left = [a EXCEPT !.files = Restrict(a.files, p[1]), !.current = p[2]]
        BY <2>2 DEF Remaining
      <3>2. p[1] \subseteq DOMAIN a.files /\ p[2] \in {a.current, None}
        OBVIOUS
      <3>3. Restrict(a.files, p[1]) \in Files
        BY <1>1, <3>2, Restricted DEF Directory
      <3> QED BY <1>1, <3>1, <3>2, <3>3 DEF Directory
    <2> QED BY <2>1, <2>2
  <1>3. CASE Found(k.live)
    <2>1. Forget(k) = k
      BY <1>3 DEF Forget
    <2>2. /\ w \in Disk /\ w.live = k.live
          /\ w.saved = k.saved /\ w.preserved = k.preserved /\ w.transcript = k.transcript
      BY <1>1, <1>2, <2>1 DEF Disk
    <2>3. Seen(w) = k.live /\ Seen(k) = k.live
      BY <1>3, <2>2 DEF Seen
    <2>4. Untouched(k) => Untouched(w)
      BY <2>2, <2>3 DEF Untouched
    <2>5. Kept(w)
      BY <1>1, <1>3, <2>2, <2>3, <2>4 DEF Kept, Beside
    <2> QED BY <2>2, <2>5 DEF Good
  <1>4. CASE ~Found(k.live)
    <2> DEFINE f == [k EXCEPT !.saved = None, !.transcript = <<>>]
    <2>1. Forget(k) = f
      BY <1>4 DEF Forget
    <2>2. f \in Disk /\ f.saved = None /\ f.transcript = <<>>
      <3>1. <<>> \in Seq(Nat)
        OBVIOUS
      <3> QED BY <1>1, <3>1 DEF Disk
    <2> HIDE DEF f
    <2>3. w \in Disk /\ w.saved = None /\ w.transcript = <<>>
      BY <1>2, <2>1, <2>2 DEF Disk
    <2>4. Kept(w)
      BY <2>3 DEF Kept, Beside
    <2> QED BY <2>3, <2>4 DEF Good
  <1> QED BY <1>3, <1>4

(***************************************************************************)
(* The writer.                                                              *)
(***************************************************************************)
Write == [event : Event, epoch : Nat]

Recoveries == [epoch : Nat, waiting : BOOLEAN, requested : BOOLEAN]

\* The disk is good, and what is on its way there is well formed.
CacheInv ==
    /\ disk \in Good
    /\ sent \in Nat /\ cleared \in Nat \cup {None} /\ snapshots \in Nat
    /\ snapshot \in [id : Nat, seq : Nat] \cup {None}
    /\ recovery \in Recoveries
    /\ queue \in Seq(Write)
    /\ worker = "persist" => write \in Write

\* The first row of the server's history.
LEMMA RetainedTyped ==
    ASSUME cleared \in Nat \cup {None}, NEW s \in Nat
    PROVE  Base(s) \in Nat /\ Retained(s) \in Nat
  <1>1. Base(s) \in Nat
    BY SessionCacheAssumption DEF Base
  <1> QED BY <1>1, SessionCacheAssumption DEF Retained, Later

\* What enqueue and the worker make of a recovery.
LEMMA RecoveriesTyped ==
    ASSUME NEW r \in Recoveries
    PROVE  /\ Invalidate(r) \in Recoveries /\ Request(r) \in Recoveries
           /\ [r EXCEPT !.requested = FALSE] \in Recoveries
           /\ [r EXCEPT !.waiting = FALSE, !.requested = FALSE] \in Recoveries
  <1>1. r.epoch + 1 \in Nat /\ (r.requested \/ r.waiting) \in BOOLEAN
    BY DEF Recoveries
  <1> QED BY <1>1 DEF Recoveries, Invalidate, Request

\* Events are enqueued as they are, or dropped.
LEMMA Enqueues ==
    ASSUME CacheInv, NEW e \in Event, Enqueue(e)
    PROVE  /\ recovery' \in Recoveries
           /\ queue' \in Seq(Write) /\ disk' = disk /\ UNCHANGED <<worker, write>>
  <1>1. disk' = disk /\ UNCHANGED <<worker, write>>
    BY DEF Enqueue, progress
  <1>2. queue' \in Seq(Write)
    <2>1. queue' = queue \/ queue' = Append(queue, [event |-> e, epoch |-> recovery.epoch])
      BY DEF Enqueue
    <2>2. [event |-> e, epoch |-> recovery.epoch] \in Write
      <3>1. recovery.epoch \in Nat
        BY DEF CacheInv, Recoveries
      <3> QED BY <3>1 DEF Write
    <2>3. queue \in Seq(Write)
      BY DEF CacheInv
    <2> QED BY <2>1, <2>2, <2>3
  <1>3. recovery' \in Recoveries
    <2> DEFINE r == Invalidate(recovery)
    <2>1. recovery \in Recoveries
      BY DEF CacheInv
    <2>2. recovery' \in {recovery, [recovery EXCEPT !.waiting = FALSE, !.requested = FALSE],
                         [r EXCEPT !.requested = FALSE], Request(r)}
      BY DEF Enqueue, Refuse
    <2> QED BY <2>1, <2>2, RecoveriesTyped
  <1> QED BY <1>1, <1>2, <1>3

\* A checkpoint is well formed.
LEMMA CheckpointTyped ==
    ASSUME NEW s \in Nat, cleared \in Nat \cup {None}, snapshots \in Nat, NEW transfer \in BOOLEAN
    PROVE  CheckpointEvent(s, transfer) \in Event
  <1>1. Seed \in Nat
    BY CacheWriterAssumption
  <1>2. Retained(s) \in Nat /\ Base(s) \in Nat
    BY RetainedTyped
  <1>3. (IF transfer /\ s > Seed THEN Later(Retained(s), s - Seed) ELSE Retained(s)) \in Nat
    BY <1>1, <1>2 DEF Later
  <1>4. (IF transfer THEN snapshots + 1 ELSE None) \in Nat \cup {None}
    OBVIOUS
  <1> QED BY <1>2, <1>3, <1>4 DEF CheckpointEvent, Event

\* It is enqueued or dropped like any event.
LEMMA SendsCheckpoint ==
    ASSUME CacheInv, NEW transfer \in BOOLEAN, Checkpoint(transfer)
    PROVE  CacheInv'
  <1>1. PICK s \in sent .. MaxSequence :
          /\ Enqueue(CheckpointEvent(s, transfer))
          /\ sent' = s
          /\ snapshots' = IF transfer THEN snapshots + 1 ELSE snapshots
          /\ snapshot' = IF transfer THEN [id |-> snapshots + 1, seq |-> s] ELSE None
          /\ UNCHANGED <<incidents, cleared>>
    BY DEF Checkpoint
  <1>2. /\ s \in Nat /\ cleared \in Nat \cup {None} /\ snapshots \in Nat
    BY CacheWriterAssumption DEF CacheInv
  <1>3. CheckpointEvent(s, transfer) \in Event
    BY <1>2, CheckpointTyped
  <1>4. /\ recovery' \in Recoveries
        /\ queue' \in Seq(Write) /\ disk' = disk /\ UNCHANGED <<worker, write>>
    BY <1>1, <1>3, Enqueues
  <1>5. disk' \in Good
    BY <1>4 DEF CacheInv
  <1> QED BY <1>1, <1>2, <1>4, <1>5 DEF CacheInv

\* Output, a resize or a history that was transferred.
LEMMA SendsOther ==
    ASSUME CacheInv, SendOutput \/ SendResize \/ SendHistory
    PROVE  CacheInv'
  <1>1. /\ sent \in Nat /\ cleared \in Nat \cup {None} /\ snapshots \in Nat /\ disk \in Good
        /\ snapshot \in [id : Nat, seq : Nat] \cup {None}
        /\ worker = "persist" => write \in Write
    BY DEF CacheInv
  <1>2. ASSUME NEW e \in Event, Enqueue(e), sent' \in Nat, UNCHANGED <<cleared, snapshots>>,
               snapshot' \in {snapshot, None}
        PROVE  CacheInv'
    BY <1>1, <1>2, Enqueues DEF CacheInv
  <1>3. CASE SendOutput
    <2>1. PICK to \in sent + 1 .. MaxSequence :
            /\ Enqueue([kind |-> "output", from |-> sent, to |-> to, clear |-> cleared = sent])
            /\ sent' = to /\ UNCHANGED <<cleared, snapshots, snapshot>>
      BY <1>3 DEF SendOutput
    <2>2. to \in Nat
      BY <1>1
    <2>3. [kind |-> "output", from |-> sent, to |-> to, clear |-> cleared = sent] \in Event
      BY <1>1, <2>2 DEF Event
    <2> QED BY <1>2, <2>1, <2>2, <2>3
  <1>4. CASE SendResize
    <2>1. /\ Enqueue([kind |-> "resize", seq |-> sent])
          /\ UNCHANGED <<sent, cleared, snapshots, snapshot>>
      BY <1>4 DEF SendResize
    <2>2. [kind |-> "resize", seq |-> sent] \in Event
      BY <1>1 DEF Event
    <2> QED BY <1>1, <1>2, <2>1, <2>2
  <1>5. CASE SendHistory
    <2> DEFINE e == [kind |-> "synced", id |-> snapshot.id, from |-> Retained(snapshot.seq),
                     gap |-> Retained(snapshot.seq) > Base(snapshot.seq)]
    <2>1. /\ Enqueue(e) /\ snapshot # None /\ snapshot' = None
          /\ UNCHANGED <<sent, cleared, snapshots>>
      BY <1>5 DEF SendHistory
    <2>2. snapshot.id \in Nat /\ snapshot.seq \in Nat
      BY <1>1, <2>1
    <2>3. Retained(snapshot.seq) \in Nat
      BY <1>1, <2>2, RetainedTyped
    <2>4. e \in Event
      BY <2>2, <2>3 DEF Event
    <2> HIDE DEF e
    <2> QED BY <1>1, <1>2, <2>1, <2>4
  <1> QED BY <1>3, <1>4, <1>5

\* A step of apply, the last or not.
LEMMA AppliedStep ==
    ASSUME CacheInv, worker = "persist",
           Perform(Apply(disk, write.event).steps) \/ Interrupt(Apply(disk, write.event).steps)
    PROVE  disk' \in Good
  <1> DEFINE steps == Apply(disk, write.event).steps
  <1>1. write.event \in Event /\ disk \in Good
    BY DEF CacheInv, Write
  <1>2. steps \in Seq(Good) /\ steps # <<>>
    BY <1>1, AppliesWell
  <1>3. Perform(steps) \/ Interrupt(steps)
    OBVIOUS
  <1> HIDE DEF steps
  <1>4. \A i \in 1 .. Len(steps) : steps[i] \in Good
    BY <1>2
  <1>5. Len(steps) \in Nat /\ Len(steps) # 0
    BY <1>2
  <1>6. CASE Perform(steps)
    BY <1>4, <1>5, <1>6 DEF Perform, Last
  <1>7. CASE Interrupt(steps)
    BY <1>4, <1>5, <1>7 DEF Interrupt
  <1> QED BY <1>3, <1>6, <1>7

\* The worker and the store.
LEMMA WorkerStep ==
    ASSUME CacheInv, Receive \/ Persist \/ Release \/ Settle \/ Mark \/ End
    PROVE  CacheInv'
  <1>1. /\ sent \in Nat /\ cleared \in Nat \cup {None} /\ snapshots \in Nat /\ disk \in Good
        /\ snapshot \in [id : Nat, seq : Nat] \cup {None} /\ recovery \in Recoveries
        /\ queue \in Seq(Write)
    BY DEF CacheInv
  <1>2. UNCHANGED <<sent, cleared, snapshots, snapshot>>
    BY DEF Receive, Persist, Release, Settle, Mark, End, streamVars
  <1>3. CASE Receive
    <2>1. /\ queue # <<>> /\ queue' = Tail(queue) /\ write' = Head(queue)
          /\ UNCHANGED <<disk, recovery>>
      BY <1>3 DEF Receive, storeVars
    <2>2. queue' \in Seq(Write) /\ write' \in Write
      BY <1>1, <2>1
    <2> QED BY <1>1, <1>2, <2>1, <2>2 DEF CacheInv
  <1>4. CASE Persist
    <2>1. /\ worker = "persist" /\ worker' = "release" /\ queue' = queue
          /\ \/ Perform(Apply(disk, write.event).steps)
             \/ Interrupt(Apply(disk, write.event).steps)
          /\ recovery' \in {recovery, Invalidate(recovery)}
      BY <1>4 DEF Persist, Persisted
    <2>2. disk' \in Good
      BY <2>1, AppliedStep
    <2>3. recovery' \in Recoveries
      BY <1>1, <2>1, RecoveriesTyped
    <2> QED BY <1>1, <1>2, <2>1, <2>2, <2>3 DEF CacheInv
  <1>5. CASE Release
    BY <1>1, <1>2, <1>5 DEF Release, CacheInv, storeVars
  <1>6. CASE Settle
    <2>1. recovery' \in Recoveries
      BY <1>1, <1>6, RecoveriesTyped DEF Settle
    <2>2. worker' # "persist" /\ UNCHANGED <<disk, queue>>
      BY <1>6 DEF Settle, storeVars
    <2> QED BY <1>1, <1>2, <2>1, <2>2 DEF CacheInv
  <1>7. CASE Mark
    <2>1. disk' \in Good
      <3>1. \/ Found(disk.live) /\ disk' = MarkHistoryGap(disk)
            \/ disk' = disk
        BY <1>7 DEF Mark, storeVars
      <3> QED BY <1>1, <3>1, MarksWell
    <2>2. worker' # "persist" /\ UNCHANGED <<recovery, queue>>
      BY <1>7 DEF Mark
    <2> QED BY <1>1, <1>2, <2>1, <2>2 DEF CacheInv
  <1>8. CASE End
    BY <1>1, <1>2, <1>8 DEF End, CacheInv, storeVars
  <1> QED BY <1>3, <1>4, <1>5, <1>6, <1>7, <1>8

\* Attachments that end and begin, and the death of the application.
LEMMA AttachmentStep ==
    ASSUME CacheInv, Close \/ Reattach \/ Kill
    PROVE  CacheInv'
  <1>1. /\ sent \in Nat /\ cleared \in Nat \cup {None} /\ snapshots \in Nat /\ disk \in Good
        /\ snapshot \in [id : Nat, seq : Nat] \cup {None} /\ recovery \in Recoveries
        /\ queue \in Seq(Write) /\ (worker = "persist" => write \in Write)
    BY DEF CacheInv
  <1>2. CASE Close
    BY <1>1, <1>2 DEF Close, CacheInv, streamVars, progress
  <1>3. ASSUME NewWriter
        PROVE  queue' \in Seq(Write) /\ recovery' \in Recoveries /\ worker' # "persist"
    BY <1>3 DEF NewWriter, Recoveries
  <1>4. CASE Reattach
    <2>1. /\ NewWriter /\ snapshot' = None /\ UNCHANGED <<disk, cleared, snapshots>>
          /\ sent' = sent \/ sent' \in 0 .. sent
      BY <1>4 DEF Reattach, storeVars
    <2> QED BY <1>1, <1>3, <2>1 DEF CacheInv
  <1>5. CASE Kill
    <2>1. /\ NewWriter /\ snapshot' = None /\ UNCHANGED <<sent, cleared, snapshots>>
          /\ \/ disk' = disk
             \/ worker = "persist" /\ Interrupt(Apply(disk, write.event).steps)
      BY <1>5 DEF Kill
    <2>2. disk' \in Good
      BY <1>1, <2>1, AppliedStep
    <2> QED BY <1>1, <1>3, <2>1, <2>2 DEF CacheInv
  <1> QED BY <1>2, <1>4, <1>5

\* Readers, the archive and its removal.
LEMMA StoreSteps ==
    ASSUME CacheInv, StoreNext
    PROVE  CacheInv'
  <1>1. /\ disk \in Good /\ StoreStep
        /\ UNCHANGED <<sent, cleared, snapshots, snapshot, recovery, queue, worker, write>>
    BY DEF CacheInv, StoreNext, streamVars, writerVars, progress
  <1>2. disk' \in Good
    <2>1. CASE Load
      BY <1>1, <2>1, Recovers DEF Load
    <2>2. CASE ArchiveSession
      <3> DEFINE steps == Archive(disk)
      <3>1. steps \in Seq(Good) /\ steps # <<>>
        BY <1>1, <2>2, ArchivesWell DEF ArchiveSession
      <3>2. Perform(steps) \/ Interrupt(steps)
        BY <2>2 DEF ArchiveSession
      <3> HIDE DEF steps
      <3>3. \A i \in 1 .. Len(steps) : steps[i] \in Good
        BY <3>1
      <3>4. Len(steps) \in Nat /\ Len(steps) # 0
        BY <3>1
      <3>5. CASE Perform(steps)
        BY <3>3, <3>4, <3>5 DEF Perform, Last
      <3>6. CASE Interrupt(steps)
        BY <3>3, <3>4, <3>6 DEF Interrupt
      <3> QED BY <3>2, <3>5, <3>6
    <2>3. CASE DeleteArchive
      <3> DEFINE recovered == RecoverArchive(disk)
      <3>1. PICK left \in {NoDirectory} \cup Remaining(recovered.archived) :
              disk' = [Forget(recovered) EXCEPT !.archived = left]
        BY <2>3 DEF DeleteArchive
      <3>2. recovered \in Good
        BY <1>1, Recovers
      <3> HIDE DEF recovered
      <3> QED BY <3>1, <3>2, DeletesWell
    <2> QED BY <1>1, <2>1, <2>2, <2>3 DEF StoreStep
  <1> QED BY <1>1, <1>2 DEF CacheInv

\* Every step keeps the disk good.
LEMMA CacheStep == CacheInv /\ [Next]_cacheVars => CacheInv'
  <1> SUFFICES ASSUME CacheInv, [Next]_cacheVars PROVE CacheInv'
    OBVIOUS
  <1>1. CASE InitialCheckpoint \/ AnswerCheckpoint \/ SendCheckpoint
    BY <1>1, SendsCheckpoint DEF InitialCheckpoint, AnswerCheckpoint, SendCheckpoint
  <1>2. CASE SendOutput \/ SendResize \/ SendHistory
    BY <1>2, SendsOther
  <1>3. CASE Receive \/ Persist \/ Release \/ Settle \/ Mark \/ End
    BY <1>3, WorkerStep
  <1>4. CASE Close \/ Reattach \/ Kill
    BY <1>4, AttachmentStep
  <1>5. CASE StoreNext
    BY <1>5, StoreSteps
  <1>6. CASE UNCHANGED cacheVars
    <2>1. UNCHANGED <<disk, sent, cleared, snapshots, snapshot, recovery, queue, worker, write>>
      BY <1>6 DEF cacheVars, storeVars, streamVars, writerVars, progress
    <2> QED BY <2>1 DEF CacheInv
  <1> QED BY <1>1, <1>2, <1>3, <1>4, <1>5, <1>6 DEF Next

(***************************************************************************)
(* The initial disks, and the theorems.                                     *)
(***************************************************************************)
\* A directory with one file that its record shows as a whole.
LEMMA OneFile ==
    ASSUME NEW n \in Nat, NEW f \in Nat, NEW c \in Record, c.file = f, c.start = 0, c.end = n,
           NEW d, d = [exists |-> TRUE, files |-> WriteFile(<<>>, f, Rows(0, n)), current |-> c]
    PROVE  /\ d \in Work /\ d \in Directory /\ d.exists /\ Found(d) /\ Intact(d)
           /\ History(d) = Rows(0, n)
           /\ View(d) \in [current : Record, history : Seq(Nat)]
  <1>1. Rows(0, n) \in Seq(Nat) /\ Len(Rows(0, n)) = n
    <2>1. Rows(0, n) \in Seq(Nat)
      BY RowsTyped
    <2>2. DOMAIN Rows(0, n) = 1 .. n
      BY DEF Rows
    <2> QED BY <2>1, <2>2
  <1> DEFINE F == WriteFile(<<>>, f, Rows(0, n))
  <1>2. F \in Files /\ f \in DOMAIN F /\ F[f] = Rows(0, n)
    <2> DEFINE none == <<>>
    <2>1. none \in Files
      BY NoFiles
    <2> HIDE DEF none
    <2>2. HasWritten(none, f, Rows(0, n), WriteFile(none, f, Rows(0, n)))
      BY <1>1, <2>1, Written
    <2> QED BY <2>2 DEF HasWritten, none
  <1> HIDE DEF F
  <1>3. d.files = F /\ d.current = c /\ d.exists /\ d \in Work
    BY <1>2 DEF F, Work
  <1>4. Content(d) = Rows(0, n)
    BY <1>2, <1>3 DEF Content
  <1>5. Intact(d)
    BY <1>1, <1>3, <1>4 DEF Intact
  <1>6. History(d) = Rows(0, n)
    <2>1. History(d) = SubSeq(Rows(0, n), 1, n)
      BY <1>3, <1>4 DEF History
    <2>2. SubSeq(Rows(0, n), 1, n) = Rows(0, n)
      <3> DEFINE s == Rows(0, n)
      <3>1. s \in Seq(Nat) /\ Len(s) = n
        BY <1>1
      <3> HIDE DEF s
      <3>2. SubSeq(s, 1, n) = s
        BY <3>1
      <3> QED BY <3>2 DEF s
    <2> QED BY <2>1, <2>2
  <1>7. d \in Directory /\ Found(d)
    BY <1>3, WorkFound
  <1>8. View(d) = [current |-> c, history |-> Rows(0, n)]
    BY <1>3, <1>5, <1>6, <1>7 DEF View
  <1> QED BY <1>1, <1>3, <1>5, <1>6, <1>7, <1>8

\* There is nothing, a legacy transcript or an archive.
LEMMA InitialDisks ==
    ASSUME NEW n \in Nat
    PROVE  /\ EmptyDisk \in Good
           /\ [EmptyDisk EXCEPT !.live = LegacyDirectory(n), !.saved = View(LegacyDirectory(n)),
                                !.transcript = Rows(0, n)] \in Good
           /\ [EmptyDisk EXCEPT !.archived = ArchivedDirectory(n),
                                !.saved = View(ArchivedDirectory(n))] \in Good
  <1>1. /\ NoDirectory \in Directory /\ ~Found(NoDirectory) /\ ~NoDirectory.exists
        /\ <<>> \in Seq(Nat) /\ Rows(0, n) \in Seq(Nat)
    BY EmptyTyped, RowsTyped
  <1>2. EmptyDisk \in Good
    <2>1. EmptyDisk \in Disk
      BY <1>1 DEF EmptyDisk, Disk
    <2>2. Kept(EmptyDisk)
      BY <1>1 DEF EmptyDisk, Kept, Beside
    <2> QED BY <2>1, <2>2 DEF Good
  <1>3. [EmptyDisk EXCEPT !.live = LegacyDirectory(n), !.saved = View(LegacyDirectory(n)),
                          !.transcript = Rows(0, n)] \in Good
    <2> DEFINE d == LegacyDirectory(n)
               c == [NewCurrent EXCEPT !.version = 1, !.seq = n, !.file = LegacyFile, !.end = n]
               k == [EmptyDisk EXCEPT !.live = d, !.saved = View(d), !.transcript = Rows(0, n)]
    <2>1. c \in Record /\ c.file = LegacyFile /\ c.start = 0 /\ c.end = n /\ c.version = 1
      BY DEF NewCurrent, LegacyFile, Record, Current
    <2>2. d = [exists |-> TRUE, files |-> WriteFile(<<>>, LegacyFile, Rows(0, n)), current |-> c]
      BY DEF LegacyDirectory
    <2>3. d.current = c
      BY <2>2
    <2> HIDE DEF d, c
    <2>4. /\ d \in Directory /\ Found(d) /\ Intact(d) /\ History(d) = Rows(0, n)
          /\ View(d) \in [current : Record, history : Seq(Nat)]
      BY <2>1, <2>2, OneFile DEF LegacyFile
    <2>5. k.live = d /\ k.preserved = None /\ k.saved = View(d) /\ k.transcript = Rows(0, n)
      BY DEF EmptyDisk
    <2>6. k \in Disk
      BY <1>1, <1>2, <2>4 DEF Good, Disk
    <2>7. Seen(k) = d
      BY <2>4, <2>5 DEF Seen
    <2>8. Untouched(k)
      BY <2>1, <2>3, <2>4, <2>5, <2>7 DEF Untouched
    <2>9. Kept(k)
      BY <2>4, <2>5, <2>7, <2>8 DEF Kept
    <2> QED BY <2>6, <2>9 DEF Good, d
  <1>4. [EmptyDisk EXCEPT !.archived = ArchivedDirectory(n),
                          !.saved = View(ArchivedDirectory(n))] \in Good
    <2> DEFINE d == ArchivedDirectory(n)
               c == [NewCurrent EXCEPT !.seq = n, !.file = 1, !.end = n, !.synced = TRUE]
               k == [EmptyDisk EXCEPT !.archived = d, !.saved = View(d)]
    <2>1. c \in Record /\ c.file = 1 /\ c.start = 0 /\ c.end = n
      BY DEF NewCurrent, Record, Current
    <2>2. d = [exists |-> TRUE, files |-> WriteFile(<<>>, 1, Rows(0, n)), current |-> c]
      BY DEF ArchivedDirectory
    <2> HIDE DEF d, c
    <2>3. /\ d \in Directory /\ d.exists
          /\ View(d) \in [current : Record, history : Seq(Nat)]
      BY <2>1, <2>2, OneFile
    <2>4. k.live = NoDirectory /\ k.archived = d /\ k.saved = View(d) /\ k.transcript = <<>>
      BY DEF EmptyDisk
    <2>5. k \in Disk
      BY <1>1, <1>2, <2>3 DEF Good, Disk
    <2>6. Seen(k) = d
      BY <1>1, <2>3, <2>4 DEF Seen
    <2>7. Kept(k)
      BY <1>1, <2>4, <2>6 DEF Kept, Beside
    <2> QED BY <2>5, <2>7 DEF Good, d
  <1> QED BY <1>2, <1>3, <1>4

\* The invariant holds initially.
LEMMA CacheInit == Init => CacheInv
  <1> SUFFICES ASSUME Init PROVE CacheInv
    OBVIOUS
  <1>1. MaxTranscript \in Nat /\ ClearAt \subseteq Nat
    BY CacheWriterAssumption
  <1>2. disk \in Good
    <2>1. disk \in {EmptyDisk,
                    [EmptyDisk EXCEPT !.live = LegacyDirectory(MaxTranscript),
                                      !.saved = View(LegacyDirectory(MaxTranscript)),
                                      !.transcript = Rows(0, MaxTranscript)],
                    [EmptyDisk EXCEPT !.archived = ArchivedDirectory(MaxTranscript),
                                      !.saved = View(ArchivedDirectory(MaxTranscript))]}
      BY DEF Init
    <2> QED BY <1>1, <2>1, InitialDisks
  <1>3. sent \in {0, MaxTranscript}
    BY DEF Init
  <1>4. /\ cleared \in Nat \cup {None} /\ snapshots \in Nat /\ snapshot = None
        /\ queue \in Seq(Write) /\ worker # "persist"
    BY <1>1 DEF Init
  <1>5. recovery \in Recoveries
    BY DEF Init, Recoveries
  <1> QED BY <1>1, <1>2, <1>3, <1>4, <1>5 DEF CacheInv

\* Every reachable disk keeps what was committed last: after every single file
\* operation of apply, mark_history_gap, archive, delete_archive and
\* recover_archive, and so wherever the application is killed or a file
\* operation fails between two of them.
THEOREM CacheInvariant == Spec => []CacheInv
  BY CacheInit, CacheStep, PTL DEF Spec

\* What was committed to the cache stays readable with its whole history, and a
\* legacy transcript is still the record or preserved beside it, for every
\* limit of the history, of the replay and of the queue, and for every number of
\* failures: atomic_json commits a record after the data that it names, and
\* cleanup_data_files, preserve_legacy and archive only remove what no record
\* of a reader names.
THEOREM CommittedReadable == Spec => []Durable
  <1>1. CacheInv => Durable
    <2> SUFFICES ASSUME CacheInv PROVE Durable
      OBVIOUS
    <2>1. Visible = Seen(disk)
      BY DEF Visible, Seen
    <2>2. Kept(disk)
      BY DEF CacheInv, Good
    <2>3. disk.saved # None => View(Visible) = disk.saved
      BY <2>1, <2>2 DEF Kept
    <2>4. Beside(disk) \/ (Visible.current.version = 1 /\ History(Visible) = disk.transcript)
      BY <2>1, <2>2 DEF Kept, Untouched
    <2> QED BY <2>3, <2>4 DEF Durable, Beside
  <1> QED BY <1>1, CacheInvariant, PTL

(***************************************************************************)
(* History is not stitched together wrongly.                                *)
(***************************************************************************)
\* The first row of the server's history at s, if byte x clears it; Base(s) is
\* BaseAt(cleared, s).
BaseAt(x, s) == IF x # None /\ s > x THEN x + 1 ELSE 0

\* The rows h are a run without hole or repetition that ends before row s.
EndsAt(h, s) == \A i \in 1 .. Len(h) : h[i] + Len(h) + 1 = s + i

\* The number of the newest n rows of some, and what they are.
LEMMA NewestIs ==
    ASSUME NEW s \in Seq(Nat), NEW n \in Nat
    PROVE  /\ Newest(s, n) \in Seq(Nat)
           /\ Len(Newest(s, n)) = IF Len(s) > n THEN n ELSE Len(s)
           /\ \A i \in 1 .. Len(Newest(s, n)) :
                Newest(s, n)[i] = s[i + (Len(s) - Len(Newest(s, n)))]
  <1>1. CASE Len(s) > n
    <2>1. Newest(s, n) = SubSeq(s, Len(s) - n + 1, Len(s))
      BY <1>1 DEF Newest
    <2> DEFINE t == Newest(s, n)
               l == Len(s)
    <2>2. l \in Nat /\ l - n + 1 \in 1 .. l + 1 /\ l - (l - n + 1) + 1 = n
      BY <1>1
    <2>3. t \in Seq(Nat) /\ Len(t) = n
      BY <1>1, <2>1, <2>2
    <2>4. ASSUME NEW i \in 1 .. n PROVE t[i] = s[i + (l - n)]
      <3>1. t[i] = s[(l - n + 1) + i - 1]
        BY <2>1, <2>2
      <3>2. (l - n + 1) + i - 1 = i + (l - n)
        BY <2>2
      <3> QED BY <3>1, <3>2
    <2> HIDE DEF t
    <2>5. \A i \in 1 .. Len(t) : t[i] = s[i + (l - Len(t))]
      BY <2>3, <2>4
    <2> QED BY <1>1, <2>3, <2>5 DEF t
  <1>2. CASE ~(Len(s) > n)
    BY <1>2 DEF Newest
  <1> QED BY <1>1, <1>2

\* Two places moved on together.
LEMMA ShiftedBoth ==
    ASSUME NEW v \in Nat, NEW a \in Nat, NEW b \in Nat, NEW p \in Nat, NEW i \in Nat, v + a + 1 = p + i
    PROVE  v + (a + b) + 1 = (p + b) + i
  OBVIOUS

\* A place counted from another one.
LEMMA Shifted ==
    ASSUME NEW v \in Nat, NEW a \in Nat, NEW b \in Nat, NEW p \in Nat, NEW i \in Nat, NEW j \in Nat,
           v + b + 1 = p + j, a + j = i + b
    PROVE  v + a + 1 = p + i
  OBVIOUS

\* The newest of a run are a run.
LEMMA NewestEnds ==
    ASSUME NEW s \in Seq(Nat), NEW n \in Nat, NEW p \in Nat, EndsAt(s, p)
    PROVE  EndsAt(Newest(s, n), p)
  <1> DEFINE t == Newest(s, n)
  <1>1. /\ t \in Seq(Nat) /\ Len(t) = IF Len(s) > n THEN n ELSE Len(s)
        /\ \A i \in 1 .. Len(t) : t[i] = s[i + (Len(s) - Len(t))]
    BY NewestIs
  <1> HIDE DEF t
  <1>2. Len(s) \in Nat /\ Len(t) \in Nat /\ Len(t) <= Len(s)
    BY <1>1
  <1> SUFFICES ASSUME NEW i \in 1 .. Len(t) PROVE t[i] + Len(t) + 1 = p + i
    BY DEF EndsAt, t
  <1> DEFINE j == i + (Len(s) - Len(t))
             v == s[j]
  <1>3. j \in 1 .. Len(s) /\ v \in Nat
    BY <1>2
  <1>4. v + Len(s) + 1 = p + j
    BY <1>3 DEF EndsAt
  <1>5. t[i] = v
    BY <1>1
  <1>6. Len(t) + j = i + Len(s) /\ i \in Nat /\ j \in Nat
    BY <1>2
  <1> HIDE DEF j, v
  <1>7. v + Len(t) + 1 = p + i
    BY <1>2, <1>3, <1>4, <1>6, Shifted
  <1> QED BY <1>5, <1>7

\* Rows are a run.
LEMMA RowsEnd ==
    ASSUME NEW a \in Nat, NEW b \in Nat, a <= b
    PROVE  Rows(a, b) \in Seq(Nat) /\ Len(Rows(a, b)) = b - a /\ EndsAt(Rows(a, b), b)
  <1>1. Rows(a, b) \in Seq(Nat)
    BY RowsTyped
  <1>2. DOMAIN Rows(a, b) = 1 .. b - a /\ \A i \in 1 .. b - a : Rows(a, b)[i] = a + i - 1
    BY DEF Rows
  <1>3. Len(Rows(a, b)) = b - a
    <2>1. b - a \in Nat
      OBVIOUS
    <2> QED BY <1>1, <1>2, <2>1
  <1>4. EndsAt(Rows(a, b), b)
    BY <1>2, <1>3 DEF EndsAt
  <1> QED BY <1>1, <1>3, <1>4

\* No rows.
LEMMA NoRows ==
    ASSUME NEW a \in Nat
    PROVE  Rows(a, a) = <<>> /\ EndsAt(<<>>, a)
  <1>1. Rows(a, a) \in Seq(Nat) /\ Len(Rows(a, a)) = 0
    <2>1. a <= a
      OBVIOUS
    <2> QED BY <2>1, RowsEnd
  <1>2. Rows(a, a) = <<>>
    BY <1>1
  <1> QED BY <1>2 DEF EndsAt

\* Rows behind a run make it a longer one.
LEMMA RunLonger ==
    ASSUME NEW h \in Seq(Nat), NEW r \in Seq(Nat), NEW p \in Nat, EndsAt(h, p), NEW q \in Nat,
           EndsAt(r, q), q = p + Len(r)
    PROVE  EndsAt(h \o r, q)
  <1> DEFINE both == h \o r
             a == Len(h)
             b == Len(r)
             k == Len(both)
  <1>1. /\ both \in Seq(Nat) /\ k = a + b /\ a \in Nat /\ b \in Nat
        /\ \A i \in 1 .. a : both[i] = h[i]
        /\ \A i \in 1 .. b : both[i + a] = r[i]
    OBVIOUS
  <1>2. \A i \in 1 .. a : h[i] \in Nat /\ h[i] + a + 1 = p + i
    BY DEF EndsAt
  <1>3. \A i \in 1 .. b : r[i] \in Nat /\ r[i] + b + 1 = q + i
    BY DEF EndsAt
  <1>4. q = p + b
    OBVIOUS
  <1> HIDE DEF both, a, b, k
  <1>5. ASSUME NEW i \in 1 .. k PROVE both[i] + k + 1 = q + i
    <2>1. CASE i <= a
      <3> DEFINE v == h[i]
      <3>1. v + a + 1 = p + i /\ v \in Nat /\ both[i] = v
        BY <1>1, <1>2, <2>1
      <3> HIDE DEF v
      <3>2. i \in Nat
        BY <1>1
      <3>3. k \in Nat /\ k = a + b /\ a \in Nat /\ b \in Nat
        BY <1>1
      <3>4. v + (a + b) + 1 = (p + b) + i
        BY <3>1, <3>2, <3>3, ShiftedBoth
      <3> QED BY <1>4, <3>1, <3>3, <3>4
    <2>2. CASE i > a
      <3> DEFINE j == i - a
                 v == r[j]
      <3>1. j \in 1 .. b /\ i = j + a
        BY <1>1, <2>2
      <3>2. v + b + 1 = q + j /\ v \in Nat
        BY <1>1, <1>3, <3>1
      <3>6. both[i] = v
        BY <1>1, <3>1
      <3> HIDE DEF j, v
      <3>3. k \in Nat /\ k = a + b /\ a \in Nat /\ b \in Nat
        BY <1>1
      <3>4. j \in Nat /\ i \in Nat /\ k + j = i + b
        BY <3>1, <3>3
      <3>5. v + k + 1 = q + i
        BY <3>2, <3>3, <3>4, Shifted
      <3> QED BY <3>5, <3>6
    <2> QED BY <1>1, <2>1, <2>2
  <1> QED BY <1>5 DEF EndsAt, both, k

\* Rows behind a run make it a longer one, of which the newest are kept.
LEMMA RunContinues ==
    ASSUME NEW h \in Seq(Nat), NEW r \in Seq(Nat), NEW p \in Nat, NEW n \in Nat, NEW limit \in Nat,
           EndsAt(h, p), EndsAt(r, p + n), Len(r) = n \/ Len(r) = limit
    PROVE  EndsAt(Newest(h \o r, limit), p + n)
  <1>1. /\ h \o r \in Seq(Nat) /\ Len(h \o r) = Len(h) + Len(r) /\ Len(h) \in Nat /\ Len(r) \in Nat
        /\ \A i \in 1 .. Len(r) : (h \o r)[i + Len(h)] = r[i]
    OBVIOUS
  <1> DEFINE both == h \o r
             t == Newest(both, limit)
  <1>2. CASE Len(r) = n
    <2>1. p + n \in Nat
      OBVIOUS
    <2>2. EndsAt(both, p + n)
      BY <1>2, <2>1, RunLonger
    <2>3. both \in Seq(Nat)
      BY <1>1
    <2> HIDE DEF both
    <2>4. EndsAt(Newest(both, limit), p + n)
      BY <2>1, <2>2, <2>3, NewestEnds
    <2> QED BY <2>4 DEF both
  <1>3. CASE Len(r) = limit
    <2>1. /\ t \in Seq(Nat) /\ Len(t) = limit
          /\ \A i \in 1 .. Len(t) : t[i] = both[i + (Len(both) - Len(t))]
      <3>1. /\ t \in Seq(Nat) /\ Len(t) = IF Len(both) > limit THEN limit ELSE Len(both)
            /\ \A i \in 1 .. Len(t) : t[i] = both[i + (Len(both) - Len(t))]
        BY <1>1, NewestIs
      <3>2. Len(both) = Len(h) + limit /\ Len(h) \in Nat
        BY <1>1, <1>3
      <3> DEFINE l == Len(both)
                 g == Len(h)
                 f == Len(t)
      <3>3. f = (IF l > limit THEN limit ELSE l) /\ l = g + limit /\ g \in Nat
        BY <3>1, <3>2
      <3> HIDE DEF t, both, l, g, f
      <3>4. f = limit
        BY <3>3
      <3> QED BY <3>1, <3>4 DEF f
    <2>2. Len(both) - Len(t) = Len(h)
      BY <1>1, <1>3, <2>1
    <2>3. ASSUME NEW i \in 1 .. Len(t) PROVE t[i] = r[i]
      <3>1. i \in 1 .. Len(r)
        BY <1>3, <2>1
      <3> QED BY <1>1, <2>1, <2>2, <3>1
    <2> HIDE DEF t
    <2> QED BY <1>3, <2>1, <2>3 DEF EndsAt, t
  <1> QED BY <1>2, <1>3

\* Two sequences that agree everywhere.
LEMMA SameRows ==
    ASSUME NEW s \in Seq(Nat), NEW t \in Seq(Nat), Len(s) = Len(t),
           \A i \in 1 .. Len(s) : s[i] = t[i]
    PROVE  s = t
  OBVIOUS

\* A part of some rows, one by one.
LEMMA PartIs ==
    ASSUME NEW s \in Seq(Nat), NEW m \in Nat, NEW n \in Nat, m <= n, n <= Len(s)
    PROVE  /\ SubSeq(s, m + 1, n) \in Seq(Nat) /\ Len(SubSeq(s, m + 1, n)) = n - m
           /\ \A i \in 1 .. n - m : SubSeq(s, m + 1, n)[i] = s[m + i]
  <1>1. SubSeq(s, m + 1, n) \in Seq(Nat) /\ Len(SubSeq(s, m + 1, n)) = n - m
    OBVIOUS
  <1>2. \A i \in 1 .. n - m : SubSeq(s, m + 1, n)[i] = s[m + i]
    OBVIOUS
  <1> QED BY <1>1, <1>2

\* Rows behind others, one by one.
LEMMA BothAre ==
    ASSUME NEW s \in Seq(Nat), NEW t \in Seq(Nat)
    PROVE  /\ s \o t \in Seq(Nat) /\ Len(s \o t) = Len(s) + Len(t)
           /\ \A i \in 1 .. Len(s) : (s \o t)[i] = s[i]
           /\ \A i \in 1 .. Len(t) : (s \o t)[Len(s) + i] = t[i]
  OBVIOUS

\* The window of a file that was appended to behind n.
LEMMA WindowLonger ==
    ASSUME NEW s \in Seq(Nat), NEW m \in Nat, NEW n \in Nat, m <= n, n <= Len(s), NEW rows \in Seq(Nat)
    PROVE  SubSeq(SubSeq(s, 1, n) \o rows, m + 1, n + Len(rows)) = SubSeq(s, m + 1, n) \o rows
  <1> DEFINE head == SubSeq(s, 1, n)
             all == head \o rows
             k == Len(rows)
             left == SubSeq(all, m + 1, n + k)
             part == SubSeq(s, m + 1, n)
             right == part \o rows
  <1>1. k \in Nat /\ n + k \in Nat /\ m <= n + k
    OBVIOUS
  <1>2. head \in Seq(Nat) /\ Len(head) = n /\ \A i \in 1 .. n : head[i] = s[i]
    OBVIOUS
  <1>3. part \in Seq(Nat) /\ Len(part) = n - m /\ \A i \in 1 .. n - m : part[i] = s[m + i]
    BY PartIs
  <1> HIDE DEF head, part
  <1>4. /\ all \in Seq(Nat) /\ Len(all) = n + k
        /\ \A i \in 1 .. n : all[i] = s[i]
        /\ \A i \in 1 .. k : all[n + i] = rows[i]
    <2>1. /\ all \in Seq(Nat) /\ Len(all) = Len(head) + k
          /\ \A i \in 1 .. Len(head) : all[i] = head[i]
          /\ \A i \in 1 .. k : all[Len(head) + i] = rows[i]
      BY <1>2, BothAre
    <2> HIDE DEF all, k
    <2> QED BY <1>2, <2>1
  <1>5. /\ right \in Seq(Nat) /\ Len(right) = (n - m) + k
        /\ \A i \in 1 .. n - m : right[i] = s[m + i]
        /\ \A i \in 1 .. k : right[(n - m) + i] = rows[i]
    <2>1. /\ right \in Seq(Nat) /\ Len(right) = Len(part) + k
          /\ \A i \in 1 .. Len(part) : right[i] = part[i]
          /\ \A i \in 1 .. k : right[Len(part) + i] = rows[i]
      BY <1>3, BothAre
    <2> HIDE DEF right, k
    <2> QED BY <1>3, <2>1
  <1> HIDE DEF all, k
  <1>6. /\ left \in Seq(Nat) /\ Len(left) = (n + k) - m
        /\ \A i \in 1 .. (n + k) - m : left[i] = all[m + i]
    BY <1>1, <1>4, PartIs
  <1> HIDE DEF left, right
  <1>7. ASSUME NEW i \in 1 .. Len(left) PROVE left[i] = right[i]
    <2>1. i \in Nat /\ i \in 1 .. (n + k) - m /\ left[i] = all[m + i]
      BY <1>1, <1>6
    <2>2. CASE i <= n - m
      <3>1. i \in 1 .. n - m /\ m + i \in 1 .. n
        BY <2>1, <2>2
      <3> QED BY <1>4, <1>5, <2>1, <3>1
    <2>3. CASE i > n - m
      <3> DEFINE j == i - (n - m)
      <3>1. j \in 1 .. k /\ m + i = n + j /\ i = (n - m) + j
        BY <1>1, <2>1, <2>3
      <3> HIDE DEF j
      <3>2. all[m + i] = rows[j] /\ right[i] = rows[j]
        BY <1>4, <1>5, <3>1
      <3> QED BY <2>1, <3>2
    <2>4. i <= n - m \/ i > n - m
      BY <2>1
    <2> QED BY <2>2, <2>3, <2>4
  <1>8. Len(left) = Len(right)
    BY <1>1, <1>5, <1>6
  <1> QED BY <1>5, <1>6, <1>7, <1>8, SameRows DEF left, right, all, head, part, k

\* The rows m + 1 .. n of a file.
Window(s, m, n) == SubSeq(s, m + 1, n)

\* The window m + 1 .. n moves on to start + 1 .. n, which are at most limit rows.
Advanced(m, n, limit, start) ==
    /\ m <= start /\ start <= n
    /\ n - m > limit => n - start = limit
    /\ n - m <= limit => start = m

\* The window of a file that moves on shows the newest rows.
LEMMA WindowMoved ==
    ASSUME NEW s \in Seq(Nat), NEW m \in Nat, NEW n \in Nat, NEW limit \in Nat, NEW start \in Nat,
           n <= Len(s), Advanced(m, n, limit, start)
    PROVE  Window(s, start, n) = Newest(Window(s, m, n), limit)
  <1> DEFINE part == Window(s, m, n)
             left == Window(s, start, n)
  <1>1. m <= start /\ start <= n /\ m <= n
    BY DEF Advanced
  <1>2. part \in Seq(Nat) /\ Len(part) = n - m /\ \A i \in 1 .. n - m : part[i] = s[m + i]
    BY <1>1, PartIs DEF Window
  <1>3. left \in Seq(Nat) /\ Len(left) = n - start /\ \A i \in 1 .. n - start : left[i] = s[start + i]
    BY <1>1, PartIs DEF Window
  <1> DEFINE right == Newest(part, limit)
  <1>4. /\ right \in Seq(Nat) /\ Len(right) = IF Len(part) > limit THEN limit ELSE Len(part)
        /\ \A i \in 1 .. Len(right) : right[i] = part[i + (Len(part) - Len(right))]
    BY <1>2, NewestIs
  <1> HIDE DEF right, left, part
  <1>5. Len(right) = n - start /\ Len(part) - Len(right) = start - m
    <2>1. Len(part) = n - m /\ Len(right) = IF Len(part) > limit THEN limit ELSE Len(part)
      BY <1>2, <1>4
    <2> QED BY <1>1, <2>1 DEF Advanced
  <1>6. ASSUME NEW i \in 1 .. Len(left) PROVE left[i] = right[i]
    <2> DEFINE j == i + (start - m)
    <2>0. Len(left) = n - start
      BY <1>3
    <2>1. i \in Nat /\ i \in 1 .. n - start /\ j \in 1 .. n - m /\ m + j = start + i
      BY <1>1, <2>0
    <2>2. right[i] = part[j]
      BY <1>4, <1>5, <2>1
    <2> HIDE DEF j
    <2>3. part[j] = s[start + i]
      BY <1>2, <2>1
    <2>4. left[i] = s[start + i]
      BY <1>3, <2>1
    <2> QED BY <2>2, <2>3, <2>4
  <1>7. left = right
    BY <1>3, <1>4, <1>5, <1>6, SameRows
  <1> QED BY <1>7 DEF right, left, part

(***************************************************************************)
(* What a data file holds.                                                  *)
(***************************************************************************)
\* The part of a file that a record names is in order.
Framed(c) ==
    /\ c.start <= c.end
    /\ c.kind = "lines" => c.start = 0
    /\ c.file = None => c.end = 0

\* The record d is of the same output as c and shows a gap if c does.
Kin(c, d) ==
    /\ d.seq = c.seq /\ d.manifest = c.manifest /\ d.synced = c.synced
    /\ c.gap => d.gap

\* A file with exactly these rows.
Holds(w, rows) ==
    /\ w \in Work /\ Framed(w.current) /\ Intact(w) /\ History(w) = rows
    /\ w.current.file # None /\ w.current.start = 0 /\ w.current.end = Len(rows)

\* The rows are behind those of d, without the oldest that are too many, of
\* which the record tells.
Grown(d, rows, w) ==
    /\ w \in Work /\ Framed(w.current) /\ Intact(w)
    /\ History(w) = Newest(History(d) \o rows, Limit)
    /\ Kin(d.current, w.current)
    /\ Len(History(d)) + Len(rows) > Limit => w.current.gap

\* How much history there is.
LEMMA HistoryIs ==
    ASSUME NEW d \in Work, Framed(d.current), Intact(d)
    PROVE  History(d) \in Seq(Nat) /\ Len(History(d)) = d.current.end - d.current.start
  <1>1. Content(d) \in Seq(Nat) /\ d.current.start \in Nat /\ d.current.end \in Nat
    BY ContentTyped DEF Work, Record, Current
  <1>2. d.current.start <= d.current.end /\ d.current.end <= Len(Content(d))
    BY DEF Framed, Intact
  <1> QED BY <1>1, <1>2, PartIs DEF History

\* Without a file there is no history.
LEMMA NoFileNoHistory ==
    ASSUME NEW d \in Work, Framed(d.current), d.current.file = None
    PROVE  Intact(d) /\ History(d) = <<>>
  <1>1. Content(d) = <<>>
    BY FilesAre, SessionCacheAssumption DEF Work, Content
  <1>2. d.current.end = 0 /\ d.current.start = 0
    BY DEF Framed, Work, Record, Current
  <1>3. Intact(d)
    BY <1>1, <1>2 DEF Intact
  <1>4. History(d) \in Seq(Nat) /\ Len(History(d)) = 0
    BY <1>2, <1>3, HistoryIs
  <1> QED BY <1>3, <1>4

\* A whole file.
LEMMA WholePart ==
    ASSUME NEW s \in Seq(Nat)
    PROVE  SubSeq(s, 1, Len(s)) = s
  OBVIOUS

\* A new file of these rows.
LEMMA ReplaceHolds ==
    ASSUME NEW d \in Work, NEW rows \in Seq(Nat), NEW kind \in {"lines", "rows"}
    PROVE  /\ Holds(Replace(d, rows, kind), rows)
           /\ Kin(d.current, Replace(d, rows, kind).current)
  <1> DEFINE w == Replace(d, rows, kind)
  <1>1. /\ Rewritten(d, w) /\ Content(w) = rows
        /\ w.current = [d.current EXCEPT !.file = Fresh(d), !.kind = kind, !.start = 0, !.end = Len(rows)]
    <2>1. CASE kind = "lines"
      BY <2>1, Replaced
    <2>2. CASE kind = "rows"
      BY <2>2, Replaced
    <2> QED BY <2>1, <2>2
  <1> HIDE DEF w
  <1>2. w \in Work /\ Intact(w) /\ w.current.file \in Nat /\ d.current \in Record
    BY <1>1 DEF Rewritten, Work
  <1>3. w.current.start = 0 /\ w.current.end = Len(rows) /\ Kin(d.current, w.current)
    BY <1>1, <1>2 DEF Record, Current, Kin
  <1>4. Framed(w.current) /\ w.current.file # None
    <2>1. Len(rows) \in Nat
      OBVIOUS
    <2> QED BY <1>2, <1>3, <2>1, SessionCacheAssumption DEF Framed
  <1>5. History(w) = rows
    BY <1>1, <1>3, WholePart DEF History
  <1> QED BY <1>2, <1>3, <1>4, <1>5 DEF Holds, w

\* replace_lines: a new file of the newest rows.
LEMMA LinesHold ==
    ASSUME NEW d \in Work, NEW rows \in Seq(Nat)
    PROVE  /\ Holds(ReplaceLines(d, rows), Newest(rows, Limit))
           /\ Kin(d.current, ReplaceLines(d, rows).current)
           /\ Len(rows) > Limit => ReplaceLines(d, rows).current.gap
  <1> DEFINE w == ReplaceLines(d, rows)
             t == Newest(rows, Limit)
  <1>1. /\ Rewritten(d, w) /\ Content(w) = t
        /\ w.current = [d.current EXCEPT !.file = Fresh(d), !.kind = "lines", !.start = 0,
                                         !.end = Len(t), !.gap = d.current.gap \/ Len(rows) > Limit]
    BY LinesReplaced
  <1>2. t \in Seq(Nat)
    BY NewestTyped, SessionCacheAssumption
  <1> HIDE DEF w, t
  <1>3. w \in Work /\ Intact(w) /\ w.current.file \in Nat /\ d.current \in Record
    BY <1>1 DEF Rewritten, Work
  <1>4. w.current.start = 0 /\ w.current.end = Len(t) /\ Kin(d.current, w.current)
    BY <1>1, <1>3 DEF Record, Current, Kin
  <1>5. Framed(w.current) /\ w.current.file # None
    <2>1. Len(t) \in Nat
      BY <1>2
    <2> QED BY <1>3, <1>4, <2>1, SessionCacheAssumption DEF Framed
  <1>6. History(w) = t
    BY <1>1, <1>2, <1>4, WholePart DEF History
  <1>7. Len(rows) > Limit => w.current.gap
    BY <1>1, <1>3 DEF Record, Current
  <1> QED BY <1>3, <1>4, <1>5, <1>6, <1>7 DEF Holds, w, t

\* An append in place.
LEMMA ExtendGrows ==
    ASSUME NEW d \in Work, NEW rows \in Seq(Nat), Intact(d), d.current.file # None, Framed(d.current)
    PROVE  LET w == Extend(d, rows) IN
           /\ w \in Work /\ Intact(w) /\ Framed(w.current) /\ Kin(d.current, w.current)
           /\ w.current.start = d.current.start /\ w.current.end = d.current.end + Len(rows)
           /\ w.current.kind = d.current.kind /\ w.current.file # None
           /\ History(w) = History(d) \o rows
  <1> DEFINE w == Extend(d, rows)
             n == d.current.end
             m == d.current.start
  <1>1. /\ w \in Work /\ Intact(w)
        /\ w.current = [d.current EXCEPT !.end = n + Len(rows)]
        /\ Content(w) = SubSeq(Content(d), 1, n) \o rows
    BY Extended
  <1> HIDE DEF w
  <1>2. Content(d) \in Seq(Nat) /\ m \in Nat /\ n \in Nat /\ m <= n /\ n <= Len(Content(d))
    BY ContentTyped DEF Work, Record, Current, Framed, Intact
  <1>3. d.current \in Record /\ Len(rows) \in Nat
    BY DEF Work
  <1>4. /\ w.current.start = m /\ w.current.end = n + Len(rows) /\ w.current.kind = d.current.kind
        /\ w.current.file = d.current.file /\ Kin(d.current, w.current)
    BY <1>1, <1>3 DEF Record, Current, Kin
  <1>5. Framed(w.current)
    BY <1>2, <1>3, <1>4 DEF Framed
  <1>6. History(w) = SubSeq(SubSeq(Content(d), 1, n) \o rows, m + 1, n + Len(rows))
    BY <1>1, <1>4 DEF History
  <1>7. History(w) = History(d) \o rows
    <2>1. History(d) = SubSeq(Content(d), m + 1, n)
      BY DEF History
    <2> DEFINE s == Content(d)
    <2> HIDE DEF m, n, s
    <2>2. SubSeq(SubSeq(s, 1, n) \o rows, m + 1, n + Len(rows)) = SubSeq(s, m + 1, n) \o rows
      BY <1>2, WindowLonger DEF s
    <2> QED BY <1>6, <2>1, <2>2 DEF s
  <1> QED BY <1>1, <1>4, <1>5, <1>7 DEF w

\* append_lines.
LEMMA LinesGrow ==
    ASSUME NEW d \in Work, NEW rows \in Seq(Nat), Framed(d.current), d.current.kind = "lines",
           rows # <<>>, d.current.file # None => Intact(d)
    PROVE  Grown(d, rows, AppendLines(d, rows))
  <1>1. CASE d.current.file = None
    <2>1. AppendLines(d, rows) = ReplaceLines(d, rows)
      BY <1>1 DEF AppendLines
    <2>2. History(d) = <<>>
      BY <1>1, NoFileNoHistory
    <2>3. /\ Holds(ReplaceLines(d, rows), Newest(rows, Limit))
          /\ Kin(d.current, ReplaceLines(d, rows).current)
          /\ Len(rows) > Limit => ReplaceLines(d, rows).current.gap
      BY LinesHold
    <2>4. History(d) \o rows = rows /\ Len(History(d)) + Len(rows) = Len(rows)
      BY <2>2
    <2> QED BY <2>1, <2>3, <2>4 DEF Holds, Grown
  <1>2. CASE d.current.file # None
    <2> DEFINE longer == Extend(d, rows)
               lines == ReplaceLines(longer, History(longer))
    <2>1. /\ longer \in Work /\ Intact(longer) /\ Framed(longer.current)
          /\ Kin(d.current, longer.current) /\ longer.current.start = d.current.start
          /\ longer.current.end = d.current.end + Len(rows)
          /\ History(longer) = History(d) \o rows
      BY <1>2, ExtendGrows
    <2>2. AppendLines(d, rows) = IF longer.current.end > Limit THEN lines ELSE longer
      BY <1>2 DEF AppendLines
    <2> HIDE DEF longer
    <2>3. History(d) \in Seq(Nat) /\ Len(History(d)) = d.current.end - d.current.start
      BY <1>2, HistoryIs
    <2>4. d.current.start = 0 /\ d.current.end \in Nat /\ Len(rows) \in Nat
      BY DEF Framed, Work, Record, Current
    <2>5. Len(History(d)) + Len(rows) = longer.current.end /\ longer.current.end \in Nat
      BY <2>1, <2>3, <2>4
    <2>6. History(longer) \in Seq(Nat) /\ Len(History(longer)) = longer.current.end
      BY <2>1, <2>3, <2>5, BothAre
    <2>7. CASE longer.current.end > Limit
      <3>1. /\ Holds(lines, Newest(History(longer), Limit)) /\ Kin(longer.current, lines.current)
            /\ Len(History(longer)) > Limit => lines.current.gap
        BY <2>1, <2>6, LinesHold
      <3>2. lines.current.gap
        BY <2>6, <2>7, <3>1
      <3> HIDE DEF lines
      <3>3. Kin(d.current, lines.current)
        BY <2>1, <3>1 DEF Kin
      <3>4. AppendLines(d, rows) = lines
        BY <2>2, <2>7
      <3> QED BY <2>1, <3>1, <3>2, <3>3, <3>4 DEF Holds, Grown
    <2>8. CASE ~(longer.current.end > Limit)
      <3>1. AppendLines(d, rows) = longer
        BY <2>2, <2>8
      <3>2. Newest(History(longer), Limit) = History(longer)
        BY <2>6, <2>8 DEF Newest
      <3>3. ~(Len(History(d)) + Len(rows) > Limit)
        BY <2>5, <2>8
      <3> QED BY <2>1, <3>1, <3>2, <3>3 DEF Grown
    <2> QED BY <2>7, <2>8
  <1> QED BY <1>1, <1>2

\* append_rows.
LEMMA RowsGrow ==
    ASSUME NEW d \in Work, NEW rows \in Seq(Nat), Framed(d.current), d.current.kind = "rows", Intact(d)
    PROVE  Grown(d, rows, AppendRows(d, rows))
  <1> DEFINE longer == Extend(d, rows)
             n == longer.current.end
             m == longer.current.start
             excess == IF n - m > Limit THEN n - m - Limit ELSE 0
             moved == [longer EXCEPT !.current.start = @ + excess, !.current.gap = @ \/ excess > 0]
             c == [longer.current EXCEPT !.start = m + excess, !.gap = longer.current.gap \/ excess > 0]
  <1>1. d.current.file # None
    BY DEF Work, Record
  <1>2. /\ longer \in Work /\ Intact(longer) /\ Framed(longer.current)
        /\ Kin(d.current, longer.current) /\ m = d.current.start
        /\ n = d.current.end + Len(rows) /\ longer.current.kind = "rows" /\ longer.current.file # None
        /\ History(longer) = History(d) \o rows
    BY <1>1, ExtendGrows
  <1>3. AppendRows(d, rows) = IF moved.current.start >= CompactAt
                              THEN Replace(moved, History(moved), "rows") ELSE moved
    BY DEF AppendRows
  <1> HIDE DEF longer
  <1>4. longer.current \in Record /\ n \in Nat /\ m \in Nat /\ m <= n /\ Limit \in Nat
    BY <1>2, SessionCacheAssumption DEF Work, Record, Current, Framed
  <1>5. excess \in Nat /\ m + excess \in Nat /\ m + excess <= n /\ (n - m > Limit => excess > 0)
    BY <1>4
  <1>6. excess = IF n - m > Limit THEN n - m - Limit ELSE 0
    OBVIOUS
  <1> HIDE DEF excess
  <1>7. moved = [longer EXCEPT !.current = c]
    BY <1>2, <1>4 DEF Work, Record, Current
  <1>8. /\ c \in Record /\ c.start = m + excess /\ c.end = n /\ c.file = longer.current.file
        /\ c.kind = longer.current.kind /\ Kin(longer.current, c) /\ (excess > 0 => c.gap)
    <2>1. longer.current.start + excess \in Nat
      BY <1>5
    <2> QED BY <1>4, <2>1 DEF Record, Current, Kin
  <1> HIDE DEF moved, c, m, n
  <1>9. moved \in Work /\ moved.files = longer.files /\ moved.current = c
    BY <1>2, <1>7, <1>8, Recorded
  <1>10. Content(moved) = Content(longer)
    BY <1>8, <1>9 DEF Content
  <1>11. Intact(moved) /\ Framed(moved.current)
    <2>1. Intact(moved)
      BY <1>2, <1>8, <1>9, <1>10 DEF Intact, n
    <2>2. Framed(c)
      BY <1>2, <1>5, <1>8 DEF Framed
    <2> QED BY <1>9, <2>1, <2>2
  <1>12. History(moved) = Newest(History(longer), Limit)
    <2> DEFINE s == Content(longer)
    <2>1. s \in Seq(Nat) /\ n <= Len(s)
      BY <1>2, ContentTyped DEF Intact, n
    <2>2. /\ c.start = m + excess
          /\ History(moved) = SubSeq(s, c.start + 1, n) /\ History(longer) = SubSeq(s, m + 1, n)
      BY <1>8, <1>9, <1>10 DEF History, m, n
    <2> HIDE DEF s
    <2>3. n \in Nat /\ m \in Nat /\ m <= n /\ Limit \in Nat /\ excess \in Nat
      BY <1>4, <1>5
    <2>4. Advanced(m, n, Limit, c.start) /\ c.start \in Nat
      BY <1>6, <2>2, <2>3 DEF Advanced
    <2>5. Window(s, c.start, n) = Newest(Window(s, m, n), Limit)
      BY <2>1, <2>3, <2>4, WindowMoved
    <2> QED BY <2>2, <2>5 DEF Window
  <1>13. Len(History(d)) + Len(rows) > Limit => c.gap
    <2>1. Len(History(longer)) = n - m
      BY <1>2, HistoryIs DEF n, m
    <2>2. History(d) \in Seq(Nat)
      BY HistoryIs
    <2>3. Len(History(longer)) = Len(History(d)) + Len(rows)
      BY <1>2, <2>2, BothAre
    <2> QED BY <1>5, <1>8, <2>1, <2>3
  <1>14. Kin(d.current, c)
    BY <1>2, <1>8 DEF Kin
  <1>15. CASE moved.current.start >= CompactAt
    <2> DEFINE w == Replace(moved, History(moved), "rows")
    <2>1. History(moved) \in Seq(Nat)
      BY <1>9, <1>11, HistoryIs
    <2>2. Holds(w, History(moved)) /\ Kin(moved.current, w.current)
      BY <1>9, <2>1, ReplaceHolds
    <2>3. AppendRows(d, rows) = w
      BY <1>3, <1>15
    <2> HIDE DEF w
    <2>4. Kin(d.current, w.current) /\ (c.gap => w.current.gap)
      BY <1>9, <1>14, <2>2 DEF Kin
    <2> QED BY <1>2, <1>12, <1>13, <2>2, <2>3, <2>4 DEF Holds, Grown
  <1>16. CASE ~(moved.current.start >= CompactAt)
    <2>1. AppendRows(d, rows) = moved
      BY <1>3, <1>16
    <2> QED BY <1>2, <1>9, <1>11, <1>12, <1>13, <1>14, <2>1 DEF Grown
  <1> QED BY <1>15, <1>16

(***************************************************************************)
(* Records whose history is exact.                                          *)
(***************************************************************************)
\* The rows that are shown end before row p; those from b on that are missing
\* are told of.
ExactAt(d, p, b) ==
    /\ Framed(d.current)
    /\ b + d.current.end <= p + d.current.start
    /\ b + d.current.end < p + d.current.start => ShownGap(d.current)
    /\ Intact(d) => EndsAt(History(d), p)

\* An append of the n rows from p on, or of the newest of them.
LEMMA AppendExact ==
    ASSUME NEW d \in Work, NEW p \in Nat, NEW n \in Nat, NEW b \in Nat, ExactAt(d, p, b),
           NEW rows \in Seq(Nat), rows = Newest(Rows(p, p + n), Limit), n > Limit => d.current.gap,
           InPlace(d, rows) => Intact(d)
    PROVE  /\ ExactAt(AppendHistory(d, rows), p + n, b) /\ AppendHistory(d, rows) \in Work
           /\ Kin(d.current, AppendHistory(d, rows).current)
  <1> DEFINE w == AppendHistory(d, rows)
             c == d.current
  <1>1. c.start \in Nat /\ c.end \in Nat /\ c.kind \in {"lines", "rows"} /\ c \in Record
    BY DEF Work, Record, Current
  <1>2. Limit \in Nat /\ Limit # 0 /\ p + n \in Nat
    BY SessionCacheAssumption
  <1>3. /\ Len(rows) = IF n > Limit THEN Limit ELSE n
        /\ EndsAt(rows, p + n)
    <2> DEFINE all == Rows(p, p + n)
    <2>1. all \in Seq(Nat) /\ Len(all) = n /\ EndsAt(all, p + n)
      <3>1. p <= p + n /\ (p + n) - p = n
        BY <1>2
      <3> QED BY <1>2, <3>1, RowsEnd
    <2> HIDE DEF all
    <2>2. rows = Newest(all, Limit)
      BY DEF all
    <2>3. Len(rows) = IF Len(all) > Limit THEN Limit ELSE Len(all)
      BY <1>2, <2>1, <2>2, NewestIs
    <2>4. EndsAt(rows, p + n)
      BY <1>2, <2>1, <2>2, NewestEnds
    <2> QED BY <2>1, <2>3, <2>4
  <1>4. Framed(c) /\ b + c.end <= p + c.start /\ (b + c.end < p + c.start => ShownGap(c))
    BY DEF ExactAt
  <1>5. CASE c.kind = "lines" /\ rows = <<>>
    <2>1. w = d
      BY <1>5 DEF AppendHistory, AppendLines
    <2>2. n = 0
      <3>1. Len(rows) = 0
        BY <1>5
      <3> QED BY <1>2, <1>3, <3>1
    <2>3. p + n = p
      BY <2>2
    <2> QED BY <2>1, <2>3 DEF Kin
  <1>6. CASE c.kind = "rows" \/ rows # <<>>
    <2>1. Intact(d)
      BY <1>4, <1>6, NoFileNoHistory DEF InPlace
    <2>2. Grown(d, rows, w)
      <3>1. CASE c.kind = "rows"
        BY <1>4, <2>1, <3>1, RowsGrow DEF AppendHistory
      <3>2. CASE c.kind = "lines"
        BY <1>4, <1>6, <2>1, <3>2, LinesGrow DEF AppendHistory
      <3> QED BY <1>1, <3>1, <3>2
    <2> HIDE DEF w
    <2>3. /\ w \in Work /\ Framed(w.current) /\ Intact(w) /\ Kin(c, w.current)
          /\ Len(History(d)) + Len(rows) > Limit => w.current.gap
      BY <2>2 DEF Grown
    <2>4. History(d) \in Seq(Nat) /\ Len(History(d)) = c.end - c.start /\ EndsAt(History(d), p)
      BY <1>4, <2>1, HistoryIs DEF ExactAt
    <2> DEFINE h == History(d)
               both == h \o rows
               g == History(w)
    <2>5. both \in Seq(Nat) /\ Len(both) = Len(h) + Len(rows)
      BY <2>4, BothAre
    <2>6. g = Newest(both, Limit) /\ Len(g) = w.current.end - w.current.start
      BY <2>2, <2>3, HistoryIs DEF Grown
    <2>7. EndsAt(g, p + n)
      <3>1. Len(rows) = n \/ Len(rows) = Limit
        BY <1>3
      <3> HIDE DEF h
      <3>2. EndsAt(Newest(h \o rows, Limit), p + n)
        BY <1>2, <1>3, <2>4, <3>1, RunContinues DEF h
      <3> QED BY <2>6, <3>2
    <2>8. Len(g) = IF Len(both) > Limit THEN Limit ELSE Len(both)
      <3> HIDE DEF both, g
      <3>1. Len(Newest(both, Limit)) = IF Len(both) > Limit THEN Limit ELSE Len(both)
        BY <1>2, <2>5, NewestIs
      <3> QED BY <2>6, <3>1
    <2> DEFINE e == w.current.end
               s == w.current.start
               l == Len(rows)
    <2>9. e \in Nat /\ s \in Nat /\ s <= e
      BY <2>3 DEF Work, Record, Current, Framed
    <2>10. l = (IF n > Limit THEN Limit ELSE n) /\ c.end - c.start + l \in Nat
           /\ e - s = IF c.end - c.start + l > Limit THEN Limit ELSE c.end - c.start + l
      <3>1. c.start <= c.end
        BY <1>4 DEF Framed
      <3>2. l \in Nat /\ l = IF n > Limit THEN Limit ELSE n
        BY <1>2, <1>3
      <3>3. Len(both) = c.end - c.start + l
        BY <2>4, <2>5
      <3> HIDE DEF e, s, l, c, both, g
      <3>4. e - s = IF Len(both) > Limit THEN Limit ELSE Len(both)
        BY <2>6, <2>8 DEF e, s
      <3> QED BY <1>1, <3>1, <3>2, <3>3, <3>4
    <2>11. c.end - c.start + l > Limit => w.current.gap
      BY <2>3, <2>4
    <2>12. /\ n > Limit => w.current.gap
           /\ b + c.end < p + c.start => ShownGap(w.current)
           /\ w.current.gap => ShownGap(w.current)
      BY <1>4, <2>3 DEF Kin, ShownGap
    <2> HIDE DEF e, s, l, c, g, both, h
    <2>13. b + e <= (p + n) + s
      <3> DEFINE ce == c.end
                 cs == c.start
      <3>1. ce \in Nat /\ cs \in Nat /\ b + ce <= p + cs /\ Limit \in Nat /\ l <= n /\ l \in Nat
        BY <1>1, <1>2, <1>4, <2>10
      <3>2. e - s <= ce - cs + l
        BY <1>2, <2>10
      <3> HIDE DEF ce, cs
      <3> QED BY <2>9, <3>1, <3>2
    <2>14. b + e < (p + n) + s => ShownGap(w.current)
      BY <1>1, <1>2, <1>4, <2>9, <2>10, <2>11, <2>12
    <2> QED BY <2>3, <2>7, <2>13, <2>14 DEF ExactAt, e, s, g, c, w
  <1> QED BY <1>1, <1>5, <1>6

\* The history of the record's checkpoint is what m says, and it was not cleared since.
Pinned(x, m, c) == c.manifest # None =>
    /\ c.manifest.id \in DOMAIN m /\ m[c.manifest.id] = c.manifest.seq
    /\ c.manifest.seq <= c.seq /\ BaseAt(x, c.manifest.seq) = BaseAt(x, c.seq)

\* The history of a directory is exact, if byte x clears it and the checkpoints
\* were taken where m says.
Exact(x, m, d) == ExactAt(d, d.current.seq, BaseAt(x, d.current.seq)) /\ Pinned(x, m, d.current)

\* What the server says of its history is so.
EventSound(x, m, e) ==
    /\ e.kind = "checkpoint" =>
         /\ e.first <= e.seq /\ BaseAt(x, e.seq) <= e.first
         /\ e.first > BaseAt(x, e.seq) => e.gap \/ e.id # None
         /\ e.id # None => e.id \in DOMAIN m /\ m[e.id] = e.seq
    /\ e.kind = "synced" =>
         /\ e.id \in DOMAIN m /\ e.from <= m[e.id] /\ BaseAt(x, m[e.id]) <= e.from
         /\ e.from > BaseAt(x, m[e.id]) => e.gap
    /\ e.kind = "output" =>
         /\ e.from < e.to
         /\ IF e.clear THEN x = e.from /\ e.to = e.from + 1 ELSE x # None => x < e.from \/ x >= e.to

\* The record is of the output up to p + n, and n rows are to be appended to it.
Renewed(x, m, u, p, n) ==
    /\ u \in Work /\ ExactAt(u, p, BaseAt(x, p + n)) /\ u.current.seq = p + n
    /\ n > Limit => u.current.gap
    /\ Pinned(x, m, u.current)

\* The start of the history is a row.
LEMMA BaseTyped ==
    ASSUME NEW x \in Nat \cup {None}, NEW s \in Nat
    PROVE  BaseAt(x, s) \in Nat
  BY SessionCacheAssumption DEF BaseAt

\* Another record of the same rows.
SameRange(c, d) == d.file = c.file /\ d.start = c.start /\ d.end = c.end /\ d.kind = c.kind

\* The record of a file changes, its rows do not.
LEMMA RecordHolds ==
    ASSUME NEW w, NEW rows, Holds(w, rows), NEW c \in Record, SameRange(w.current, c)
    PROVE  Holds([w EXCEPT !.current = c], rows)
  <1> DEFINE v == [w EXCEPT !.current = c]
  <1>1. w \in Work
    BY DEF Holds
  <1>2. v \in Work /\ v.current = c /\ v.files = w.files
    BY <1>1, Recorded
  <1> HIDE DEF v
  <1>3. Content(v) = Content(w)
    BY <1>2 DEF Content, SameRange
  <1>4. Intact(v) /\ History(v) = rows
    BY <1>2, <1>3 DEF Holds, Intact, History, SameRange
  <1> QED BY <1>2, <1>4 DEF Holds, Framed, SameRange, v

\* A file that ends where it should, and lacks nothing that is not told of.
LEMMA HoldsExact ==
    ASSUME NEW w, NEW rows \in Seq(Nat), Holds(w, rows), NEW p \in Nat, NEW b \in Nat, EndsAt(rows, p),
           b + Len(rows) <= p, b + Len(rows) < p => ShownGap(w.current)
    PROVE  ExactAt(w, p, b)
  <1>1. /\ Framed(w.current) /\ History(w) = rows
        /\ w.current.start = 0 /\ w.current.end = Len(rows) /\ Len(rows) \in Nat
    BY DEF Holds
  <1> QED BY <1>1 DEF ExactAt

\* Another record of rows that are exact.
LEMMA RecordExact ==
    ASSUME NEW d \in Work, NEW p \in Nat, NEW b \in Nat, ExactAt(d, p, b), NEW c \in Record,
           SameRange(d.current, c), ShownGap(d.current) => ShownGap(c)
    PROVE  ExactAt([d EXCEPT !.current = c], p, b)
  <1> DEFINE v == [d EXCEPT !.current = c]
  <1>1. v \in Work /\ v.current = c /\ v.files = d.files
    BY Recorded
  <1> HIDE DEF v
  <1>2. Content(v) = Content(d)
    BY <1>1 DEF Content, SameRange
  <1>3. Intact(v) = Intact(d) /\ History(v) = History(d)
    BY <1>1, <1>2 DEF Intact, History, SameRange
  <1>4. Framed(c)
    BY DEF ExactAt, Framed, SameRange
  <1> QED BY <1>1, <1>3, <1>4 DEF ExactAt, SameRange, v

\* A checkpoint.
LEMMA CheckpointExact ==
    ASSUME NEW x \in Nat \cup {None}, NEW m, NEW d \in Work, NEW e \in Event, e.kind = "checkpoint",
           EventSound(x, m, e)
    PROVE  Renewed(x, m, WithCheckpoint(d, e), e.seq, 0)
  <1> DEFINE b == [d.current EXCEPT !.version = 2, !.gap = e.gap]
             bounded == [d EXCEPT !.current.version = 2, !.current.gap = e.gap]
             all == Rows(e.first, e.seq)
             replaced == ReplaceLines(bounded, all)
             rows == Newest(all, Limit)
             manifest == IF e.id = None THEN None ELSE [id |-> e.id, seq |-> e.seq]
             c == [replaced.current EXCEPT !.seq = e.seq, !.manifest = manifest,
                                           !.synced = (e.id = None), !.truncated = FALSE]
             u == [replaced EXCEPT !.current = c]
             base == BaseAt(x, e.seq)
  <1>1. /\ e.first \in Nat /\ e.seq \in Nat /\ e.id \in Nat \cup {None} /\ e.gap \in BOOLEAN
        /\ Limit \in Nat /\ base \in Nat
    BY BaseTyped, SessionCacheAssumption DEF Event
  <1>2. /\ e.first <= e.seq /\ base <= e.first
        /\ e.first > base => e.gap \/ e.id # None
        /\ e.id # None => e.id \in DOMAIN m /\ m[e.id] = e.seq
    BY DEF EventSound
  <1>3. b \in Record /\ b.gap = e.gap
    BY <1>1 DEF Work, Record, Current
  <1>4. bounded = [d EXCEPT !.current = b]
    BY DEF Work, Record, Current
  <1>5. all \in Seq(Nat) /\ Len(all) = e.seq - e.first /\ EndsAt(all, e.seq)
    BY <1>1, <1>2, RowsEnd
  <1> HIDE DEF b, bounded, all
  <1>6. bounded \in Work /\ bounded.current = b
    BY <1>3, <1>4, Recorded
  <1>7. /\ Holds(replaced, rows) /\ Kin(b, replaced.current)
        /\ Len(all) > Limit => replaced.current.gap
    BY <1>5, <1>6, LinesHold
  <1>8. /\ rows \in Seq(Nat) /\ EndsAt(rows, e.seq)
        /\ Len(rows) = IF Len(all) > Limit THEN Limit ELSE Len(all)
    BY <1>1, <1>5, NewestIs, NewestEnds
  <1>9. replaced \in Work /\ replaced.current \in Record
    BY <1>7 DEF Holds, Work
  <1>10. manifest \in [id : Nat, seq : Nat] \cup {None}
    BY <1>1
  <1>11. WithCheckpoint(d, e) = u
    BY <1>9 DEF WithCheckpoint, Work, Record, Current, bounded, all
  <1> HIDE DEF replaced, rows
  <1>12. /\ c \in Record /\ SameRange(replaced.current, c) /\ c.gap = replaced.current.gap
         /\ c.seq = e.seq /\ c.manifest = manifest /\ c.synced = (e.id = None)
    BY <1>1, <1>9, <1>10 DEF Record, Current, SameRange
  <1>13. Pinned(x, m, c)
    <2>1. CASE e.id = None
      BY <1>12, <2>1 DEF Pinned
    <2>2. CASE e.id # None
      <3>1. c.manifest = [id |-> e.id, seq |-> e.seq]
        BY <1>12, <2>2
      <3>2. c.manifest.id = e.id /\ c.manifest.seq = e.seq
        BY <3>1
      <3> HIDE DEF c
      <3> QED BY <1>1, <1>2, <1>12, <2>2, <3>2 DEF Pinned
    <2> QED BY <2>1, <2>2
  <1>14. e.gap \/ e.id # None \/ Len(all) > Limit => ShownGap(c)
    <2>1. e.gap \/ Len(all) > Limit => c.gap
      BY <1>3, <1>7, <1>12 DEF Kin
    <2>2. e.id # None => c.manifest # None /\ ~c.synced
      <3> SUFFICES ASSUME e.id # None PROVE c.manifest # None /\ ~c.synced
        OBVIOUS
      <3>1. c.manifest = [id |-> e.id, seq |-> e.seq]
        BY <1>12
      <3>2. c.manifest # None
        <4>1. [id |-> e.id, seq |-> e.seq] \in [id : Nat, seq : Nat]
          BY <1>1
        <4> QED BY <3>1, <4>1, SessionCacheAssumption
      <3> HIDE DEF c
      <3> QED BY <1>12, <3>2
    <2> QED BY <2>1, <2>2 DEF ShownGap
  <1> HIDE DEF c, manifest
  <1>15. Holds(u, rows) /\ u.current = c /\ u \in Work
    BY <1>7, <1>9, <1>12, RecordHolds, Recorded
  <1>16. /\ base + Len(rows) <= e.seq
         /\ base + Len(rows) < e.seq => e.first > base \/ Len(all) > Limit
    BY <1>1, <1>2, <1>5, <1>8
  <1> HIDE DEF u, base
  <1>17. ExactAt(u, e.seq, base)
    BY <1>1, <1>2, <1>8, <1>14, <1>15, <1>16, HoldsExact
  <1>18. e.seq + 0 = e.seq /\ ~(0 > Limit)
    BY <1>1
  <1> QED BY <1>11, <1>12, <1>13, <1>15, <1>17, <1>18 DEF Renewed, base

\* The transferred history.
LEMMA TransferExact ==
    ASSUME NEW x \in Nat \cup {None}, NEW m, NEW d \in Work, Exact(x, m, d), NEW e \in Event,
           e.kind = "synced", EventSound(x, m, e), NEW has, ~Ignored(d.current, has, e)
    PROVE  Renewed(x, m, WithHistory(d, e), d.current.seq, 0)
  <1> DEFINE all == Rows(e.from, d.current.seq)
             rows == Newest(all, Limit)
             complete == Replace(d, rows, "rows")
             c == [complete.current EXCEPT !.gap = e.gap \/ Len(all) > Limit, !.synced = TRUE]
             u == [complete EXCEPT !.current = c]
             s == d.current.seq
             base == BaseAt(x, s)
  <1>1. /\ e.from \in Nat /\ e.id \in Nat /\ e.gap \in BOOLEAN /\ s \in Nat
        /\ Limit \in Nat /\ base \in Nat /\ d.current \in Record
    <2>1. e.from \in Nat /\ e.id \in Nat /\ e.gap \in BOOLEAN
      BY DEF Event
    <2>2. d.current.seq \in Nat /\ d.current \in Record
      BY DEF Work, Record, Current
    <2> QED BY <2>1, <2>2, BaseTyped, SessionCacheAssumption
  <1>2. d.current.manifest # None /\ d.current.manifest.id = e.id
    BY DEF Ignored
  <1>3. m[e.id] = d.current.manifest.seq /\ d.current.manifest.seq <= s /\ BaseAt(x, m[e.id]) = base
        /\ d.current.manifest.seq \in Nat
    <2>1. d.current.manifest \in [id : Nat, seq : Nat]
      BY <1>1, <1>2 DEF Record, Current
    <2> QED BY <1>2, <2>1 DEF Exact, Pinned
  <1>4. e.from <= m[e.id] /\ base <= e.from /\ (e.from > base => e.gap)
    BY <1>3 DEF EventSound
  <1>5. e.from <= s
    BY <1>1, <1>3, <1>4
  <1>6. all \in Seq(Nat) /\ Len(all) = s - e.from /\ EndsAt(all, s)
    BY <1>1, <1>5, RowsEnd
  <1> HIDE DEF all
  <1>7. /\ rows \in Seq(Nat) /\ EndsAt(rows, s)
        /\ Len(rows) = IF Len(all) > Limit THEN Limit ELSE Len(all)
    BY <1>1, <1>6, NewestIs, NewestEnds
  <1>8. Holds(complete, rows) /\ Kin(d.current, complete.current)
    BY <1>7, ReplaceHolds
  <1>9. complete \in Work /\ complete.current \in Record
    BY <1>8 DEF Holds, Work
  <1>10. WithHistory(d, e) = u
    BY <1>9 DEF WithHistory, Work, Record, Current, all
  <1> HIDE DEF complete, rows
  <1>11. /\ c \in Record /\ SameRange(complete.current, c) /\ c.gap = (e.gap \/ Len(all) > Limit)
         /\ c.seq = complete.current.seq /\ c.manifest = complete.current.manifest
    BY <1>1, <1>9 DEF Record, Current, SameRange
  <1>12. c.seq = s /\ c.manifest = d.current.manifest
    BY <1>8, <1>11 DEF Kin
  <1> HIDE DEF c
  <1>13. Pinned(x, m, c)
    BY <1>12 DEF Exact, Pinned
  <1>14. e.gap \/ Len(all) > Limit => ShownGap(c)
    BY <1>11 DEF ShownGap
  <1>15. Holds(u, rows) /\ u.current = c /\ u \in Work
    BY <1>8, <1>9, <1>11, RecordHolds, Recorded
  <1>16. /\ base + Len(rows) <= s
         /\ base + Len(rows) < s => e.from > base \/ Len(all) > Limit
    BY <1>1, <1>4, <1>5, <1>6, <1>7
  <1> HIDE DEF u, base, s
  <1>17. ExactAt(u, s, base)
    BY <1>1, <1>4, <1>7, <1>14, <1>15, <1>16, HoldsExact
  <1>18. s + 0 = s /\ ~(0 > Limit)
    BY <1>1
  <1> QED BY <1>10, <1>12, <1>13, <1>15, <1>17, <1>18 DEF Renewed, base, s

\* A legacy record.
LEMMA LegacyExact ==
    ASSUME NEW d \in Work, NEW p \in Nat, NEW b \in Nat, ExactAt(d, p, b),
           d.current.version = 1 => Intact(d)
    PROVE  /\ BoundLegacy(d) \in Work /\ ExactAt(BoundLegacy(d), p, b)
           /\ Kin(d.current, BoundLegacy(d).current)
  <1>1. CASE d.current.version # 1
    BY <1>1 DEF BoundLegacy, Kin
  <1>2. CASE d.current.version = 1
    <2> DEFINE c == [d.current EXCEPT !.version = 2, !.gap = TRUE]
               bounded == [d EXCEPT !.current.version = 2, !.current.gap = TRUE]
               h == History(d)
               rows == Newest(h, Limit)
               w == ReplaceLines(bounded, rows)
    <2>1. h \in Seq(Nat) /\ Len(h) = d.current.end - d.current.start /\ EndsAt(h, p)
      BY <1>2, HistoryIs DEF ExactAt
    <2>2. c \in Record /\ Kin(d.current, c) /\ c.gap
      BY DEF Work, Record, Current, Kin
    <2>3. bounded = [d EXCEPT !.current = c]
      BY DEF Work, Record, Current
    <2>4. BoundLegacy(d) = w
      BY <1>2 DEF BoundLegacy
    <2> HIDE DEF h, c, bounded
    <2>5. bounded \in Work /\ bounded.current = c
      BY <2>2, <2>3, Recorded
    <2>6. Limit \in Nat
      BY SessionCacheAssumption
    <2>7. rows \in Seq(Nat) /\ EndsAt(rows, p) /\ Len(rows) <= Len(h) /\ Len(rows) <= Limit
      <3>1. /\ rows \in Seq(Nat) /\ EndsAt(rows, p)
            /\ Len(rows) = IF Len(h) > Limit THEN Limit ELSE Len(h)
        BY <2>1, <2>6, NewestIs, NewestEnds
      <3>2. Len(h) \in Nat
        BY <2>1
      <3> HIDE DEF rows
      <3> QED BY <2>6, <3>1, <3>2
    <2> HIDE DEF rows
    <2>8. Newest(rows, Limit) = rows
      BY <2>6, <2>7 DEF Newest
    <2>9. Holds(w, rows) /\ Kin(c, w.current)
      BY <2>5, <2>7, <2>8, LinesHold
    <2> HIDE DEF w
    <2>10. Kin(d.current, w.current) /\ ShownGap(w.current)
      BY <2>2, <2>9 DEF Kin, ShownGap
    <2>11. b + Len(rows) <= p
      <3>1. /\ d.current.start \in Nat /\ d.current.end \in Nat
            /\ b + d.current.end <= p + d.current.start /\ Len(rows) \in Nat
        BY <2>7 DEF Work, Record, Current, ExactAt
      <3>2. Len(rows) <= d.current.end - d.current.start
        BY <2>1, <2>7
      <3> QED BY <3>1, <3>2
    <2>12. ExactAt(w, p, b)
      BY <2>7, <2>9, <2>10, <2>11, HoldsExact
    <2> QED BY <2>4, <2>9, <2>10, <2>12 DEF Holds
  <1> QED BY <1>1, <1>2

\* Records that are changed in memory are of the same rows and show what they showed.
LEMMA RecordsKin ==
    ASSUME NEW c \in Record, NEW n
    PROVE  /\ SameRange(c, Unjoined(c)) /\ Unjoined(c).seq = c.seq
           /\ Unjoined(c).manifest = None /\ Unjoined(c).gap /\ Unjoined(c).synced = c.synced
           /\ SameRange(c, RetainReplay(c, n)) /\ Kin(c, RetainReplay(c, n))
           /\ Unjoined(c) \in Record /\ RetainReplay(c, n) \in Record
  <1>1. Unjoined(c) \in Record /\ RetainReplay(c, n) \in Record
    BY RecordsTyped
  <1>2. /\ SameRange(c, Unjoined(c)) /\ Unjoined(c).seq = c.seq
        /\ Unjoined(c).manifest = None /\ Unjoined(c).gap /\ Unjoined(c).synced = c.synced
    BY DEF Unjoined, SameRange, Record, Current
  <1>3. SameRange(c, RetainReplay(c, n)) /\ Kin(c, RetainReplay(c, n))
    BY DEF RetainReplay, SameRange, Kin, Record, Current
  <1> QED BY <1>1, <1>2, <1>3

\* Output that scrolls rows off the screen, apart from appending them.
LEMMA OutputExact ==
    ASSUME NEW x \in Nat \cup {None}, NEW m, NEW d \in Work, NEW e \in Event, e.kind = "output", ~e.clear,
           ExactAt(d, d.current.seq, BaseAt(x, d.current.seq)), Pinned(x, m, d.current),
           d.current.seq < e.to, BaseAt(x, d.current.seq) = BaseAt(x, e.to),
           NEW n \in Nat, d.current.seq + n = e.to
    PROVE  Renewed(x, m, WithOutput(d, e), d.current.seq, n)
  <1> DEFINE s == d.current.seq
             r == RetainReplay(d.current, e.to - s)
             retained == [d EXCEPT !.current = r]
             long == Len(Scrolled(d.current, e)) > Limit
             bounded == [retained EXCEPT !.current.gap = @ \/ long]
             c == [r EXCEPT !.gap = r.gap \/ long, !.seq = e.to]
             u == [d EXCEPT !.current = c]
  <1>1. e.to \in Nat /\ d.current \in Record /\ s \in Nat /\ Limit \in Nat
    BY SessionCacheAssumption DEF Event, Work, Record, Current
  <1>2. WithOutput(d, e) = [bounded EXCEPT !.current.seq = e.to]
    BY DEF WithOutput
  <1>3. r \in Record /\ SameRange(d.current, r) /\ Kin(d.current, r)
    BY <1>1, RecordsKin
  <1>4. n > Limit => long
    <2>1. Scrolled(d.current, e) = Rows(s, e.to)
      BY DEF Scrolled
    <2>2. s <= e.to /\ e.to - s = n
      BY <1>1
    <2>3. Len(Rows(s, e.to)) = n
      BY <1>1, <2>2, RowsEnd
    <2> QED BY <2>1, <2>3
  <1>5. long \in BOOLEAN
    OBVIOUS
  <1> HIDE DEF r, long
  <1>6. WithOutput(d, e) = u
    BY <1>2, <1>3 DEF Work, Record, Current
  <1>7. /\ c \in Record /\ SameRange(r, c) /\ c.seq = e.to /\ c.manifest = r.manifest
        /\ c.synced = r.synced /\ (r.gap \/ long => c.gap)
    BY <1>1, <1>3, <1>5 DEF Record, Current, SameRange
  <1> HIDE DEF c
  <1>8. SameRange(d.current, c) /\ (ShownGap(d.current) => ShownGap(c))
    BY <1>3, <1>7 DEF SameRange, Kin, ShownGap
  <1>9. u \in Work /\ u.current = c
    BY <1>7, Recorded
  <1>10. BaseAt(x, s) \in Nat
    BY <1>1, BaseTyped
  <1>11. ExactAt(u, s, BaseAt(x, s))
    BY <1>1, <1>7, <1>8, <1>10, RecordExact
  <1>12. Pinned(x, m, c)
    <2> SUFFICES ASSUME c.manifest # None
                 PROVE  /\ c.manifest.id \in DOMAIN m /\ m[c.manifest.id] = c.manifest.seq
                        /\ c.manifest.seq <= c.seq /\ BaseAt(x, c.manifest.seq) = BaseAt(x, c.seq)
      BY DEF Pinned
    <2>1. c.manifest = d.current.manifest
      BY <1>3, <1>7 DEF Kin
    <2>2. d.current.manifest \in [id : Nat, seq : Nat]
      BY <1>1, <2>1 DEF Record, Current
    <2>3. d.current.manifest.seq \in Nat
      BY <2>2
    <2>4. /\ c.manifest.id \in DOMAIN m /\ m[c.manifest.id] = c.manifest.seq
          /\ d.current.manifest.seq <= s /\ BaseAt(x, c.manifest.seq) = BaseAt(x, s)
      BY <2>1 DEF Pinned
    <2>5. c.manifest.seq <= e.to
      BY <1>1, <2>1, <2>3, <2>4
    <2> QED BY <1>7, <2>4, <2>5
  <1> HIDE DEF u
  <1> QED BY <1>4, <1>6, <1>7, <1>9, <1>11, <1>12 DEF Renewed

\* Output that clears the history.
LEMMA ClearExact ==
    ASSUME NEW x \in Nat \cup {None}, NEW m, NEW d \in Work, NEW e \in Event, e.kind = "output", e.clear,
           BaseAt(x, e.to) = e.to
    PROVE  Renewed(x, m, WithOutput(d, e), e.to, 0)
  <1> DEFINE r == RetainReplay(d.current, e.to - d.current.seq)
             retained == [d EXCEPT !.current = r]
             open == [retained EXCEPT !.current = Unjoined(@), !.current.synced = FALSE]
             o == [Unjoined(r) EXCEPT !.synced = FALSE]
             none == <<>>
             w == ReplaceLines(open, none)
             c == [w.current EXCEPT !.seq = e.to]
             u == [w EXCEPT !.current = c]
  <1>1. e.to \in Nat /\ d.current \in Record /\ Limit \in Nat
    BY SessionCacheAssumption DEF Event, Work
  <1>2. WithOutput(d, e) = [w EXCEPT !.current.seq = e.to]
    BY DEF WithOutput
  <1>3. r \in Record
    BY <1>1, RecordsKin
  <1> HIDE DEF r
  <1>4. Unjoined(r) \in Record /\ Unjoined(r).manifest = None /\ Unjoined(r).gap
    BY <1>3, RecordsKin
  <1>5. o \in Record /\ o.manifest = None /\ o.gap
    <2> DEFINE j == Unjoined(r)
    <2> HIDE DEF j
    <2> QED BY <1>4 DEF Record, Current, j
  <1>6. retained \in Work /\ retained.current = r
    BY <1>3, Recorded
  <1>7. open = [retained EXCEPT !.current = o]
    BY <1>6 DEF Work
  <1> HIDE DEF retained, open, o
  <1>8. open \in Work /\ open.current = o
    BY <1>5, <1>6, <1>7, Recorded
  <1>9. none \in Seq(Nat) /\ Len(none) = 0 /\ EndsAt(none, e.to)
    BY <1>1, NoRows
  <1>10. Newest(none, Limit) = none
    BY <1>1, <1>9 DEF Newest
  <1> HIDE DEF none
  <1>11. Holds(w, none) /\ Kin(o, w.current)
    BY <1>8, <1>9, <1>10, LinesHold
  <1> HIDE DEF w
  <1>12. w \in Work /\ w.current \in Record
    BY <1>11 DEF Holds, Work
  <1>13. WithOutput(d, e) = u
    BY <1>2, <1>12
  <1>14. /\ c \in Record /\ SameRange(w.current, c) /\ c.seq = e.to /\ c.manifest = None /\ c.gap
    <2>1. w.current.manifest = None /\ w.current.gap
      BY <1>5, <1>11 DEF Kin
    <2> QED BY <1>1, <1>12, <2>1 DEF Record, Current, SameRange
  <1> HIDE DEF c
  <1>15. Holds(u, none) /\ u.current = c /\ u \in Work
    BY <1>11, <1>12, <1>14, RecordHolds, Recorded
  <1>16. ShownGap(c) /\ Pinned(x, m, c)
    BY <1>14 DEF ShownGap, Pinned
  <1> HIDE DEF u
  <1>17. e.to + Len(none) <= e.to /\ e.to + 0 = e.to /\ ~(0 > Limit)
    BY <1>1, <1>9
  <1>18. ExactAt(u, e.to, e.to)
    BY <1>1, <1>9, <1>15, <1>16, <1>17, HoldsExact
  <1> QED BY <1>13, <1>14, <1>15, <1>16, <1>17, <1>18 DEF Renewed

\* A resize.
LEMMA ResizeExact ==
    ASSUME NEW x \in Nat \cup {None}, NEW m, NEW d \in Work,
           ExactAt(d, d.current.seq, BaseAt(x, d.current.seq))
    PROVE  Renewed(x, m, [d EXCEPT !.current = Unjoined(@)], d.current.seq, 0)
  <1> DEFINE c == Unjoined(d.current)
             u == [d EXCEPT !.current = c]
             s == d.current.seq
  <1>1. d.current \in Record /\ s \in Nat /\ Limit \in Nat
    BY SessionCacheAssumption DEF Work, Record, Current
  <1>2. c \in Record /\ SameRange(d.current, c) /\ c.seq = s /\ c.manifest = None /\ c.gap
    BY <1>1, RecordsKin
  <1> HIDE DEF c
  <1>3. ShownGap(c) /\ Pinned(x, m, c)
    BY <1>2 DEF ShownGap, Pinned
  <1>4. u \in Work /\ u.current = c
    BY <1>2, Recorded
  <1>5. BaseAt(x, s) \in Nat
    BY <1>1, BaseTyped
  <1>6. ExactAt(u, s, BaseAt(x, s))
    BY <1>1, <1>2, <1>3, <1>5, RecordExact
  <1>7. s + 0 = s /\ ~(0 > Limit)
    BY <1>1
  <1> HIDE DEF s
  <1>8. [d EXCEPT !.current = Unjoined(@)] = u
    BY DEF c
  <1> QED BY <1>2, <1>3, <1>4, <1>6, <1>7, <1>8 DEF Renewed, s

\* The event takes the record to a sequence: what it is.
Sets(e) == e.kind \in {"checkpoint", "output"}
Reach(e) == IF e.kind = "checkpoint" THEN e.seq ELSE e.to

\* The record tells of a gap, and no transfer can close it.
Tells(c) == c.gap /\ c.manifest = None

\* Where event e takes record c: it is u then.
TakesTo(c, e, u) ==
    /\ Sets(e) => u.seq = Reach(e)
    /\ e.kind = "synced" => u.seq = c.seq
    /\ e.kind = "resize" => Tells(u)

\* Every event that is neither ignored nor refused: the record in memory lacks
\* only the rows that are to be appended.
LEMMA UpdatedExact ==
    ASSUME NEW x \in Nat \cup {None}, NEW m, NEW d \in Work, Exact(x, m, d), NEW e \in Event,
           EventSound(x, m, e), NEW has \in BOOLEAN, ~has => d.current.seq = 0,
           ~Ignored(d.current, has, e), ~Refused(d, e)
    PROVE  /\ TakesTo(d.current, e, Updated(d, e).current)
           /\ \E p \in Nat, n \in Nat :
                Renewed(x, m, Updated(d, e), p, n) /\ Scrolled(d.current, e) = Rows(p, p + n)
  <1> DEFINE s == d.current.seq
             u == Updated(d, e).current
  <1>1. e.kind \in {"checkpoint", "synced", "output", "resize"} /\ s \in Nat
    BY DEF Event, Work, Record, Current
  <1>2. ASSUME NEW p \in Nat, Renewed(x, m, Updated(d, e), p, 0), Scrolled(d.current, e) = <<>>
        PROVE  \E q \in Nat, n \in Nat :
                 Renewed(x, m, Updated(d, e), q, n) /\ Scrolled(d.current, e) = Rows(q, q + n)
    <2>1. Rows(p, p) = <<>> /\ p + 0 = p
      BY NoRows
    <2> QED BY <1>2, <2>1
  <1>3. CASE e.kind = "checkpoint"
    <2>1. Renewed(x, m, Updated(d, e), e.seq, 0) /\ Scrolled(d.current, e) = <<>> /\ e.seq \in Nat
      BY <1>3, CheckpointExact DEF Updated, Scrolled, Event
    <2>2. TakesTo(d.current, e, u)
      BY <1>3, <2>1 DEF TakesTo, Sets, Reach, Renewed
    <2> QED BY <1>2, <2>1, <2>2
  <1>4. CASE e.kind = "synced"
    <2>1. Renewed(x, m, Updated(d, e), s, 0) /\ Scrolled(d.current, e) = <<>>
      BY <1>4, TransferExact DEF Updated, Scrolled
    <2>2. TakesTo(d.current, e, u)
      BY <1>1, <1>4, <2>1 DEF TakesTo, Sets, Renewed
    <2> QED BY <1>1, <1>2, <2>1, <2>2
  <1>5. ASSUME e.kind \in {"output", "resize"}
        PROVE  /\ BoundLegacy(d) \in Work /\ BoundLegacy(d).current.seq = s
               /\ ExactAt(BoundLegacy(d), s, BaseAt(x, s)) /\ Pinned(x, m, BoundLegacy(d).current)
    <2>1. BaseAt(x, s) \in Nat /\ ExactAt(d, s, BaseAt(x, s))
      BY <1>1, BaseTyped DEF Exact
    <2>2. d.current.version = 1 => Intact(d)
      BY <1>5 DEF Refused
    <2>3. /\ BoundLegacy(d) \in Work /\ ExactAt(BoundLegacy(d), s, BaseAt(x, s))
          /\ Kin(d.current, BoundLegacy(d).current)
      BY <1>1, <2>1, <2>2, LegacyExact
    <2>4. Pinned(x, m, d.current)
      BY DEF Exact
    <2> QED BY <2>3, <2>4 DEF Kin, Pinned
  <1>6. CASE e.kind = "resize"
    <2> DEFINE b == BoundLegacy(d)
    <2>1. /\ b \in Work /\ b.current.seq = s /\ ExactAt(b, s, BaseAt(x, s))
      BY <1>5, <1>6
    <2>2. Updated(d, e) = [b EXCEPT !.current = Unjoined(@)] /\ Scrolled(d.current, e) = <<>>
      BY <1>6 DEF Updated, Scrolled
    <2> HIDE DEF b
    <2>3. Renewed(x, m, Updated(d, e), s, 0)
      <3>1. ExactAt(b, b.current.seq, BaseAt(x, b.current.seq))
        BY <2>1
      <3>2. Renewed(x, m, [b EXCEPT !.current = Unjoined(@)], b.current.seq, 0)
        BY <2>1, <3>1, ResizeExact
      <3> QED BY <2>1, <2>2, <3>2
    <2>4. Tells(u)
      <3>1. u = Unjoined(b.current) /\ b.current \in Record
        BY <2>1, <2>2 DEF Work
      <3> QED BY <3>1, RecordsKin DEF Tells
    <2>5. TakesTo(d.current, e, u)
      BY <1>6, <2>4 DEF TakesTo, Sets
    <2> QED BY <1>1, <1>2, <2>2, <2>3, <2>5
  <1>7. CASE e.kind = "output"
    <2> DEFINE b == BoundLegacy(d)
    <2>1. /\ b \in Work /\ b.current.seq = s /\ ExactAt(b, s, BaseAt(x, s)) /\ Pinned(x, m, b.current)
      BY <1>5, <1>7
    <2>2. Updated(d, e) = WithOutput(b, e)
      BY <1>7 DEF Updated
    <2> HIDE DEF b
    <2>3. e.from \in Nat /\ e.to \in Nat /\ e.clear \in BOOLEAN
      BY <1>7 DEF Event
    <2>4. e.from <= s /\ s < e.to
      <3>1. ~(e.from > s) /\ ~(has /\ e.to <= s)
        BY <1>7 DEF Refused, Ignored
      <3>2. e.from < e.to
        BY <1>7 DEF EventSound
      <3>3. CASE has
        BY <1>1, <2>3, <3>1, <3>3
      <3>4. CASE ~has
        BY <1>1, <2>3, <3>1, <3>2, <3>4
      <3> QED BY <3>3, <3>4
    <2>5. u.seq = e.to => TakesTo(d.current, e, u)
      BY <1>7 DEF TakesTo, Sets, Reach
    <2>6. CASE e.clear
      <3>1. x = e.from /\ e.to = e.from + 1
        BY <1>7, <2>6 DEF EventSound
      <3>2. BaseAt(x, e.to) = e.to
        <4>1. x # None /\ e.to > x
          BY <2>3, <3>1, SessionCacheAssumption
        <4> QED BY <3>1, <4>1 DEF BaseAt
      <3>3. Renewed(x, m, Updated(d, e), e.to, 0)
        BY <1>7, <2>1, <2>2, <2>6, <3>2, ClearExact
      <3>4. Scrolled(d.current, e) = <<>>
        BY <2>6 DEF Scrolled
      <3>5. u.seq = e.to
        BY <2>3, <3>3 DEF Renewed
      <3> QED BY <1>2, <2>3, <2>5, <3>3, <3>4, <3>5
    <2>7. CASE ~e.clear
      <3>1. x # None => x < e.from \/ x >= e.to
        BY <1>7, <2>7 DEF EventSound
      <3>2. BaseAt(x, s) = BaseAt(x, e.to)
        <4>1. CASE x = None
          BY <4>1 DEF BaseAt
        <4>2. CASE x # None
          <5>1. x \in Nat
            BY <4>2
          <5>2. s > x <=> e.to > x
            BY <1>1, <2>3, <2>4, <3>1, <4>2, <5>1
          <5> QED BY <5>2 DEF BaseAt
        <4> QED BY <4>1, <4>2
      <3> DEFINE n == e.to - s
      <3>3. n \in Nat /\ s + n = e.to
        BY <1>1, <2>3, <2>4
      <3>4. Scrolled(d.current, e) = Rows(s, e.to)
        BY <1>7, <2>7 DEF Scrolled
      <3> HIDE DEF n
      <3>5. Renewed(x, m, Updated(d, e), s, n)
        <4>1. b.current.seq < e.to /\ b.current.seq + n = e.to
          BY <2>1, <2>4, <3>3
        <4>2. Renewed(x, m, WithOutput(b, e), b.current.seq, n)
          BY <1>7, <2>1, <2>7, <3>2, <3>3, <4>1, OutputExact
        <4> QED BY <2>1, <2>2, <4>2
      <3>6. u.seq = e.to
        BY <3>3, <3>5 DEF Renewed
      <3> QED BY <1>1, <2>5, <3>3, <3>4, <3>5, <3>6
    <2> QED BY <2>3, <2>6, <2>7
  <1> QED BY <1>1, <1>3, <1>4, <1>6, <1>7

\* The rows are appended, and the history is exact.
LEMMA AppendedExact ==
    ASSUME NEW x \in Nat \cup {None}, NEW m, NEW u, NEW p \in Nat, NEW n \in Nat,
           Renewed(x, m, u, p, n), NEW rows, rows = Newest(Rows(p, p + n), Limit),
           InPlace(u, rows) => Intact(u)
    PROVE  /\ AppendHistory(u, rows) \in Work /\ Exact(x, m, AppendHistory(u, rows))
           /\ Kin(u.current, AppendHistory(u, rows).current)
  <1> DEFINE w == AppendHistory(u, rows)
             b == BaseAt(x, p + n)
  <1>1. p + n \in Nat /\ b \in Nat /\ Limit \in Nat
    <2>1. p + n \in Nat
      OBVIOUS
    <2> QED BY <2>1, BaseTyped, SessionCacheAssumption
  <1>2. u \in Work /\ ExactAt(u, p, b) /\ (n > Limit => u.current.gap) /\ u.current.seq = p + n
        /\ Pinned(x, m, u.current)
    BY DEF Renewed
  <1>3. rows \in Seq(Nat)
    BY <1>1, RowsTyped, NewestTyped
  <1>4. ExactAt(w, p + n, b) /\ w \in Work /\ Kin(u.current, w.current)
    <2> HIDE DEF b
    <2> QED BY <1>1, <1>2, <1>3, AppendExact
  <1> HIDE DEF w
  <1>5. w.current.seq = p + n /\ Pinned(x, m, w.current)
    BY <1>2, <1>4 DEF Kin, Pinned
  <1> QED BY <1>2, <1>4, <1>5 DEF Exact, w

(***************************************************************************)
(* Disks whose histories are exact.                                         *)
(***************************************************************************)
\* w shows the rows of d, if it shows them all, and tells of what d tells of.
Likewise(d, w) ==
    /\ d \in Work /\ w \in Work
    /\ SameRange(d.current, w.current) /\ w.current.seq = d.current.seq
    /\ w.current.manifest \in {d.current.manifest, None}
    /\ ShownGap(d.current) => ShownGap(w.current)
    /\ Intact(w) => Intact(d) /\ History(w) = History(d)

\* What shows the same rows is as exact.
LEMMA LikewiseExact ==
    ASSUME NEW x, NEW m, NEW d, NEW w, Likewise(d, w), Exact(x, m, d)
    PROVE  Exact(x, m, w)
  <1>1. Framed(w.current)
    BY DEF Likewise, Exact, ExactAt, Framed, SameRange
  <1>2. ExactAt(w, w.current.seq, BaseAt(x, w.current.seq))
    BY <1>1 DEF Likewise, Exact, ExactAt, SameRange
  <1>3. Pinned(x, m, w.current)
    BY DEF Likewise, Exact, Pinned
  <1> QED BY <1>2, <1>3 DEF Exact

\* Files that were written.
LEMMA FilesLikewise ==
    ASSUME NEW d \in Work, NEW G \in Files, Preserves(d.current, d.files, G)
    PROVE  Likewise(d, [d EXCEPT !.files = G])
  <1> DEFINE w == [d EXCEPT !.files = G]
  <1>1. w \in Work /\ w.files = G /\ w.current = d.current
    BY DEF Work
  <1>2. Content(d) = At(d.files, d.current.file) /\ Content(w) = At(G, d.current.file)
    BY <1>1 DEF Content, At
  <1>3. Intact(w) => Intact(d)
    BY <1>1, <1>2 DEF Intact, Preserves
  <1>4. Intact(d) => History(w) = History(d)
    BY ReadAsBefore
  <1> HIDE DEF w
  <1> QED BY <1>1, <1>3, <1>4 DEF Likewise, SameRange, w

\* Another record.
LEMMA RecordLikewise ==
    ASSUME NEW d \in Work, NEW c \in Record, SameRange(d.current, c), c.seq = d.current.seq,
           c.manifest \in {d.current.manifest, None}, ShownGap(d.current) => ShownGap(c)
    PROVE  Likewise(d, [d EXCEPT !.current = c])
  <1> DEFINE w == [d EXCEPT !.current = c]
  <1>1. w \in Work /\ w.current = c /\ w.files = d.files
    BY Recorded
  <1> HIDE DEF w
  <1>2. Content(w) = Content(d)
    BY <1>1 DEF Content, SameRange
  <1>3. Intact(w) = Intact(d) /\ History(w) = History(d)
    BY <1>1, <1>2 DEF Intact, History, SameRange
  <1> QED BY <1>1, <1>3 DEF Likewise, w

\* A copy.
LEMMA CopyLikewise ==
    ASSUME NEW d \in Directory, Found(d)
    PROVE  Likewise(d, Copy(d))
  <1>1. /\ Copy(d) \in Directory /\ Found(Copy(d)) /\ Copy(d).current = d.current
        /\ Intact(Copy(d)) = Intact(d) /\ History(Copy(d)) = History(d)
    BY Copied
  <1>2. d \in Work /\ Copy(d) \in Work
    BY <1>1, FoundWork
  <1> QED BY <1>1, <1>2 DEF Likewise, SameRange

\* The record of a terminal that has none is exact.
LEMMA NewExact ==
    ASSUME NEW x \in Nat \cup {None}, NEW m, NEW d \in Work, d.current = NewCurrent
    PROVE  Exact(x, m, d)
  <1>1. /\ d.current.file = None /\ d.current.start = 0 /\ d.current.end = 0 /\ d.current.seq = 0
        /\ d.current.manifest = None
    BY DEF NewCurrent
  <1>2. Framed(d.current)
    BY <1>1 DEF Framed
  <1>3. History(d) = <<>>
    BY <1>1, <1>2, NoFileNoHistory
  <1>4. BaseAt(x, 0) = 0
    <2>1. CASE x = None
      BY <2>1 DEF BaseAt
    <2>2. CASE x # None
      BY <2>2 DEF BaseAt
    <2> QED BY <2>1, <2>2
  <1>5. EndsAt(History(d), 0)
    BY <1>3, NoRows
  <1>6. ExactAt(d, 0, 0)
    BY <1>1, <1>2, <1>5 DEF ExactAt
  <1> QED BY <1>1, <1>4, <1>6 DEF Exact, Pinned

\* All that can be read on a disk is exact.
DiskExact(x, m, k) == \A d \in {k.live, k.archived, k.previous} : Found(d) => Exact(x, m, d)

Fine(x, m) == {k \in Good : DiskExact(x, m, k)}

\* The live directory is another one, and exact.
LEMMA LiveFine ==
    ASSUME NEW x, NEW m, NEW k, DiskExact(x, m, k), NEW w,
           w.archived = k.archived, w.previous = k.previous, Found(w.live) => Exact(x, m, w.live)
    PROVE  DiskExact(x, m, w)
  BY DEF DiskExact

\* Data files are written.
LEMMA FilesFine ==
    ASSUME NEW x, NEW m, NEW k \in Open, DiskExact(x, m, k), NEW G \in Files,
           Found(k.live) => Preserves(k.live.current, k.live.files, G)
    PROVE  [k EXCEPT !.live.files = G] \in Fine(x, m)
  <1> DEFINE d == [k.live EXCEPT !.files = G]
             w == [k EXCEPT !.live.files = G]
  <1>1. k \in Disk /\ k.live \in Directory /\ k.live.exists
    BY DiskTyped DEF Open, Good
  <1>2. w = [k EXCEPT !.live = d]
    BY <1>1
  <1>3. d \in Directory /\ d.current = k.live.current
    BY <1>1 DEF Directory
  <1>4. w \in Open
    BY FilesWritten
  <1>5. Found(d) => Exact(x, m, d)
    <2> SUFFICES ASSUME Found(d) PROVE Exact(x, m, d)
      OBVIOUS
    <2>1. Found(k.live)
      BY <1>3 DEF Found
    <2>2. k.live \in Work /\ Exact(x, m, k.live)
      BY <1>1, <2>1, FoundWork DEF DiskExact
    <2>3. Likewise(k.live, d)
      BY <2>1, <2>2, FilesLikewise
    <2> QED BY <2>2, <2>3, LikewiseExact
  <1> HIDE DEF d
  <1>6. w.live = d /\ w.archived = k.archived /\ w.previous = k.previous
    <2> HIDE DEF w
    <2>1. k \in Disk /\ d \in Directory /\ w = [k EXCEPT !.live = d]
      BY <1>1, <1>2, <1>3
    <2> QED BY <2>1, LiveReplaced
  <1> HIDE DEF w
  <1>7. DiskExact(x, m, w)
    BY <1>5, <1>6, LiveFine
  <1> QED BY <1>4, <1>7 DEF Fine, Open, w

\* A record is committed.
LEMMA CommitFine ==
    ASSUME NEW x, NEW m, NEW k \in Open, DiskExact(x, m, k), NEW c \in Record,
           Exact(x, m, [k.live EXCEPT !.current = c])
    PROVE  Commit(k, c) \in Fine(x, m)
  <1> DEFINE d == [k.live EXCEPT !.current = c]
             w == Commit(k, c)
  <1>1. w \in Open /\ w.live = d
    BY Committed
  <1>2. w = [k EXCEPT !.live = d, !.saved = View(d)]
    BY DEF Commit
  <1>3. k \in Disk
    BY DEF Open, Good
  <1> HIDE DEF d
  <1>4. w.archived = k.archived /\ w.previous = k.previous
    BY <1>2, <1>3 DEF Disk
  <1> HIDE DEF w
  <1>5. DiskExact(x, m, w)
    BY <1>1, <1>4, LiveFine DEF d
  <1> QED BY <1>1, <1>5 DEF Fine, Open, w

\* A record is committed and the files that it does not need are removed.
LEMMA SavedFine ==
    ASSUME NEW x, NEW m, NEW k \in Open, DiskExact(x, m, k), NEW c \in Record,
           Exact(x, m, [k.live EXCEPT !.current = c])
    PROVE  Saved(k, c) \in Seq(Fine(x, m))
  <1> DEFINE committed == Commit(k, c)
             d == Copy(committed.live)
             cleaned == [committed EXCEPT !.live = d]
  <1>1. committed \in Fine(x, m) /\ committed \in Open /\ Found(committed.live)
    BY CommitFine, Committed
  <1>2. Saved(k, c) = <<committed, cleaned>>
    BY DEF Saved
  <1>3. Saved(k, c) \in Seq(Good)
    BY SavedGood
  <1> HIDE DEF committed
  <1>4. committed \in Disk /\ committed.live \in Directory /\ DiskExact(x, m, committed)
    BY <1>1, DiskTyped DEF Open, Good, Fine
  <1>5. d \in Directory
    BY <1>1, <1>4, Copied
  <1>6. Exact(x, m, d)
    <2>1. Exact(x, m, committed.live)
      BY <1>1, <1>4 DEF DiskExact
    <2>2. Likewise(committed.live, d)
      BY <1>1, <1>4, CopyLikewise
    <2> QED BY <2>1, <2>2, LikewiseExact
  <1> HIDE DEF d
  <1>7. cleaned.live = d /\ cleaned.archived = committed.archived /\ cleaned.previous = committed.previous
    BY <1>4, <1>5, LiveReplaced
  <1> HIDE DEF cleaned
  <1>8. DiskExact(x, m, cleaned)
    BY <1>4, <1>6, <1>7, LiveFine
  <1>9. cleaned \in Good
    <2>1. <<committed, cleaned>> \in Seq(Good)
      BY <1>2, <1>3
    <2> QED BY <2>1
  <1>10. cleaned \in Fine(x, m)
    BY <1>8, <1>9 DEF Fine
  <1> QED BY <1>1, <1>2, <1>10

\* An archive that was being replaced is put back.
LEMMA RecoverFine ==
    ASSUME NEW x, NEW m, NEW k \in Fine(x, m)
    PROVE  RecoverArchive(k) \in Fine(x, m)
  <1> DEFINE w == RecoverArchive(k)
  <1>1. k \in Good /\ DiskExact(x, m, k)
    BY DEF Fine
  <1>2. /\ w \in Good /\ w.live = k.live /\ w.archived \in {k.archived, k.previous}
        /\ w.previous = NoDirectory
    BY <1>1, Recovers
  <1> HIDE DEF w
  <1>3. DiskExact(x, m, w)
    BY <1>1, <1>2, EmptyTyped DEF DiskExact
  <1> QED BY <1>2, <1>3 DEF Fine, w

\* The session is opened.
LEMMA ResumeFine ==
    ASSUME NEW x, NEW m, NEW k \in Fine(x, m), ~k.previous.exists
    PROVE  Resume(k) \in Fine(x, m)
  <1> DEFINE d == CASE k.live.exists -> k.live
                    [] ~k.live.exists /\ Found(k.archived) -> Copy(k.archived)
                    [] OTHER -> EmptyDirectory
             w == Resume(k)
  <1>1. k \in Good /\ k \in Disk /\ DiskExact(x, m, k)
    BY DEF Fine, Good
  <1>2. k.archived \in Directory /\ k.live \in Directory /\ k.live.exists \in BOOLEAN
    BY <1>1, DiskTyped DEF Directory
  <1>3. w = [k EXCEPT !.live = d]
    BY DEF Resume
  <1>4. w \in Good
    BY <1>1, Resumes
  <1>5. d \in Directory /\ (Found(d) => Exact(x, m, d))
    <2>1. CASE k.live.exists
      BY <1>1, <1>2, <2>1 DEF DiskExact
    <2>2. CASE ~k.live.exists /\ Found(k.archived)
      <3>1. d = Copy(k.archived)
        BY <2>2
      <3>2. Likewise(k.archived, Copy(k.archived)) /\ Copy(k.archived) \in Directory
        BY <1>2, <2>2, Copied, CopyLikewise
      <3>3. Exact(x, m, k.archived)
        BY <1>1, <2>2 DEF DiskExact
      <3> HIDE DEF d
      <3> QED BY <3>1, <3>2, <3>3, LikewiseExact
    <2>3. CASE ~k.live.exists /\ ~Found(k.archived)
      <3>1. d = EmptyDirectory
        BY <2>3
      <3> HIDE DEF d
      <3> QED BY <3>1, EmptyTyped
    <2> QED BY <1>2, <2>1, <2>2, <2>3
  <1> HIDE DEF d
  <1>6. w.live = d /\ w.archived = k.archived /\ w.previous = k.previous
    BY <1>1, <1>3, <1>5, LiveReplaced
  <1> HIDE DEF w
  <1>7. DiskExact(x, m, w)
    BY <1>1, <1>5, <1>6, LiveFine
  <1> QED BY <1>4, <1>7 DEF Fine, w

\* The disk that apply has opened, the record that it has read, and the
\* directory that it works on.
SessionAt == Last(Opened(disk))
ReadRecord == Opened(disk)[3].live.current
Start == [SessionAt.live EXCEPT !.current = IF ReadRecord # None THEN ReadRecord ELSE NewCurrent]

\* A legacy record that says that it was preserved is as exact.
LEMMA PreservedLikewise ==
    ASSUME NEW d \in Work, NEW c \in Record,
           c = [d.current EXCEPT !.preserved = TRUE] \/ d.current = [c EXCEPT !.preserved = TRUE]
    PROVE  Likewise(d, [d EXCEPT !.current = c])
  <1>1. SameRange(d.current, c) /\ c.seq = d.current.seq /\ c.manifest = d.current.manifest
        /\ (ShownGap(d.current) => ShownGap(c))
    <2>1. d.current \in Record
      BY DEF Work
    <2>2. CASE c = [d.current EXCEPT !.preserved = TRUE]
      BY <2>1, <2>2 DEF SameRange, ShownGap, Record, Current
    <2>3. CASE d.current = [c EXCEPT !.preserved = TRUE]
      BY <2>1, <2>3 DEF SameRange, ShownGap, Record, Current
    <2> QED BY <2>2, <2>3
  <1> QED BY <1>1, RecordLikewise

\* An event finds exact histories.
LEMMA OpensFine ==
    ASSUME NEW x \in Nat \cup {None}, NEW m, disk \in Fine(x, m)
    PROVE  /\ Opened(disk) \in Seq(Fine(x, m)) /\ SessionAt \in Fine(x, m)
           /\ Start \in Work /\ Exact(x, m, Start)
  <1> DEFINE recovered == RecoverArchive(disk)
             resumed == Resume(recovered)
             copied == Preserve(resumed)
             marked0 == MarkPreserved(copied)
             cond == Legacy(resumed) /\ (~resumed.live.current.preserved \/ resumed.preserved = None)
             opened == Opened(disk)
  <1>1. disk \in Good
    BY DEF Fine
  <1>2. recovered \in Fine(x, m) /\ ~recovered.previous.exists
    BY <1>1, RecoverFine, Recovers, EmptyTyped
  <1>3. opened = <<disk, recovered, resumed>>
                   \o (IF cond THEN <<copied, marked0>> ELSE <<>>)
    BY DEF Opened
  <1> HIDE DEF recovered
  <1>4. resumed \in Fine(x, m) /\ resumed.live.exists /\ resumed \in Good
    BY <1>2, ResumeFine, Resumes DEF Fine
  <1> HIDE DEF resumed
  <1>5. resumed.live \in Directory /\ DiskExact(x, m, resumed)
    BY <1>4, DiskTyped DEF Fine, Good
  <1>6. /\ SessionAt \in Open
        /\ ReadRecord = None <=> ~Found(SessionAt.live)
        /\ ReadRecord # None => /\ ReadRecord \in Record
                                /\ SessionAt.live.current \in
                                     {ReadRecord, [ReadRecord EXCEPT !.preserved = TRUE]}
    BY <1>1, OpensSession DEF SessionAt, ReadRecord
  <1>7. opened \in Seq(Fine(x, m)) /\ SessionAt \in Fine(x, m)
    <2>1. CASE ~cond
      <3>1. opened = <<disk, recovered, resumed>> \o <<>>
        BY <1>3, <2>1
      <3>2. <<disk, recovered, resumed>> \in Seq(Fine(x, m))
        BY <1>2, <1>4
      <3>3. opened \in Seq(Fine(x, m)) /\ Len(opened) = 3 /\ opened[3] = resumed
        BY <3>1, <3>2
      <3>4. SessionAt = resumed
        BY <3>3 DEF SessionAt, Last
      <3> QED BY <1>4, <3>3, <3>4
    <2>2. CASE cond
      <3>1. copied \in Open /\ copied.live = resumed.live /\ Found(resumed.live)
        BY <1>4, <2>2, Preserved DEF Legacy
      <3>2. resumed \in Disk /\ copied = [resumed EXCEPT !.preserved =
               IF @ # None THEN @ ELSE IF Intact(resumed.live) THEN History(resumed.live) ELSE <<>>]
        BY <1>4 DEF Good, Preserve
      <3>3. copied.archived = resumed.archived /\ copied.previous = resumed.previous
        BY <3>2 DEF Disk
      <3> HIDE DEF copied
      <3>4. DiskExact(x, m, copied)
        BY <1>5, <3>1, <3>3, LiveFine DEF DiskExact
      <3>5. copied \in Fine(x, m)
        BY <3>1, <3>4 DEF Fine, Open
      <3> DEFINE c == [copied.live.current EXCEPT !.preserved = TRUE]
      <3>6. copied.live \in Work /\ Exact(x, m, copied.live)
        BY <1>5, <3>1, FoundWork DEF DiskExact
      <3>7. c \in Record
        BY <3>6 DEF Work, Record, Current
      <3>8. marked0 = Commit(copied, c)
        BY DEF MarkPreserved
      <3>9. Likewise(copied.live, [copied.live EXCEPT !.current = c])
        BY <3>6, <3>7, PreservedLikewise
      <3> HIDE DEF c, marked0
      <3>10. Exact(x, m, [copied.live EXCEPT !.current = c])
        BY <3>6, <3>9, LikewiseExact
      <3>11. marked0 \in Fine(x, m)
        BY <3>1, <3>4, <3>7, <3>8, <3>10, CommitFine
      <3>12. opened = <<disk, recovered, resumed>> \o <<copied, marked0>>
        BY <1>3, <2>2
      <3>13. <<disk, recovered, resumed>> \in Seq(Fine(x, m)) /\ <<copied, marked0>> \in Seq(Fine(x, m))
        BY <1>2, <1>4, <3>5, <3>11
      <3>14. opened \in Seq(Fine(x, m)) /\ Len(opened) = 5 /\ opened[5] = marked0
        BY <3>12, <3>13
      <3>15. SessionAt = marked0
        BY <3>14 DEF SessionAt, Last
      <3> QED BY <3>11, <3>14, <3>15
    <2> QED BY <2>1, <2>2
  <1> HIDE DEF opened
  <1>8. SessionAt.live \in Directory /\ DiskExact(x, m, SessionAt)
    BY <1>7, DiskTyped DEF Fine, Good
  <1>9. Start \in Work /\ Exact(x, m, Start)
    <2>1. CASE ReadRecord = None
      <3>1. Start = [SessionAt.live EXCEPT !.current = NewCurrent]
        BY <2>1 DEF Start
      <3>2. Start \in Work /\ Start.current = NewCurrent
        BY <1>8, <3>1, NewTyped DEF Directory, Work
      <3> QED BY <3>2, NewExact
    <2>2. CASE ReadRecord # None
      <3>1. Start = [SessionAt.live EXCEPT !.current = ReadRecord]
        BY <2>2 DEF Start
      <3>2. SessionAt.live \in Work /\ Exact(x, m, SessionAt.live)
        BY <1>6, <1>8, <2>2, FoundWork DEF DiskExact
      <3>3. CASE SessionAt.live.current = ReadRecord
        <4>1. Start = SessionAt.live
          BY <3>1, <3>2, <3>3 DEF Work
        <4> QED BY <3>2, <4>1
      <3>4. CASE SessionAt.live.current = [ReadRecord EXCEPT !.preserved = TRUE]
        <4>1. Likewise(SessionAt.live, Start)
          BY <1>6, <2>2, <3>1, <3>2, <3>4, PreservedLikewise
        <4> QED BY <3>2, <4>1, LikewiseExact DEF Likewise
      <3> QED BY <1>6, <2>2, <3>3, <3>4
    <2> QED BY <2>1, <2>2
  <1> QED BY <1>7, <1>9 DEF opened

\* What apply makes of an event: the record in memory, the rows that are appended
\* to it, and both together.
Changing(e) == Updated(Start, e)
Appending(e) == Newest(Scrolled(Start.current, e), Limit)
Resulting(e) == AppendHistory(Changing(e), Appending(e))

Skips(e) == Ignored(Start.current, ReadRecord # None, e)
Stuck(e) == InPlace(Changing(e), Appending(e)) /\ ~Intact(Changing(e))

\* The disk when apply has written its files.
Midway(e) == [SessionAt EXCEPT !.live.files = Changing(e).files]
Whole(e) == [SessionAt EXCEPT !.live.files = Resulting(e).files]

\* apply, step by step.
LEMMA ApplyIs ==
    ASSUME NEW e
    PROVE  Apply(disk, e) =
             CASE Skips(e) -> [ok |-> TRUE, steps |-> Opened(disk)]
               [] ~Skips(e) /\ Refused(Start, e) -> [ok |-> FALSE, steps |-> Opened(disk)]
               [] OTHER ->
                    IF Stuck(e) THEN [ok |-> FALSE, steps |-> Append(Opened(disk), Midway(e))]
                    ELSE [ok |-> TRUE,
                          steps |-> Append(Opened(disk), Midway(e))
                                      \o Partly(Midway(e), Changing(e), Appending(e))
                                      \o <<Whole(e)>> \o Saved(Whole(e), Resulting(e).current)]
  BY DEF Apply, Skips, Stuck, Midway, Whole, Resulting, Changing, Appending, Start, SessionAt, ReadRecord

\* The files of the disk preserve the record on it through the whole of apply.
LEMMA ApplyParts ==
    ASSUME disk \in Good, NEW e \in Event, ~Refused(Start, e)
    PROVE  /\ SessionAt \in Open /\ Start \in Work
           /\ Start.files = SessionAt.live.files
           /\ Appending(e) \in Seq(Nat)
           /\ Changing(e) \in Work
           /\ Found(SessionAt.live) =>
                /\ Preserves(SessionAt.live.current, SessionAt.live.files, Changing(e).files)
                /\ Behind(SessionAt.live.current, Changing(e))
           /\ ~Stuck(e) =>
                /\ Resulting(e) \in Work
                /\ Found(SessionAt.live) =>
                     Preserves(SessionAt.live.current, SessionAt.live.files, Resulting(e).files)
  <1> DEFINE at == SessionAt
             read == ReadRecord
             before == Start
             updated == Changing(e)
             rows == Appending(e)
             appended == Resulting(e)
  <1>1. /\ at \in Open
        /\ read = None <=> ~Found(at.live)
        /\ read # None => /\ read \in Record /\ read.file \in Named
                          /\ at.live.current \in {read, [read EXCEPT !.preserved = TRUE]}
    BY OpensSession DEF SessionAt, ReadRecord
  <1>2. before = [at.live EXCEPT !.current = IF read # None THEN read ELSE NewCurrent]
    BY DEF Start
  <1> HIDE DEF at, read, before
  <1>3. at.live \in Directory /\ at.live.exists /\ at.live.files \in Files
    BY <1>1, DiskTyped DEF Open, Good, Directory
  <1>4. before \in Work /\ before.files = at.live.files /\ (read # None => before.current = read)
    BY <1>1, <1>2, <1>3, NewTyped DEF Directory, Work
  <1>5. Found(at.live) => /\ at.live.current \in Record /\ at.live.current.file = read.file
                          /\ at.live.current.end = read.end /\ at.live.current.file \in Named
    BY <1>1 DEF Record, Current
  <1>6. rows \in Seq(Nat)
    <2>1. Scrolled(Start.current, e) \in Seq(Nat)
      BY <1>4, ScrolledTyped DEF Work, before
    <2> QED BY <2>1, NewestTyped, SessionCacheAssumption DEF Appending
  <1>7. Changed(before, updated)
    BY <1>4, EventChanges DEF Changing, before
  <1> HIDE DEF updated, rows
  <1>8. updated \in Work /\ updated.files \in Files
    BY <1>7 DEF Changed, Work
  <1>9. Found(at.live) => /\ Preserves(at.live.current, at.live.files, updated.files)
                          /\ Behind(at.live.current, updated)
    <2> SUFFICES ASSUME Found(at.live)
                 PROVE  /\ Preserves(at.live.current, at.live.files, updated.files)
                        /\ Behind(at.live.current, updated)
      OBVIOUS
    <2>1. Preserves(at.live.current, at.live.files, updated.files)
      BY <1>4, <1>5, <1>7, BeyondPreserves DEF Changed
    <2>2. before.current = read
      BY <1>1, <1>4
    <2>3. updated.current.file = at.live.current.file => updated.current.end = at.live.current.end
      BY <1>5, <1>7, <2>2 DEF Changed
    <2> QED BY <1>5, <2>1, <2>3 DEF Behind
  <1>10. ASSUME ~Stuck(e)
         PROVE  /\ appended \in Work
                /\ Found(at.live) => Preserves(at.live.current, at.live.files, appended.files)
    <2>1. InPlace(updated, rows) => Intact(updated)
      BY <1>10 DEF Stuck, updated, rows
    <2>2. appended = AppendHistory(updated, rows)
      BY DEF Resulting, updated, rows
    <2> HIDE DEF appended
    <2>3. /\ appended \in Work
          /\ \A c : Behind(c, updated) => Preserves(c, updated.files, appended.files)
      BY <1>6, <1>8, <2>1, <2>2, HistoryAppended
    <2> QED BY <1>5, <1>9, <2>3, PreservesTwice
  <1> QED BY <1>1, <1>4, <1>6, <1>8, <1>9, <1>10 DEF at, before, updated, rows, appended

\* Whatever part of an append was written, what can be read is exact.
LEMMA PartlyFine ==
    ASSUME NEW x, NEW m, NEW k \in Open, DiskExact(x, m, k), NEW d \in Work, NEW rows \in Seq(Nat),
           InPlace(d, rows) => Intact(d), d.files = k.live.files,
           Found(k.live) => Behind(k.live.current, d)
    PROVE  Partly(k, d, rows) \in Seq(Fine(x, m))
  <1>1. CASE ~InPlace(d, rows)
    BY <1>1 DEF Partly
  <1>2. CASE InPlace(d, rows)
    <2> DEFINE part(i) == SubSeq(rows, 1, i - 1)
               after(i) == [k EXCEPT !.live.files = Extend(d, part(i)).files]
    <2>1. Intact(d) /\ d.current.file # None
      BY <1>2 DEF InPlace, Work, Record
    <2>2. Len(rows) + 1 \in Nat
      OBVIOUS
    <2>3. ASSUME NEW i \in 1 .. Len(rows) + 1 PROVE after(i) \in Fine(x, m)
      <3>1. part(i) \in Seq(Nat)
        BY <2>3
      <3> HIDE DEF part
      <3>2. Extend(d, part(i)).files \in Files
        BY <2>1, <3>1, Extended DEF Work
      <3>3. Found(k.live) => Preserves(k.live.current, k.live.files, Extend(d, part(i)).files)
        BY <2>1, <3>1, ExtendPreserves
      <3> QED BY <3>2, <3>3, FilesFine
    <2>4. Partly(k, d, rows) = [i \in 1 .. Len(rows) + 1 |-> after(i)]
      BY <1>2 DEF Partly
    <2> HIDE DEF after
    <2> QED BY <2>2, <2>3, <2>4
  <1> QED BY <1>1, <1>2

\* After every step of apply, what can be read is exact; and if it saves the
\* event, so is what it saves.
LEMMA AppliesFine ==
    ASSUME NEW x \in Nat \cup {None}, NEW m, disk \in Fine(x, m), NEW e \in Event, EventSound(x, m, e)
    PROVE  Apply(disk, e).steps \in Seq(Fine(x, m)) /\ Apply(disk, e).steps # <<>>
  <1> DEFINE opened == Opened(disk)
             result == Apply(disk, e)
             last == Append(opened, Midway(e)) \o Partly(Midway(e), Changing(e), Appending(e))
                       \o <<Whole(e)>> \o Saved(Whole(e), Resulting(e).current)
             refused == Refused(Start, e)
  <1>1. result = CASE Skips(e) -> [ok |-> TRUE, steps |-> opened]
                   [] ~Skips(e) /\ refused -> [ok |-> FALSE, steps |-> opened]
                   [] OTHER -> IF Stuck(e) THEN [ok |-> FALSE, steps |-> Append(opened, Midway(e))]
                               ELSE [ok |-> TRUE, steps |-> last]
    BY ApplyIs
  <1>2. disk \in Good
    BY DEF Fine
  <1>3. result.steps # <<>>
    BY <1>2, AppliesWell
  <1>4. opened \in Seq(Fine(x, m)) /\ SessionAt \in Fine(x, m) /\ Start \in Work /\ Exact(x, m, Start)
    BY OpensFine
  <1> HIDE DEF opened, result
  <1>5. CASE Skips(e) \/ refused
    <2>1. result.steps = opened
      BY <1>1, <1>5
    <2> QED BY <1>3, <1>4, <2>1 DEF result
  <1>6. CASE ~Skips(e) /\ ~refused
    <2> DEFINE at == SessionAt
               u == Changing(e)
               rows == Appending(e)
               w == Resulting(e)
    <2>1. /\ at \in Open /\ Start.files = at.live.files /\ rows \in Seq(Nat) /\ u \in Work
          /\ Found(at.live) => /\ Preserves(at.live.current, at.live.files, u.files)
                               /\ Behind(at.live.current, u)
          /\ ~Stuck(e) => /\ w \in Work
                          /\ Found(at.live) => Preserves(at.live.current, at.live.files, w.files)
      BY <1>2, <1>6, ApplyParts
    <2>2. DiskExact(x, m, at)
      BY <1>4 DEF Fine
    <2>3. u.files \in Files
      BY <2>1 DEF Work
    <2>4. Midway(e) = [at EXCEPT !.live.files = u.files]
      BY DEF Midway
    <2>5. Whole(e) = [at EXCEPT !.live.files = w.files]
      BY DEF Whole
    <2> HIDE DEF at, u, rows, w
    <2>6. /\ Midway(e) \in Fine(x, m) /\ Midway(e) \in Open /\ Midway(e).live.files = u.files
          /\ Midway(e).live.current = at.live.current
      <3> DEFINE G == u.files
      <3>1. Found(at.live) => Preserves(at.live.current, at.live.files, G)
        BY <2>1
      <3>2. G \in Files /\ at \in Open
        BY <2>1, <2>3
      <3> HIDE DEF G
      <3>3. [at EXCEPT !.live.files = G] \in Fine(x, m)
        BY <2>2, <3>1, <3>2, FilesFine
      <3>4. /\ [at EXCEPT !.live.files = G] \in Open
            /\ [at EXCEPT !.live.files = G].live.files = G
            /\ [at EXCEPT !.live.files = G].live.current = at.live.current
        BY <3>1, <3>2, FilesWritten
      <3>5. Midway(e) = [at EXCEPT !.live.files = G]
        BY <2>4 DEF G
      <3> QED BY <3>3, <3>4, <3>5 DEF G
    <2>7. Append(opened, Midway(e)) \in Seq(Fine(x, m))
      BY <1>4, <2>6
    <2>8. CASE Stuck(e)
      <3>1. result.steps = Append(opened, Midway(e))
        BY <1>1, <1>6, <2>8
      <3> QED BY <1>3, <2>7, <3>1 DEF result
    <2>9. CASE ~Stuck(e)
      <3>1. result.steps = last
        BY <1>1, <1>6, <2>9
      <3>2. InPlace(u, rows) => Intact(u)
        BY <2>9 DEF Stuck, u, rows
      <3>3. Partly(Midway(e), u, rows) \in Seq(Fine(x, m))
        <4>1. DiskExact(x, m, Midway(e))
          BY <2>6 DEF Fine
        <4>2. Found(Midway(e).live) => Behind(Midway(e).live.current, u)
          BY <2>1, <2>6 DEF Found
        <4> QED BY <2>1, <2>6, <3>2, <4>1, <4>2, PartlyFine
      <3>4. w \in Work /\ w.files \in Files /\ w.current \in Record
        BY <2>1, <2>9 DEF Work
      <3>5. /\ Whole(e) \in Fine(x, m) /\ Whole(e) \in Open /\ Whole(e).live.files = w.files
        BY <2>1, <2>2, <2>5, <2>9, <3>4, FilesFine, FilesWritten
      <3>6. Exact(x, m, w)
        <4>1. \E p \in Nat, n \in Nat :
                Renewed(x, m, Updated(Start, e), p, n) /\ Scrolled(Start.current, e) = Rows(p, p + n)
          <5>1. (ReadRecord # None) \in BOOLEAN
            OBVIOUS
          <5>2. ~(ReadRecord # None) => Start.current.seq = 0
            <6> SUFFICES ASSUME ReadRecord = None PROVE Start.current.seq = 0
              OBVIOUS
            <6>1. SessionAt.live \in Directory
              BY <2>1, DiskTyped DEF Open, Good, at
            <6>2. Start.current = NewCurrent
              BY <6>1 DEF Start, Directory
            <6> QED BY <6>2 DEF NewCurrent
          <5>3. ~Ignored(Start.current, ReadRecord # None, e) /\ ~Refused(Start, e)
            BY <1>6 DEF Skips
          <5> DEFINE has == ReadRecord # None
          <5>4. has \in BOOLEAN /\ (~has => Start.current.seq = 0) /\ ~Ignored(Start.current, has, e)
            BY <5>1, <5>2, <5>3
          <5> HIDE DEF has
          <5> QED BY <1>4, <5>3, <5>4, UpdatedExact
        <4>2. PICK p \in Nat, n \in Nat :
                Renewed(x, m, Updated(Start, e), p, n) /\ Scrolled(Start.current, e) = Rows(p, p + n)
          BY <4>1
        <4>3. Renewed(x, m, u, p, n) /\ rows = Newest(Rows(p, p + n), Limit)
          BY <4>2 DEF u, rows, Changing, Appending
        <4>4. w = AppendHistory(u, rows)
          BY DEF w, u, rows, Resulting
        <4> QED BY <3>2, <4>3, <4>4, AppendedExact
      <3> DEFINE saved == [Whole(e).live EXCEPT !.current = w.current]
      <3>7. Whole(e).live \in Directory
        BY <3>5, DiskTyped DEF Open, Good
      <3>8. saved \in Work /\ saved.files = w.files /\ saved.current = w.current
        BY <3>4, <3>5, <3>7 DEF Directory, Work
      <3> HIDE DEF saved
      <3>9. Likewise(w, saved)
        <4>1. Content(saved) = Content(w)
          BY <3>8 DEF Content
        <4>2. Intact(saved) = Intact(w) /\ History(saved) = History(w)
          BY <3>8, <4>1 DEF Intact, History
        <4> QED BY <3>4, <3>8, <4>2 DEF Likewise, SameRange
      <3>10. Exact(x, m, saved)
        BY <3>6, <3>9, LikewiseExact
      <3>11. Saved(Whole(e), w.current) \in Seq(Fine(x, m))
        <4>1. DiskExact(x, m, Whole(e))
          BY <3>5 DEF Fine
        <4> QED BY <3>4, <3>5, <3>10, <4>1, SavedFine DEF saved
      <3>12. <<Whole(e)>> \in Seq(Fine(x, m))
        BY <3>5
      <3>13. Append(opened, Midway(e)) \o Partly(Midway(e), u, rows) \in Seq(Fine(x, m))
        BY <2>7, <3>3, Joined
      <3>14. Append(opened, Midway(e)) \o Partly(Midway(e), u, rows) \o <<Whole(e)>> \in Seq(Fine(x, m))
        BY <3>12, <3>13, Joined
      <3>15. last \in Seq(Fine(x, m))
        BY <3>11, <3>14, Joined DEF u, rows, w
      <3> QED BY <1>3, <3>1, <3>15 DEF result
    <2> QED BY <2>8, <2>9
  <1> QED BY <1>5, <1>6

\* mark_history_gap.
LEMMA MarkFine ==
    ASSUME NEW x, NEW m, NEW k \in Fine(x, m), Found(k.live)
    PROVE  MarkHistoryGap(k) \in Fine(x, m)
  <1> DEFINE c == [Unjoined(k.live.current) EXCEPT !.synced = FALSE]
             d == [k.live EXCEPT !.current = c]
             w == MarkHistoryGap(k)
  <1>1. k \in Good /\ k \in Disk /\ DiskExact(x, m, k)
    BY DEF Fine, Good
  <1>2. k.live \in Work /\ Exact(x, m, k.live)
    BY <1>1, DiskTyped, FoundWork DEF DiskExact
  <1>3. /\ c \in Record /\ SameRange(k.live.current, c) /\ c.seq = k.live.current.seq
        /\ c.manifest = None /\ c.gap
    BY <1>2 DEF Work, Unjoined, Record, Current, SameRange
  <1>4. w = [k EXCEPT !.live = d, !.saved = View(d)]
    BY DEF MarkHistoryGap, Commit
  <1>5. w \in Good
    BY <1>1, MarksWell
  <1> HIDE DEF c
  <1>6. ShownGap(c)
    BY <1>3 DEF ShownGap
  <1>7. Likewise(k.live, d)
    BY <1>2, <1>3, <1>6, RecordLikewise
  <1> HIDE DEF d
  <1>8. Exact(x, m, d)
    BY <1>2, <1>7, LikewiseExact
  <1>9. w.live = d /\ w.archived = k.archived /\ w.previous = k.previous
    BY <1>1, <1>4 DEF Disk
  <1> HIDE DEF w
  <1>10. DiskExact(x, m, w)
    BY <1>1, <1>8, <1>9, LiveFine
  <1> QED BY <1>5, <1>10 DEF Fine, w

\* archive moves directories.
LEMMA ArchiveFine ==
    ASSUME NEW x, NEW m, NEW k \in Fine(x, m), k.live.exists
    PROVE  Archive(k) \in Seq(Fine(x, m)) /\ Archive(k) # <<>>
  <1> DEFINE recovered == RecoverArchive(k)
             aside == [recovered EXCEPT !.previous = recovered.archived, !.archived = NoDirectory]
             moved == [aside EXCEPT !.archived = aside.live, !.live = NoDirectory]
             removed == [moved EXCEPT !.previous = NoDirectory]
  <1>1. Archive(k) = <<k, recovered, aside, moved, removed>>
    BY DEF Archive
  <1>2. Archive(k) \in Seq(Good)
    BY ArchivesWell DEF Fine
  <1>3. recovered \in Fine(x, m)
    BY RecoverFine
  <1> HIDE DEF recovered
  <1>4. recovered \in Disk /\ DiskExact(x, m, recovered)
    BY <1>3 DEF Fine, Good
  <1>5. /\ aside \in Disk /\ aside.live = recovered.live
        /\ aside.archived = NoDirectory /\ aside.previous = recovered.archived
    BY <1>4, DiskTyped, EmptyTyped DEF Disk
  <1> HIDE DEF aside
  <1>6. /\ moved \in Disk /\ moved.live = NoDirectory /\ moved.archived = recovered.live
        /\ moved.previous = recovered.archived
    BY <1>4, <1>5, DiskTyped, EmptyTyped DEF Disk
  <1> HIDE DEF moved
  <1>7. /\ removed.live = NoDirectory /\ removed.archived = recovered.live
        /\ removed.previous = NoDirectory
    BY <1>6 DEF Disk
  <1> HIDE DEF removed
  <1>8. \A w \in {aside, moved, removed} : DiskExact(x, m, w)
    BY <1>4, <1>5, <1>6, <1>7, EmptyTyped DEF DiskExact
  <1>9. <<k, recovered, aside, moved, removed>> \in Seq(Good)
    BY <1>1, <1>2
  <1>10. aside \in Good /\ moved \in Good /\ removed \in Good
    BY <1>9
  <1>11. {aside, moved, removed} \subseteq Fine(x, m)
    BY <1>8, <1>10 DEF Fine
  <1>12. <<k, recovered, aside, moved, removed>> \in Seq(Fine(x, m))
    BY <1>3, <1>11
  <1> QED BY <1>1, <1>12

\* delete_archive: what is left of the archive can be read only if the file with
\* its history is left.
LEMMA DeleteFine ==
    ASSUME NEW x, NEW m, NEW k \in Fine(x, m), NEW left \in {NoDirectory} \cup Remaining(k.archived)
    PROVE  [Forget(k) EXCEPT !.archived = left] \in Fine(x, m)
  <1> DEFINE w == [Forget(k) EXCEPT !.archived = left]
             a == k.archived
  <1>1. k \in Good /\ k \in Disk /\ DiskExact(x, m, k)
    BY DEF Fine, Good
  <1>2. w \in Good
    BY <1>1, DeletesWell
  <1>3. w.live = k.live /\ w.archived = left /\ w.previous = k.previous
    <2>1. CASE Found(k.live)
      BY <1>1, <2>1 DEF Forget, Disk
    <2>2. CASE ~Found(k.live)
      BY <1>1, <2>2 DEF Forget, Disk
    <2> QED BY <2>1, <2>2
  <1>4. Found(left) => Exact(x, m, left)
    <2> SUFFICES ASSUME Found(left) PROVE Exact(x, m, left)
      OBVIOUS
    <2>1. left \in Remaining(a)
      BY EmptyTyped
    <2>2. a \in Directory
      BY <1>1, DiskTyped
    <2>3. PICK p \in (SUBSET DOMAIN a.files) \X {a.current, None} :
             left = [a EXCEPT !.files = Restrict(a.files, p[1]), !.current = p[2]]
      BY <2>1 DEF Remaining
    <2> DEFINE G == Restrict(a.files, p[1])
    <2>4. p[1] \subseteq DOMAIN a.files /\ p[2] \in {a.current, None}
      OBVIOUS
    <2>5. a.files \in Files
      BY <2>2 DEF Directory
    <2>6. G \in Files /\ DOMAIN G = p[1] /\ \A f \in p[1] : G[f] = a.files[f]
      BY <2>4, <2>5, Restricted
    <2> HIDE DEF G
    <2>7. left.files = G /\ left.current = p[2]
      BY <2>2, <2>3 DEF Directory, G
    <2>8. left.current = a.current /\ Found(a)
      BY <2>4, <2>7 DEF Found
    <2>9. a \in Work /\ Exact(x, m, a)
      BY <1>1, <2>2, <2>8, FoundWork DEF DiskExact
    <2>10. left \in Work
      BY <2>3, <2>6, <2>7, <2>8, <2>9 DEF Work
    <2>11. Framed(a.current)
      BY <2>9 DEF Exact, ExactAt
    <2>12. Intact(left) => Intact(a) /\ History(left) = History(a)
      <3>1. CASE a.current.end = 0
        <4>1. Intact(a) /\ Intact(left)
          <5>1. Content(a) \in Seq(Nat) /\ Content(left) \in Seq(Nat)
            BY <2>9, <2>10, ContentTyped
          <5> QED BY <2>8, <3>1, <5>1 DEF Intact
        <4>2. a.current.start = 0
          BY <2>9, <2>11, <3>1 DEF Framed, Work, Record, Current
        <4>3. /\ History(a) \in Seq(Nat) /\ Len(History(a)) = 0
              /\ History(left) \in Seq(Nat) /\ Len(History(left)) = 0
          BY <2>8, <2>9, <2>10, <2>11, <3>1, <4>1, <4>2, HistoryIs
        <4> QED BY <4>1, <4>3
      <3>2. CASE a.current.end # 0 /\ a.current.file \in p[1]
        <4>1. Content(left) = Content(a)
          BY <2>4, <2>6, <2>7, <2>8, <3>2 DEF Content
        <4> QED BY <2>8, <4>1 DEF Intact, History
      <3>3. CASE a.current.end # 0 /\ a.current.file \notin p[1]
        <4>1. Content(left) = <<>>
          BY <2>6, <2>7, <2>8, <3>3 DEF Content
        <4>2. a.current.end \in Nat
          BY <2>9 DEF Work, Record, Current
        <4> QED BY <2>8, <3>3, <4>1, <4>2 DEF Intact
      <3> QED BY <3>1, <3>2, <3>3
    <2>13. Likewise(a, left)
      BY <2>8, <2>9, <2>10, <2>12 DEF Likewise, SameRange
    <2> QED BY <2>9, <2>13, LikewiseExact
  <1> HIDE DEF w
  <1>5. DiskExact(x, m, w)
    BY <1>1, <1>3, <1>4 DEF DiskExact
  <1> QED BY <1>2, <1>5 DEF Fine, w

(***************************************************************************)
(* The writer: what it saves is what the server has sent.                   *)
(***************************************************************************)
\* More checkpoints have been taken.
More(m, n) == \A i \in DOMAIN m : i \in DOMAIN n /\ n[i] = m[i]

\* What was exact or sound stays so.
LEMMA MoreSound ==
    ASSUME NEW x, NEW m, NEW n, More(m, n)
    PROVE  /\ \A e : EventSound(x, m, e) => EventSound(x, n, e)
           /\ Fine(x, m) \subseteq Fine(x, n)
  <1>1. \A e : EventSound(x, m, e) => EventSound(x, n, e)
    BY DEF More, EventSound
  <1>2. ASSUME NEW d, Exact(x, m, d) PROVE Exact(x, n, d)
    <2>1. Pinned(x, n, d.current)
      BY <1>2 DEF More, Exact, Pinned
    <2> QED BY <1>2, <2>1 DEF Exact
  <1>3. \A k : DiskExact(x, m, k) => DiskExact(x, n, k)
    BY <1>2 DEF DiskExact
  <1> QED BY <1>1, <1>3 DEF Fine

\* The server's checkpoints were taken where m says: everything on disk, in the
\* queue and in the hands of the worker agrees with it.
Known(m) ==
    /\ m \in [1 .. snapshots -> Nat]
    /\ disk \in Fine(cleared, m)
    /\ snapshot # None => snapshot.id \in 1 .. snapshots /\ m[snapshot.id] = snapshot.seq
    /\ \A i \in 1 .. Len(queue) : EventSound(cleared, m, queue[i].event)
    /\ worker = "persist" => EventSound(cleared, m, write.event)

HistoryInv == CacheInv /\ \E m : Known(m)

\* Where the server's history begins.
LEMMA ServerKeeps ==
    ASSUME cleared \in Nat \cup {None}, NEW s \in Nat
    PROVE  /\ Base(s) = BaseAt(cleared, s) /\ Base(s) \in Nat /\ Base(s) <= s
           /\ Retained(s) \in Nat /\ Base(s) <= Retained(s) /\ Retained(s) <= s
  <1>1. Base(s) = BaseAt(cleared, s)
    BY DEF Base, BaseAt
  <1>2. Base(s) \in Nat /\ Base(s) <= s
    <2>1. CASE cleared = None
      BY <2>1 DEF Base
    <2>2. CASE cleared \in Nat
      BY <2>2, SessionCacheAssumption DEF Base
    <2> QED BY <2>1, <2>2
  <1> DEFINE b == Base(s)
  <1>3. Retained(s) = IF s > Limit THEN Later(b, s - Limit) ELSE b
    BY DEF Retained
  <1>4. Limit \in Nat
    BY SessionCacheAssumption
  <1> HIDE DEF b
  <1>5. b \in Nat /\ b <= s
    BY <1>2 DEF b
  <1>6. Retained(s) \in Nat /\ b <= Retained(s) /\ Retained(s) <= s
    BY <1>3, <1>4, <1>5 DEF Later
  <1> QED BY <1>1, <1>2, <1>6 DEF b

\* A sound event is enqueued or dropped.
LEMMA EnqueueKnown ==
    ASSUME CacheInv, NEW m, Known(m), NEW n, More(m, n), NEW e, Enqueue(e), EventSound(cleared, n, e),
           cleared' = cleared, n \in [1 .. snapshots' -> Nat],
           snapshot' # None => snapshot'.id \in 1 .. snapshots' /\ n[snapshot'.id] = snapshot'.seq
    PROVE  Known(n)'
  <1>1. disk' = disk /\ worker' = worker /\ write' = write
    BY DEF Enqueue, progress
  <1>2. disk' \in Fine(cleared', n)
    BY <1>1, MoreSound DEF Known
  <1>3. worker' = "persist" => EventSound(cleared', n, write'.event)
    BY <1>1, MoreSound DEF Known
  <1>4. \A i \in 1 .. Len(queue) : EventSound(cleared, n, queue[i].event)
    BY MoreSound DEF Known
  <1>5. queue \in Seq(Write)
    BY DEF CacheInv
  <1> DEFINE v == [event |-> e, epoch |-> recovery.epoch]
  <1>6. queue' = queue \/ queue' = Append(queue, v)
    BY DEF Enqueue
  <1>7. v.event = e
    OBVIOUS
  <1> HIDE DEF v
  <1>8. ASSUME NEW i \in 1 .. Len(queue') PROVE EventSound(cleared, n, queue'[i].event)
    <2>1. CASE queue' = queue
      BY <1>4, <1>8, <2>1
    <2>2. CASE queue' = Append(queue, v)
      <3>1. Len(queue) \in Nat /\ Len(queue') = Len(queue) + 1
        BY <1>5, <2>2
      <3>2. queue'[Len(queue) + 1] = v /\ \A j \in 1 .. Len(queue) : queue'[j] = queue[j]
        BY <1>5, <2>2
      <3>3. i \in 1 .. Len(queue) \/ i = Len(queue) + 1
        BY <3>1
      <3>4. CASE i \in 1 .. Len(queue)
        BY <1>4, <3>2, <3>4
      <3>5. CASE i = Len(queue) + 1
        BY <1>7, <3>2, <3>5
      <3> QED BY <3>3, <3>4, <3>5
    <2> QED BY <1>6, <2>1, <2>2
  <1>9. \A i \in 1 .. Len(queue') : EventSound(cleared', n, queue'[i].event)
    BY <1>8
  <1> QED BY <1>2, <1>3, <1>9 DEF Known

\* A checkpoint says where it was taken, and begins with a row that the server
\* has.
LEMMA CheckpointKnown ==
    ASSUME CacheInv, NEW m, Known(m), NEW transfer \in BOOLEAN, Checkpoint(transfer)
    PROVE  \E n : Known(n)'
  <1>1. PICK s \in sent .. MaxSequence :
          /\ Enqueue(CheckpointEvent(s, transfer))
          /\ snapshots' = IF transfer THEN snapshots + 1 ELSE snapshots
          /\ snapshot' = IF transfer THEN [id |-> snapshots + 1, seq |-> s] ELSE None
          /\ cleared' = cleared
    BY DEF Checkpoint
  <1>2. /\ s \in Nat /\ cleared \in Nat \cup {None} /\ snapshots \in Nat
        /\ Seed \in Nat
    BY CacheWriterAssumption DEF CacheInv
  <1>3. m \in [1 .. snapshots -> Nat]
    BY DEF Known
  <1> DEFINE e == CheckpointEvent(s, transfer)
             r == Retained(s)
             b == Base(s)
  <1>4. /\ e.kind = "checkpoint" /\ e.seq = s
        /\ e.first = (IF transfer /\ s > Seed THEN Later(r, s - Seed) ELSE r)
        /\ e.id = (IF transfer THEN snapshots + 1 ELSE None) /\ e.gap = (r > b)
    BY DEF CheckpointEvent
  <1>5. /\ b = BaseAt(cleared, s) /\ b \in Nat /\ b <= s
        /\ r \in Nat /\ b <= r /\ r <= s
    BY <1>2, ServerKeeps
  <1> HIDE DEF e, r, b
  <1>6. e.first \in Nat /\ e.first <= s /\ b <= e.first
    <2>1. CASE transfer /\ s > Seed
      BY <1>2, <1>4, <1>5, <2>1 DEF Later
    <2>2. CASE ~(transfer /\ s > Seed)
      BY <1>4, <1>5, <2>2
    <2> QED BY <2>1, <2>2
  <1>7. ASSUME NEW n, transfer => snapshots + 1 \in DOMAIN n /\ n[snapshots + 1] = s
        PROVE  EventSound(cleared, n, e)
    <2>1. e.first <= e.seq /\ BaseAt(cleared, e.seq) <= e.first
      BY <1>4, <1>5, <1>6
    <2>2. e.first > BaseAt(cleared, e.seq) => e.gap \/ e.id # None
      <3>1. CASE transfer
        BY <1>2, <1>4, <3>1, SessionCacheAssumption
      <3>2. CASE ~transfer
        <4>1. e.first = r
          BY <1>4, <3>2
        <4> QED BY <1>4, <1>5, <4>1
      <3> QED BY <3>1, <3>2
    <2>3. e.id # None => e.id \in DOMAIN n /\ n[e.id] = e.seq
      BY <1>4, <1>7
    <2> QED BY <1>4, <2>1, <2>2, <2>3 DEF EventSound
  <1>8. Enqueue(e)
    BY <1>1 DEF e
  <1>9. CASE ~transfer
    <2>1. More(m, m)
      BY DEF More
    <2>2. snapshots' = snapshots /\ snapshot' = None
      BY <1>1, <1>9
    <2>3. EventSound(cleared, m, e)
      BY <1>7, <1>9
    <2>4. Known(m)'
      BY <1>1, <1>3, <1>8, <2>1, <2>2, <2>3, EnqueueKnown
    <2> QED BY <2>4
  <1>10. CASE transfer
    <2>1. PICK n : n = [i \in 1 .. snapshots + 1 |-> IF i = snapshots + 1 THEN s ELSE m[i]]
      OBVIOUS
    <2>2. snapshots' = snapshots + 1 /\ snapshot' = [id |-> snapshots + 1, seq |-> s]
      BY <1>1, <1>10
    <2>3. n \in [1 .. snapshots + 1 -> Nat]
      BY <1>2, <1>3, <2>1
    <2>4. snapshots + 1 \in DOMAIN n /\ n[snapshots + 1] = s
      BY <1>2, <2>1
    <2>5. More(m, n)
      <3> SUFFICES ASSUME NEW i \in DOMAIN m PROVE i \in DOMAIN n /\ n[i] = m[i]
        BY DEF More
      <3>1. i \in 1 .. snapshots
        BY <1>3
      <3>2. i \in 1 .. snapshots + 1 /\ i # snapshots + 1
        BY <1>2, <3>1
      <3> QED BY <2>1, <3>2
    <2>6. EventSound(cleared, n, e)
      BY <1>7, <2>4
    <2>7. snapshot' # None => snapshot'.id \in 1 .. snapshots' /\ n[snapshot'.id] = snapshot'.seq
      BY <1>2, <2>2, <2>4
    <2>8. n \in [1 .. snapshots' -> Nat]
      BY <2>2, <2>3
    <2>9. Known(n)'
      BY <1>1, <1>8, <2>5, <2>6, <2>7, <2>8, EnqueueKnown
    <2> QED BY <2>9
  <1> QED BY <1>9, <1>10

\* Output, a resize or a history that was transferred: output says whether it
\* clears the history, and a history begins where the server's did at its
\* checkpoint.
LEMMA OtherKnown ==
    ASSUME CacheInv, NEW m, Known(m), SendOutput \/ SendResize \/ SendHistory
    PROVE  Known(m)'
  <1>1. /\ sent \in Nat /\ cleared \in Nat \cup {None} /\ snapshots \in Nat
        /\ snapshot \in [id : Nat, seq : Nat] \cup {None}
    BY DEF CacheInv
  <1>2. ASSUME NEW e, Enqueue(e), EventSound(cleared, m, e), UNCHANGED <<cleared, snapshots>>,
               snapshot' \in {snapshot, None}
        PROVE  Known(m)'
    <2>1. More(m, m)
      BY DEF More
    <2>2. /\ m \in [1 .. snapshots' -> Nat]
          /\ snapshot' # None => snapshot'.id \in 1 .. snapshots' /\ m[snapshot'.id] = snapshot'.seq
      BY <1>2 DEF Known
    <2>3. cleared' = cleared
      BY <1>2
    <2> QED BY <1>2, <2>1, <2>2, <2>3, EnqueueKnown
  <1>3. CASE SendOutput
    <2>1. PICK to \in sent + 1 .. MaxSequence :
            /\ cleared \in sent .. to - 1 => to = sent + 1
            /\ Enqueue([kind |-> "output", from |-> sent, to |-> to, clear |-> cleared = sent])
            /\ UNCHANGED <<cleared, snapshots, snapshot>>
      BY <1>3 DEF SendOutput
    <2>2. PICK e : e = [kind |-> "output", from |-> sent, to |-> to, clear |-> cleared = sent]
      OBVIOUS
    <2>3. e.kind = "output" /\ e.from = sent /\ e.to = to /\ e.clear = (cleared = sent)
      BY <2>2
    <2>4. to \in Nat /\ sent < to
      BY <1>1
    <2>5. CASE cleared = sent
      <3>1. to = sent + 1
        BY <1>1, <2>1, <2>4, <2>5
      <3>2. EventSound(cleared, m, e)
        BY <2>3, <2>4, <2>5, <3>1 DEF EventSound
      <3> QED BY <1>2, <2>1, <2>2, <3>2
    <2>6. CASE cleared # sent
      <3>1. cleared # None => cleared < sent \/ cleared >= to
        BY <1>1, <2>1, <2>4, <2>6
      <3>2. EventSound(cleared, m, e)
        BY <2>3, <2>4, <2>6, <3>1 DEF EventSound
      <3> QED BY <1>2, <2>1, <2>2, <3>2
    <2> QED BY <2>5, <2>6
  <1>4. CASE SendResize
    <2>1. /\ Enqueue([kind |-> "resize", seq |-> sent])
          /\ UNCHANGED <<cleared, snapshots, snapshot>>
      BY <1>4 DEF SendResize
    <2>2. PICK e : e = [kind |-> "resize", seq |-> sent]
      OBVIOUS
    <2>3. EventSound(cleared, m, e)
      BY <2>2 DEF EventSound
    <2> QED BY <1>2, <2>1, <2>2, <2>3
  <1>5. CASE SendHistory
    <2>1. PICK e : e = [kind |-> "synced", id |-> snapshot.id, from |-> Retained(snapshot.seq),
                        gap |-> Retained(snapshot.seq) > Base(snapshot.seq)]
      OBVIOUS
    <2>2. /\ Enqueue(e) /\ snapshot # None /\ snapshot' = None
          /\ UNCHANGED <<cleared, snapshots>>
      BY <1>5, <2>1 DEF SendHistory
    <2> DEFINE s == snapshot.seq
    <2>3. /\ s \in Nat /\ snapshot.id \in DOMAIN m /\ m[snapshot.id] = s
      BY <1>1, <2>2 DEF Known
    <2>4. /\ e.kind = "synced" /\ e.id = snapshot.id /\ e.from = Retained(s)
          /\ e.gap = (Retained(s) > Base(s))
      BY <2>1
    <2> HIDE DEF s
    <2>5. /\ Base(s) = BaseAt(cleared, s) /\ Base(s) <= Retained(s) /\ Retained(s) <= s
      BY <1>1, <2>3, ServerKeeps
    <2>6. EventSound(cleared, m, e)
      BY <2>3, <2>4, <2>5 DEF EventSound
    <2> QED BY <1>2, <2>2, <2>6
  <1> QED BY <1>3, <1>4, <1>5

\* One of several disks.
LEMMA StepsKnown ==
    ASSUME NEW S, NEW steps \in Seq(S), steps # <<>>, Perform(steps) \/ Interrupt(steps)
    PROVE  disk' \in S
  <1>1. \A i \in 1 .. Len(steps) : steps[i] \in S
    OBVIOUS
  <1>2. Len(steps) \in Nat /\ Len(steps) # 0
    OBVIOUS
  <1>3. CASE Perform(steps)
    BY <1>1, <1>2, <1>3 DEF Perform, Last
  <1>4. CASE Interrupt(steps)
    BY <1>1, <1>2, <1>4 DEF Interrupt
  <1> QED BY <1>3, <1>4

\* An event is applied, wholly or in part.
LEMMA AppliedKnown ==
    ASSUME CacheInv, NEW m, Known(m), worker = "persist",
           Perform(Apply(disk, write.event).steps) \/ Interrupt(Apply(disk, write.event).steps)
    PROVE  disk' \in Fine(cleared, m)
  <1> DEFINE steps == Apply(disk, write.event).steps
  <1>1. write.event \in Event /\ cleared \in Nat \cup {None}
    BY DEF CacheInv, Write
  <1>2. disk \in Fine(cleared, m) /\ EventSound(cleared, m, write.event)
    BY DEF Known
  <1>3. steps \in Seq(Fine(cleared, m)) /\ steps # <<>>
    BY <1>1, <1>2, AppliesFine
  <1>4. Perform(steps) \/ Interrupt(steps)
    OBVIOUS
  <1> HIDE DEF steps
  <1> QED BY <1>3, <1>4, StepsKnown

\* The worker and the store.
LEMMA WorkerKnown ==
    ASSUME CacheInv, NEW m, Known(m), Receive \/ Persist \/ Release \/ Settle \/ Mark \/ End
    PROVE  Known(m)'
  <1>1. UNCHANGED <<cleared, snapshots, snapshot>>
    BY DEF Receive, Persist, Release, Settle, Mark, End, streamVars
  <1>2. ASSUME disk' \in Fine(cleared, m), queue' = queue, worker' # "persist"
        PROVE  Known(m)'
    BY <1>1, <1>2 DEF Known
  <1>3. disk \in Fine(cleared, m) /\ queue \in Seq(Write)
    BY DEF Known, CacheInv
  <1>4. CASE Receive
    <2>1. /\ queue # <<>> /\ queue' = Tail(queue) /\ write' = Head(queue) /\ disk' = disk
      BY <1>4 DEF Receive, storeVars
    <2>2. \A i \in 1 .. Len(queue) : EventSound(cleared, m, queue[i].event)
      BY DEF Known
    <2>3. /\ Len(queue) \in Nat /\ Len(queue) # 0 /\ Len(queue') = Len(queue) - 1
          /\ write' = queue[1] /\ \A i \in 1 .. Len(queue) - 1 : queue'[i] = queue[i + 1]
      BY <1>3, <2>1
    <2>4. EventSound(cleared, m, write'.event)
      BY <2>2, <2>3
    <2>5. \A i \in 1 .. Len(queue') : EventSound(cleared, m, queue'[i].event)
      <3> SUFFICES ASSUME NEW i \in 1 .. Len(queue') PROVE EventSound(cleared, m, queue'[i].event)
        OBVIOUS
      <3>1. i \in 1 .. Len(queue) - 1 /\ i + 1 \in 1 .. Len(queue)
        BY <2>3
      <3> QED BY <2>2, <2>3, <3>1
    <2> QED BY <1>1, <1>3, <2>1, <2>4, <2>5 DEF Known
  <1>5. CASE Persist
    <2>1. /\ worker = "persist" /\ worker' = "release" /\ queue' = queue
          /\ \/ Perform(Apply(disk, write.event).steps)
             \/ Interrupt(Apply(disk, write.event).steps)
      BY <1>5 DEF Persist
    <2> QED BY <1>2, <2>1, AppliedKnown
  <1>6. CASE Release
    <2>1. disk' = disk /\ queue' = queue /\ worker' # "persist"
      BY <1>6 DEF Release, storeVars
    <2> QED BY <1>2, <1>3, <2>1
  <1>7. CASE Settle
    <2>1. disk' = disk /\ queue' = queue /\ worker' # "persist"
      BY <1>7 DEF Settle, storeVars
    <2> QED BY <1>2, <1>3, <2>1
  <1>8. CASE Mark
    <2>1. /\ (Found(disk.live) /\ disk' = MarkHistoryGap(disk)) \/ disk' = disk
          /\ queue' = queue /\ worker' # "persist"
      BY <1>8 DEF Mark, storeVars
    <2> QED BY <1>2, <1>3, <2>1, MarkFine
  <1>9. CASE End
    <2>1. disk' = disk /\ queue' = queue /\ worker' # "persist"
      BY <1>9 DEF End, storeVars
    <2> QED BY <1>2, <1>3, <2>1
  <1> QED BY <1>4, <1>5, <1>6, <1>7, <1>8, <1>9

\* Attachments that end and begin, and the death of the application.
LEMMA AttachmentKnown ==
    ASSUME CacheInv, NEW m, Known(m), Close \/ Reattach \/ Kill
    PROVE  Known(m)'
  <1>1. disk \in Fine(cleared, m)
    BY DEF Known
  <1>2. ASSUME NewWriter, disk' \in Fine(cleared, m), snapshot' = None, UNCHANGED <<cleared, snapshots>>
        PROVE  Known(m)'
    <2>1. queue' = <<>> /\ worker' # "persist"
      BY <1>2 DEF NewWriter
    <2>2. \A i \in 1 .. Len(queue') : EventSound(cleared', m, queue'[i].event)
      BY <2>1
    <2> QED BY <1>2, <2>1, <2>2 DEF Known
  <1>3. CASE Close
    <2>1. UNCHANGED <<disk, cleared, snapshots, snapshot, queue, worker, write>>
      BY <1>3 DEF Close, streamVars, progress
    <2> QED BY <2>1 DEF Known
  <1>4. CASE Reattach
    <2>1. NewWriter /\ snapshot' = None /\ UNCHANGED <<disk, cleared, snapshots>>
      BY <1>4 DEF Reattach, storeVars
    <2> QED BY <1>1, <1>2, <2>1
  <1>5. CASE Kill
    <2>1. /\ NewWriter /\ snapshot' = None /\ UNCHANGED <<cleared, snapshots>>
          /\ \/ disk' = disk
             \/ worker = "persist" /\ Interrupt(Apply(disk, write.event).steps)
      BY <1>5 DEF Kill
    <2>2. disk' \in Fine(cleared, m)
      BY <1>1, <2>1, AppliedKnown
    <2> QED BY <1>2, <2>1, <2>2
  <1> QED BY <1>3, <1>4, <1>5

\* Readers, the archive and its removal.
LEMMA StoreKnown ==
    ASSUME CacheInv, NEW m, Known(m), StoreNext
    PROVE  Known(m)'
  <1>1. /\ StoreStep /\ UNCHANGED <<cleared, snapshots, snapshot, queue, worker, write>>
        /\ disk \in Fine(cleared, m) /\ disk \in Good
    BY DEF StoreNext, streamVars, writerVars, progress, Known, CacheInv
  <1>2. disk' \in Fine(cleared, m)
    <2>1. CASE Load
      BY <1>1, <2>1, RecoverFine DEF Load
    <2>2. CASE ArchiveSession
      <3> DEFINE steps == Archive(disk)
      <3>1. steps \in Seq(Fine(cleared, m)) /\ steps # <<>>
        BY <1>1, <2>2, ArchiveFine DEF ArchiveSession
      <3>2. Perform(steps) \/ Interrupt(steps)
        BY <2>2 DEF ArchiveSession
      <3> HIDE DEF steps
      <3> QED BY <3>1, <3>2, StepsKnown
    <2>3. CASE DeleteArchive
      <3> DEFINE recovered == RecoverArchive(disk)
      <3>1. PICK left \in {NoDirectory} \cup Remaining(recovered.archived) :
              disk' = [Forget(recovered) EXCEPT !.archived = left]
        BY <2>3 DEF DeleteArchive
      <3>2. recovered \in Fine(cleared, m)
        BY <1>1, RecoverFine
      <3> HIDE DEF recovered
      <3> QED BY <3>1, <3>2, DeleteFine
    <2> QED BY <1>1, <2>1, <2>2, <2>3 DEF StoreStep
  <1> QED BY <1>1, <1>2 DEF Known

\* Every step keeps what is on disk and on its way there exact.
LEMMA HistoryStep == HistoryInv /\ [Next]_cacheVars => HistoryInv'
  <1> SUFFICES ASSUME HistoryInv, [Next]_cacheVars PROVE HistoryInv'
    OBVIOUS
  <1>1. CacheInv'
    BY CacheStep DEF HistoryInv
  <1>2. PICK m : CacheInv /\ Known(m)
    BY DEF HistoryInv
  <1>3. \E n : Known(n)'
    <2>1. CASE InitialCheckpoint \/ AnswerCheckpoint \/ SendCheckpoint
      <3>1. PICK transfer \in BOOLEAN : Checkpoint(transfer)
        BY <2>1 DEF InitialCheckpoint, AnswerCheckpoint, SendCheckpoint
      <3> QED BY <1>2, <3>1, CheckpointKnown
    <2>2. CASE SendOutput \/ SendResize \/ SendHistory
      BY <1>2, <2>2, OtherKnown
    <2>3. CASE Receive \/ Persist \/ Release \/ Settle \/ Mark \/ End
      BY <1>2, <2>3, WorkerKnown
    <2>4. CASE Close \/ Reattach \/ Kill
      BY <1>2, <2>4, AttachmentKnown
    <2>5. CASE StoreNext
      BY <1>2, <2>5, StoreKnown
    <2>6. CASE UNCHANGED cacheVars
      <3>1. UNCHANGED <<disk, cleared, snapshots, snapshot, queue, worker, write>>
        BY <2>6 DEF cacheVars, storeVars, streamVars, writerVars, progress
      <3>2. Known(m)'
        BY <1>2, <3>1 DEF Known
      <3> QED BY <3>2
    <2> QED BY <2>1, <2>2, <2>3, <2>4, <2>5, <2>6 DEF Next
  <1> QED BY <1>1, <1>3 DEF HistoryInv

\* A directory with one file with the rows 0 .. n - 1, none of which was cleared.
LEMMA OneFileExact ==
    ASSUME NEW x \in Nat \cup {None}, NEW m, NEW n \in Nat, x # None => n <= x,
           NEW f \in Nat, NEW c \in Record,
           c.file = f, c.start = 0, c.end = n, c.seq = n, c.manifest = None,
           NEW d, d = [exists |-> TRUE, files |-> WriteFile(<<>>, f, Rows(0, n)), current |-> c]
    PROVE  Exact(x, m, d)
  <1>1. d \in Work /\ History(d) = Rows(0, n)
    BY OneFile
  <1>2. d.current = c
    OBVIOUS
  <1>3. BaseAt(x, n) = 0
    <2>1. CASE x = None
      BY <2>1 DEF BaseAt
    <2>2. CASE x \in Nat /\ x # None
      <3>1. ~(n > x)
        BY <2>2
      <3> QED BY <3>1 DEF BaseAt
    <2> QED BY <2>1, <2>2
  <1>4. EndsAt(History(d), n)
    BY <1>1, RowsEnd
  <1>5. Framed(c)
    BY SessionCacheAssumption DEF Framed
  <1>6. ExactAt(d, n, 0)
    BY <1>2, <1>4, <1>5 DEF ExactAt
  <1> QED BY <1>2, <1>3, <1>6 DEF Exact, Pinned

\* The initial disks have no history, or a transcript or an archive of all that
\* was sent.
LEMMA HistoryInit == Init => HistoryInv
  <1> SUFFICES ASSUME Init PROVE HistoryInv
    OBVIOUS
  <1> DEFINE n == MaxTranscript
  <1>1. CacheInv /\ n \in Nat
    BY CacheInit, CacheWriterAssumption
  <1>2. PICK m : m = [i \in 1 .. 0 |-> 0]
    OBVIOUS
  <1>3. /\ cleared \in Nat \cup {None} /\ disk \in Good
    BY <1>1 DEF CacheInv
  <1>4. PICK d \in {EmptyDisk,
                    [EmptyDisk EXCEPT !.live = LegacyDirectory(n), !.saved = View(LegacyDirectory(n)),
                                      !.transcript = Rows(0, n)],
                    [EmptyDisk EXCEPT !.archived = ArchivedDirectory(n),
                                      !.saved = View(ArchivedDirectory(n))]} :
          disk = d /\ sent = IF d.saved = None THEN 0 ELSE n
    BY DEF Init
  <1>5. cleared # None => sent <= cleared
    BY DEF Init
  <1> HIDE DEF n
  <1>6. DiskExact(cleared, m, disk)
    <2>1. CASE d = EmptyDisk
      <3>1. disk.live = NoDirectory /\ disk.archived = NoDirectory /\ disk.previous = NoDirectory
        BY <1>4, <2>1 DEF EmptyDisk
      <3> QED BY <3>1, EmptyTyped DEF DiskExact
    <2>2. CASE d = [EmptyDisk EXCEPT !.live = LegacyDirectory(n), !.saved = View(LegacyDirectory(n)),
                                     !.transcript = Rows(0, n)]
      <3> DEFINE w == LegacyDirectory(n)
                 c == [NewCurrent EXCEPT !.version = 1, !.seq = n, !.file = LegacyFile, !.end = n]
      <3>1. /\ c \in Record /\ c.file = LegacyFile /\ c.start = 0 /\ c.end = n /\ c.seq = n
            /\ c.manifest = None
        BY <1>1 DEF NewCurrent, LegacyFile, Record, Current
      <3>2. w = [exists |-> TRUE, files |-> WriteFile(<<>>, LegacyFile, Rows(0, n)), current |-> c]
        BY DEF LegacyDirectory
      <3>3. LegacyFile \in Nat
        BY DEF LegacyFile
      <3> HIDE DEF w, c
      <3>4. View(w) \in [current : Record, history : Seq(Nat)]
        BY <1>1, <3>1, <3>2, <3>3, OneFile
      <3>5. /\ disk.live = w /\ disk.archived = NoDirectory /\ disk.previous = NoDirectory
            /\ disk.saved = View(w)
        BY <1>4, <2>2 DEF EmptyDisk, w
      <3>6. View(w) # None
        BY <3>4, SessionCacheAssumption DEF Record
      <3>7. sent = n
        BY <1>4, <3>5, <3>6
      <3>8. cleared # None => n <= cleared
        BY <1>5, <3>7
      <3>9. Exact(cleared, m, w)
        BY <1>1, <1>3, <3>1, <3>2, <3>3, <3>8, OneFileExact
      <3> QED BY <3>5, <3>9, EmptyTyped DEF DiskExact
    <2>3. CASE d = [EmptyDisk EXCEPT !.archived = ArchivedDirectory(n),
                                     !.saved = View(ArchivedDirectory(n))]
      <3> DEFINE w == ArchivedDirectory(n)
                 c == [NewCurrent EXCEPT !.seq = n, !.file = 1, !.end = n, !.synced = TRUE]
      <3>1. /\ c \in Record /\ c.file = 1 /\ c.start = 0 /\ c.end = n /\ c.seq = n
            /\ c.manifest = None
        BY <1>1 DEF NewCurrent, Record, Current
      <3>2. w = [exists |-> TRUE, files |-> WriteFile(<<>>, 1, Rows(0, n)), current |-> c]
        BY DEF ArchivedDirectory
      <3> HIDE DEF w, c
      <3>3. View(w) \in [current : Record, history : Seq(Nat)]
        BY <1>1, <3>1, <3>2, OneFile
      <3>4. /\ disk.live = NoDirectory /\ disk.archived = w /\ disk.previous = NoDirectory
            /\ disk.saved = View(w)
        BY <1>4, <2>3 DEF EmptyDisk, w
      <3>5. View(w) # None
        BY <3>3, SessionCacheAssumption DEF Record
      <3>6. sent = n
        BY <1>4, <3>4, <3>5
      <3>7. cleared # None => n <= cleared
        BY <1>5, <3>6
      <3>8. Exact(cleared, m, w)
        BY <1>1, <1>3, <3>1, <3>2, <3>7, OneFileExact
      <3> QED BY <3>4, <3>8, EmptyTyped DEF DiskExact
    <2> QED BY <1>4, <2>1, <2>2, <2>3
  <1>7. /\ snapshots = 0 /\ snapshot = None /\ queue = <<>> /\ worker # "persist"
    BY DEF Init
  <1>8. m \in [1 .. snapshots -> Nat]
    BY <1>2, <1>7
  <1>9. \A i \in 1 .. Len(queue) : EventSound(cleared, m, queue[i].event)
    BY <1>7
  <1>10. Known(m)
    BY <1>3, <1>6, <1>7, <1>8, <1>9 DEF Known, Fine
  <1> QED BY <1>1, <1>10 DEF HistoryInv

\* Every directory of every reachable disk is exact: its record names a run of
\* rows of a data file that ends at the record's sequence, whatever can still
\* be replayed or transferred belongs to the checkpoint that the record names,
\* and so does everything in the queue of the writer.
THEOREM ExactInvariant == Spec => []HistoryInv
  BY HistoryInit, HistoryStep, PTL DEF Spec

\* Cached history is never stitched together wrongly, for every limit of the
\* history, of the replay and of the queue, and wherever the application is
\* killed or a file operation fails: append_lines and append_rows cut off what
\* an interrupted append has left, replace_lines and sync_history write the rows
\* of one checkpoint and of the output that was replayed since, update_output
\* refuses output that does not follow, and mark_history_gap, bound_delta and
\* retain_replay tell of what is missing.
THEOREM CachedHistoryExact == Spec => []HistoryExact
  <1>1. HistoryInv => HistoryExact
    <2> SUFFICES ASSUME HistoryInv, NEW d \in {disk.live, disk.archived, disk.previous},
                        Found(d), Intact(d)
                 PROVE  LET c == d.current
                            first == c.seq - Len(History(d)) IN
                        /\ History(d) = Rows(first, c.seq)
                        /\ first >= Base(c.seq) /\ (first > Base(c.seq) => ShownGap(c))
      BY DEF HistoryExact
    <2>1. PICK m : Known(m)
      BY DEF HistoryInv
    <2>2. disk \in Good /\ disk \in Disk /\ DiskExact(cleared, m, disk) /\ cleared \in Nat \cup {None}
      BY <2>1 DEF Known, Fine, Good, HistoryInv, CacheInv
    <2>3. d \in Work /\ Exact(cleared, m, d)
      BY <2>2, DiskTyped, FoundWork DEF DiskExact
    <2> DEFINE s == d.current.seq
               h == History(d)
               b == Base(s)
               t == Len(h)
               start == d.current.start
               end == d.current.end
    <2>4. s \in Nat /\ start \in Nat /\ end \in Nat
      BY <2>3 DEF Work, Record, Current
    <2>5. b = BaseAt(cleared, s) /\ b \in Nat
      BY <2>2, <2>4, ServerKeeps
    <2>6. ExactAt(d, s, b)
      BY <2>3, <2>5 DEF Exact
    <2>7. h \in Seq(Nat) /\ t = end - start
      BY <2>3, <2>6, HistoryIs DEF ExactAt
    <2>8. /\ b + end <= s + start /\ (b + end < s + start => ShownGap(d.current))
          /\ \A i \in 1 .. t : h[i] + t + 1 = s + i
      BY <2>6 DEF ExactAt, EndsAt
    <2>9. t \in Nat /\ DOMAIN h = 1 .. t /\ \A i \in 1 .. t : h[i] \in Nat
      BY <2>7
    <2> HIDE DEF s, h, b, t, start, end
    <2>10. s - t >= b /\ (s - t > b => ShownGap(d.current)) /\ s - t \in Nat /\ s - (s - t) = t
      BY <2>4, <2>5, <2>7, <2>8, <2>9
    <2>11. h = Rows(s - t, s)
      <3>1. ASSUME NEW i \in 1 .. t PROVE h[i] = (s - t) + i - 1
        <4> DEFINE r == h[i]
        <4>1. r \in Nat /\ i \in Nat /\ r + t + 1 = s + i
          BY <2>8, <2>9
        <4> HIDE DEF r
        <4>2. r = (s - t) + i - 1
          BY <2>4, <2>9, <4>1
        <4> QED BY <4>2 DEF r
      <3>2. Rows(s - t, s) = [i \in 1 .. t |-> (s - t) + i - 1]
        BY <2>10 DEF Rows
      <3>3. h = [i \in 1 .. t |-> h[i]]
        BY <2>7, <2>9
      <3> QED BY <3>1, <3>2, <3>3
    <2> QED BY <2>10, <2>11 DEF s, h, b, t
  <1> QED BY <1>1, ExactInvariant, PTL

(***************************************************************************)
(* What is missing is told of: the writer's epochs.                         *)
(***************************************************************************)
\* The directory whose record the next apply reads.
Latest(k) == IF k.live.exists THEN k.live ELSE IF k.archived.exists THEN k.archived ELSE k.previous

\* Of the writes q, in epoch E: those that take the record on; the last of them
\* takes it to s; every one comes after a checkpoint; there is a checkpoint.
Setter(w, E) == w.epoch = E /\ Sets(w.event)
Leader(w, E) == w.epoch = E /\ w.event.kind = "checkpoint"
NoSetter(q, E) == \A i \in 1 .. Len(q) : ~Setter(q[i], E)
Reaches(q, E, s) ==
    \A i \in 1 .. Len(q) : Setter(q[i], E) => \E j \in i .. Len(q) : Setter(q[j], E) /\ Reach(q[j].event) = s
Led(q, E) == \A i \in 1 .. Len(q) : q[i].epoch = E => \E j \in 1 .. i : Leader(q[j], E)
HasLeader(q, E) == \E j \in 1 .. Len(q) : Leader(q[j], E)

\* No write is of a later epoch, and none of this one while a checkpoint is waited for.
Until(q, E, waiting) == \A i \in 1 .. Len(q) : q[i].epoch <= E /\ (waiting => q[i].epoch < E)

\* The worker saves an event of the current epoch.
Saving == worker = "persist" /\ write.epoch = recovery.epoch

\* The epochs of the writer.
Epochs ==
    /\ written \in Nat /\ written <= recovery.epoch
    /\ marked \in Nat \cup {None} /\ (marked # None => marked <= recovery.epoch)
    /\ worker \in Places \ {"last"}
    /\ permit => worker \in {"persist", "release"}
    /\ recovery.waiting => written # recovery.epoch
    /\ worker = "persist" =>
         /\ write.epoch <= recovery.epoch
         /\ write.epoch < recovery.epoch => written # recovery.epoch /\ marked # recovery.epoch
         /\ recovery.waiting => write.epoch < recovery.epoch
    /\ Until(queue, recovery.epoch, recovery.waiting)

\* What is on its way to the disk takes the record to where the server is, and
\* the first of an epoch is a checkpoint.
InOrder ==
    /\ Reaches(queue, recovery.epoch, sent)
    /\ worker = "persist" /\ Setter(write, recovery.epoch) =>
         Reach(write.event) = sent \/ ~NoSetter(queue, recovery.epoch)
    /\ written # recovery.epoch =>
         /\ Saving => write.event.kind = "checkpoint"
         /\ ~Saving => Led(queue, recovery.epoch)
         /\ ~recovery.waiting => Saving \/ HasLeader(queue, recovery.epoch)

\* The record tells of what is missing, or is gone, or could not be marked.
LatestRecord == Latest(disk).current
ToldOf(always) ==
    \/ failed \/ LatestRecord = None
    \/ Tells(LatestRecord)
    \/ ~always /\ LatestRecord.seq >= sent

\* Nothing is on its way to the disk any more that takes the record on.
Quiet == ~(worker = "persist" /\ Setter(write, recovery.epoch)) /\ NoSetter(queue, recovery.epoch)

\* What must be marked is marked when the worker has nothing else to do; a worker
\* that has ended, one whose epoch is on disk as far as it goes, and one that has
\* marked its epoch leave a record that tells.
GapTold ==
    /\ worker \in {"idle", "mark"} /\ queue = <<>> => ~Unmarked
    /\ worker = "ended" => attachment = "closed" /\ queue = <<>> /\ ToldOf(FALSE)
    /\ attachment # "checkpoint" /\ written = recovery.epoch /\ Quiet => ToldOf(FALSE)
    /\ marked = recovery.epoch /\ written # recovery.epoch /\ worker # "mark" => ToldOf(TRUE)

\* An empty queue holds nothing.
LEMMA NothingHeld == Held(<<>>) = 0
  <1>1. DOMAIN <<>> = {}
    OBVIOUS
  <1>2. Held(<<>>) = MapThenFoldSet(LAMBDA w, total : total + Size(w.event), 0, LAMBDA i : <<>>[i],
                                    LAMBDA s : CHOOSE x \in s : TRUE, {})
    BY <1>1 DEF Held, FoldSeq, FoldFunction, FoldFunctionOnSet
  <1>3. MapThenFoldSet(LAMBDA w, total : total + Size(w.event), 0, LAMBDA i : <<>>[i],
                       LAMBDA s : CHOOSE x \in s : TRUE, {}) = 0
    BY DEF MapThenFoldSet
  <1> QED BY <1>2, <1>3

\* Hence an event is not lost when the worker has nothing to do.
LEMMA EmptyFits ==
    ASSUME queue = <<>>, ~permit, NEW e
    PROVE  Fits(e)
  <1>1. Len(queue) < Slots
    BY CacheWriterAssumption
  <1>2. Held(queue) = 0
    BY NothingHeld
  <1>3. Size(e) \in {1, 2}
    BY DEF Size
  <1>4. 0 + 0 + Size(e) <= Permits
    BY <1>3, CacheWriterAssumption
  <1> QED BY <1>1, <1>2, <1>4 DEF Fits

\* The latest directory is a directory.
LEMMA LatestTyped ==
    ASSUME NEW k \in Disk
    PROVE  Latest(k) \in Directory
  BY DiskTyped DEF Latest

\* recover_archive changes nothing of what apply reads.
LEMMA LatestRecovered ==
    ASSUME NEW k \in Good
    PROVE  Latest(RecoverArchive(k)).current = Latest(k).current
  <1> DEFINE w == RecoverArchive(k)
  <1>1. k \in Disk /\ k.previous \in Directory /\ k.archived \in Directory
    BY DiskTyped DEF Good
  <1>2. /\ w.live = k.live /\ w.archived = (IF k.archived.exists THEN k.archived ELSE k.previous)
        /\ w.previous = NoDirectory
    BY <1>1 DEF RecoverArchive, Disk
  <1>3. k.previous.exists \/ k.previous.current = None
    BY <1>1, FoundWork DEF Found
  <1> HIDE DEF w
  <1>4. NoDirectory.current = None /\ ~NoDirectory.exists
    BY DEF NoDirectory
  <1>5. CASE k.live.exists
    BY <1>2, <1>5 DEF Latest, w
  <1>6. CASE ~k.live.exists /\ k.archived.exists
    BY <1>2, <1>6 DEF Latest, w
  <1>7. CASE ~k.live.exists /\ ~k.archived.exists
    BY <1>2, <1>3, <1>4, <1>7 DEF Latest, w
  <1> QED BY <1>5, <1>6, <1>7

\* apply reads the latest record.
LEMMA ReadsLatest ==
    ASSUME disk \in Good
    PROVE  ReadRecord = Latest(disk).current
  <1> DEFINE recovered == RecoverArchive(disk)
             resumed == Resume(recovered)
             copied == Preserve(resumed)
             kept == MarkPreserved(copied)
             rest == IF Legacy(resumed) /\ (~resumed.live.current.preserved \/ resumed.preserved = None)
                     THEN <<copied, kept>> ELSE <<>>
  <1>1. Latest(recovered).current = Latest(disk).current
    BY LatestRecovered
  <1>2. recovered \in Good /\ recovered.previous = NoDirectory
    BY Recovers
  <1>3. Opened(disk) = <<disk, recovered, resumed>> \o rest
    BY DEF Opened
  <1>4. Opened(disk)[3] = resumed
    <2>1. \E S : rest \in Seq(S) /\ <<disk, recovered, resumed>> \in Seq(S)
      <3>1. rest \in {<<copied, kept>>, <<>>}
        OBVIOUS
      <3> HIDE DEF recovered, resumed, copied, kept, rest
      <3>2. PICK S : S = {disk, recovered, resumed, copied, kept}
        OBVIOUS
      <3>3. <<disk, recovered, resumed>> \in Seq(S) /\ <<copied, kept>> \in Seq(S) /\ <<>> \in Seq(S)
        BY <3>2
      <3> QED BY <3>1, <3>3
    <2> HIDE DEF recovered, resumed
    <2> HIDE DEF rest
    <2> QED BY <1>3, <2>1
  <1> HIDE DEF rest
  <1>5. resumed.live.current = Latest(recovered).current
    <2> HIDE DEF recovered
    <2> DEFINE d == CASE recovered.live.exists -> recovered.live
                      [] ~recovered.live.exists /\ Found(recovered.archived) -> Copy(recovered.archived)
                      [] OTHER -> EmptyDirectory
    <2>1. recovered \in Disk /\ recovered.live \in Directory /\ recovered.archived \in Directory
          /\ recovered.live.exists \in BOOLEAN
      BY <1>2, DiskTyped DEF Good, Directory
    <2>2. resumed.live = d
      BY <2>1 DEF Resume, Disk
    <2> HIDE DEF resumed
    <2>3. CASE recovered.live.exists
      <3>1. d = recovered.live
        BY <2>3
      <3> QED BY <2>2, <2>3, <3>1 DEF Latest
    <2>4. CASE ~recovered.live.exists /\ Found(recovered.archived)
      <3>1. d = Copy(recovered.archived)
        BY <2>4
      <3>2. d.current = recovered.archived.current /\ recovered.archived.exists
        BY <2>1, <2>4, <3>1, Copied, FoundWork
      <3> QED BY <2>2, <2>4, <3>2 DEF Latest
    <2>5. CASE ~recovered.live.exists /\ ~Found(recovered.archived)
      <3>1. d = EmptyDirectory
        BY <2>5
      <3>2. d.current = None
        BY <3>1 DEF EmptyDirectory, NoDirectory
      <3>3. recovered.archived.current = None /\ recovered.previous.current = None
        BY <1>2, <2>5 DEF Found, NoDirectory
      <3> QED BY <2>2, <2>5, <3>2, <3>3 DEF Latest
    <2> QED BY <2>3, <2>4, <2>5
  <1> QED BY <1>1, <1>4, <1>5 DEF ReadRecord

\* The record of the latest directory is at hand if the live directory exists.
LEMMA LiveLatest ==
    ASSUME NEW k, k.live.exists
    PROVE  Latest(k).current = k.live.current
  BY DEF Latest

\* A resize or a history leaves the record as far as it was and as telling, or
\* makes it tell.
Continues(c, d) == d = None \/ Tells(d) \/ (c # None /\ d.seq = c.seq /\ ~Tells(c))

\* The last element of a sequence behind another one.
LEMMA LastOfJoined ==
    ASSUME NEW S, NEW s \in Seq(S), NEW t \in Seq(S), t # <<>>
    PROVE  Last(s \o t) = t[Len(t)]
  <1>1. Len(s \o t) = Len(s) + Len(t)
    OBVIOUS
  <1>2. \A i \in 1 .. Len(t) : (s \o t)[Len(s) + i] = t[i]
    OBVIOUS
  <1>3. Len(t) \in 1 .. Len(t)
    OBVIOUS
  <1> QED BY <1>1, <1>2, <1>3 DEF Last

\* Behind others, the last two disks.
LEMMA LastJoined ==
    ASSUME NEW S, NEW A \in Seq(S), NEW a \in S, NEW b \in S
    PROVE  Last(A \o <<a, b>>) = b
  <1> DEFINE B == <<a, b>>
  <1>1. B \in Seq(S) /\ Len(B) = 2 /\ B[2] = b /\ B # <<>>
    OBVIOUS
  <1> HIDE DEF B
  <1>2. Last(A \o B) = B[Len(B)]
    BY <1>1, LastOfJoined
  <1> QED BY <1>1, <1>2 DEF B

\* The disks of a part of an append are a sequence of disks.
LEMMA PartlySequence ==
    ASSUME NEW k, NEW d, NEW rows \in Seq(Nat)
    PROVE  \E S : Partly(k, d, rows) \in Seq(S)
  <1> DEFINE after(i) == [k EXCEPT !.live.files = Extend(d, SubSeq(rows, 1, i - 1)).files]
             n == Len(rows) + 1
             S == {after(i) : i \in 1 .. n}
  <1>1. n \in Nat
    OBVIOUS
  <1>2. Partly(k, d, rows) = IF InPlace(d, rows) THEN [i \in 1 .. n |-> after(i)] ELSE <<>>
    BY DEF Partly
  <1> HIDE DEF after, n
  <1>3. [i \in 1 .. n |-> after(i)] \in Seq(S)
    <2> DEFINE f == [i \in 1 .. n |-> after(i)]
    <2>1. f \in [1 .. n -> S]
      OBVIOUS
    <2> HIDE DEF f, S
    <2>2. f \in Seq(S)
      BY <1>1, <2>1
    <2> QED BY <2>2 DEF f
  <1>4. <<>> \in Seq(S)
    OBVIOUS
  <1>5. Partly(k, d, rows) \in Seq(S)
    BY <1>2, <1>3, <1>4
  <1> QED BY <1>5

\* Sequences of some disks and of others.
LEMMA SequencesJoined ==
    ASSUME NEW S, NEW A \in Seq(S), NEW T, NEW B \in Seq(T)
    PROVE  A \in Seq(S \cup T) /\ B \in Seq(S \cup T) /\ A \o B \in Seq(S \cup T)
  <1>1. A \in Seq(S \cup T)
    OBVIOUS
  <1>2. B \in Seq(S \cup T)
    OBVIOUS
  <1> QED BY <1>1, <1>2, Joined

\* apply that returns without an error: the record is where the event takes it,
\* or was further already.
LEMMA ApplyTakes ==
    ASSUME NEW x \in Nat \cup {None}, NEW m, disk \in Fine(x, m), NEW e \in Event, EventSound(x, m, e),
           Apply(disk, e).ok, NEW N, N = Latest(Last(Apply(disk, e).steps)).current
    PROVE  /\ Sets(e) => N = None \/ (N.seq \in Nat /\ N.seq >= Reach(e))
           /\ ~Sets(e) => Continues(Latest(disk).current, N)
  <1> DEFINE opened == Opened(disk)
             result == Apply(disk, e)
             before == Append(opened, Midway(e)) \o Partly(Midway(e), Changing(e), Appending(e))
                         \o <<Whole(e)>>
             last == before \o Saved(Whole(e), Resulting(e).current)
             refused == Refused(Start, e)
             R == ReadRecord
  <1>1. result = CASE Skips(e) -> [ok |-> TRUE, steps |-> opened]
                   [] ~Skips(e) /\ refused -> [ok |-> FALSE, steps |-> opened]
                   [] OTHER -> IF Stuck(e) THEN [ok |-> FALSE, steps |-> Append(opened, Midway(e))]
                               ELSE [ok |-> TRUE, steps |-> last]
    BY ApplyIs
  <1>2. disk \in Good /\ R = Latest(disk).current
    BY ReadsLatest DEF Fine
  <1>3. opened \in Seq(Fine(x, m)) /\ Start \in Work /\ Exact(x, m, Start)
    BY OpensFine
  <1>4. /\ SessionAt \in Open /\ SessionAt = Last(opened)
        /\ R = None <=> ~Found(SessionAt.live)
        /\ R # None => /\ R \in Record
                       /\ SessionAt.live.current \in {R, [R EXCEPT !.preserved = TRUE]}
    BY <1>2, OpensSession DEF SessionAt, ReadRecord
  <1>5. SessionAt.live \in Directory
    BY <1>4, DiskTyped DEF Open, Good
  <1>6. Start.current = IF R # None THEN R ELSE NewCurrent
    BY <1>5 DEF Start, Directory
  <1>7. Skips(e) = Ignored(Start.current, R # None, e)
    BY DEF Skips
  <1>8. e.kind \in {"checkpoint", "synced", "output", "resize"}
    BY DEF Event
  <1> HIDE DEF opened, result, R
  <1>9. CASE Skips(e)
    <2>1. result.steps = opened
      BY <1>1, <1>9
    <2>2. N = SessionAt.live.current
      BY <1>4, <2>1, LiveLatest DEF result, Open
    <2>3. CASE R = None
      <3>1. N = None
        BY <1>4, <2>2, <2>3 DEF Found
      <3> QED BY <3>1 DEF Continues
    <2>4. CASE R # None
      <3>1. Start.current = R /\ R \in Record /\ N \in {R, [R EXCEPT !.preserved = TRUE]}
        BY <1>4, <1>6, <2>2, <2>4
      <3>2. N.seq = R.seq /\ Tells(N) = Tells(R) /\ R.seq \in Nat
        BY <3>1 DEF Tells, Record, Current
      <3>3. Ignored(R, TRUE, e)
        BY <1>7, <1>9, <2>4, <3>1
      <3>4. CASE e.kind = "checkpoint"
        BY <3>2, <3>3, <3>4 DEF Ignored, Sets, Reach, Event
      <3>5. CASE e.kind = "output"
        BY <3>2, <3>3, <3>5 DEF Ignored, Sets, Reach, Event
      <3>6. CASE e.kind \in {"synced", "resize"}
        <4>1. ~Sets(e)
          BY <3>6 DEF Sets
        <4> QED BY <1>2, <2>4, <3>2, <4>1 DEF Continues
      <3> QED BY <1>8, <3>4, <3>5, <3>6
    <2> QED BY <2>3, <2>4
  <1>10. CASE ~Skips(e)
    <2>1. ~refused /\ ~Stuck(e) /\ result.steps = last
      <3>1. result.ok
        BY DEF result
      <3> QED BY <1>1, <1>10, <3>1
    <2> DEFINE u == Changing(e)
               rows == Appending(e)
               w == Resulting(e)
    <2>2. /\ w \in Work /\ u \in Work
          /\ SessionAt \in Open /\ rows \in Seq(Nat)
      BY <1>2, <2>1, ApplyParts
    <2>3. TakesTo(Start.current, e, u.current) /\ Kin(u.current, w.current)
      <3> DEFINE has == R # None
      <3>1. has \in BOOLEAN /\ (~has => Start.current.seq = 0) /\ ~Ignored(Start.current, has, e)
        BY <1>6, <1>7, <1>10 DEF NewCurrent
      <3>2. ~Refused(Start, e)
        BY <2>1
      <3> HIDE DEF has
      <3>3. TakesTo(Start.current, e, Updated(Start, e).current)
        BY <1>3, <3>1, <3>2, UpdatedExact
      <3>4. PICK p \in Nat, n \in Nat :
              Renewed(x, m, Updated(Start, e), p, n) /\ Scrolled(Start.current, e) = Rows(p, p + n)
        BY <1>3, <3>1, <3>2, UpdatedExact
      <3>5. Renewed(x, m, u, p, n) /\ rows = Newest(Rows(p, p + n), Limit)
        BY <3>4 DEF Changing, Appending
      <3>6. InPlace(u, rows) => Intact(u)
        BY <2>1 DEF Stuck
      <3>7. w = AppendHistory(u, rows)
        BY DEF Resulting
      <3>8. TakesTo(Start.current, e, u.current)
        BY <3>3 DEF Changing
      <3> HIDE DEF u, rows, w
      <3> QED BY <3>5, <3>6, <3>7, <3>8, AppendedExact
    <2>4. N = w.current
      <3> DEFINE committed == Commit(Whole(e), w.current)
                 cleaned == [committed EXCEPT !.live = Copy(committed.live)]
      <3>1. Apply(disk, e).steps \in Seq(Fine(x, m))
        BY AppliesFine
      <3>2. Whole(e) \in Open /\ w.current \in Record
        <4> DEFINE G == w.files
        <4>1. /\ Found(SessionAt.live) => Preserves(SessionAt.live.current, SessionAt.live.files, G)
              /\ G \in Files
          BY <1>2, <2>1, <2>2, ApplyParts DEF Work
        <4>2. Whole(e) = [SessionAt EXCEPT !.live.files = G]
          BY DEF Whole
        <4> HIDE DEF G
        <4>3. [SessionAt EXCEPT !.live.files = G] \in Open
          BY <2>2, <4>1, FilesWritten
        <4> QED BY <2>2, <4>2, <4>3 DEF Work
      <3>3. Saved(Whole(e), w.current) = <<committed, cleaned>>
        BY DEF Saved
      <3>4. committed \in Open /\ Found(committed.live) /\ committed.live.current = w.current
        BY <3>2, Committed
      <3> HIDE DEF committed
      <3>5. committed.live \in Directory /\ committed \in Disk
        BY <3>4, DiskTyped DEF Open, Good
      <3>6. Copy(committed.live) \in Directory /\ Copy(committed.live).exists
            /\ Copy(committed.live).current = w.current
        BY <3>4, <3>5, Copied
      <3>7. cleaned.live.exists /\ cleaned.live.current = w.current
        BY <3>5, <3>6, LiveReplaced
      <3> HIDE DEF cleaned
      <3>8. Last(last) = cleaned
        <4>1. before \o <<committed, cleaned>> = last
          BY <3>3
        <4>2. \E S : before \in Seq(S) /\ committed \in S /\ cleaned \in S
          <5> DEFINE some == Append(opened, Midway(e))
                     part == Partly(Midway(e), u, rows)
                     S == Fine(x, m) \cup {Midway(e)}
                     U == {Whole(e), committed, cleaned}
          <5>1. some \in Seq(S)
            <6>1. opened \in Seq(S)
              BY <1>3
            <6> QED BY <6>1
          <5>2. PICK T : part \in Seq(T)
            <6> HIDE DEF u, rows
            <6> QED BY <2>2, PartlySequence
          <5>3. <<Whole(e)>> \in Seq(U)
            OBVIOUS
          <5>4. before = (some \o part) \o <<Whole(e)>>
            OBVIOUS
          <5> HIDE DEF some, part, S, before
          <5>5. some \o part \in Seq(S \cup T)
            BY <5>1, <5>2, SequencesJoined
          <5>6. (some \o part) \o <<Whole(e)>> \in Seq((S \cup T) \cup U)
            BY <5>3, <5>5, SequencesJoined
          <5>7. committed \in (S \cup T) \cup U /\ cleaned \in (S \cup T) \cup U
            OBVIOUS
          <5> QED BY <5>4, <5>6, <5>7
        <4> HIDE DEF before, last
        <4> QED BY <4>1, <4>2, LastJoined
      <3> QED BY <2>1, <3>7, <3>8, LiveLatest DEF result
    <2>5. w.current.seq = u.current.seq /\ (Tells(u.current) => Tells(w.current)) /\ u.current.seq \in Nat
      BY <2>2, <2>3 DEF Kin, Tells, Work, Record, Current
    <2> HIDE DEF u, w, rows
    <2>6. CASE Sets(e)
      <3>1. N.seq = Reach(e) /\ N.seq \in Nat
        BY <2>3, <2>4, <2>5, <2>6 DEF TakesTo
      <3> QED BY <2>6, <3>1
    <2>7. CASE e.kind = "resize"
      <3>1. Tells(N)
        BY <2>3, <2>4, <2>5, <2>7 DEF TakesTo
      <3> QED BY <2>7, <3>1 DEF Continues, Sets
    <2>8. CASE e.kind = "synced"
      <3>1. Start.current.manifest # None
        BY <1>7, <1>10, <2>8 DEF Ignored
      <3>2. R # None /\ Start.current = R
        BY <1>6, <3>1 DEF NewCurrent
      <3>3. N.seq = R.seq /\ ~Tells(R)
        BY <2>3, <2>4, <2>5, <2>8, <3>1, <3>2 DEF TakesTo, Tells
      <3> QED BY <1>2, <2>8, <3>2, <3>3 DEF Continues, Sets
    <2> QED BY <1>8, <2>6, <2>7, <2>8 DEF Sets
  <1> QED BY <1>9, <1>10

\* mark_history_gap.
LEMMA LatestMarked ==
    ASSUME NEW k \in Good, Found(k.live)
    PROVE  Tells(Latest(MarkHistoryGap(k)).current)
  <1> DEFINE c == [Unjoined(k.live.current) EXCEPT !.synced = FALSE]
             d == [k.live EXCEPT !.current = c]
             w == MarkHistoryGap(k)
  <1>1. k \in Disk /\ k.live \in Work /\ k.live.exists
    BY DiskTyped, FoundWork DEF Good
  <1>2. c \in Record /\ Tells(c)
    BY <1>1 DEF Work, Unjoined, Record, Current, Tells
  <1>3. w = [k EXCEPT !.live = d, !.saved = View(d)]
    BY DEF MarkHistoryGap, Commit
  <1> HIDE DEF c
  <1>4. d.exists /\ d.current = c
    BY <1>1, <1>2, Recorded
  <1> HIDE DEF d
  <1>5. w.live = d
    BY <1>1, <1>3 DEF Disk
  <1> QED BY <1>2, <1>4, <1>5, LiveLatest

\* archive.
LEMMA LatestArchived ==
    ASSUME NEW k \in Good, k.live.exists, NEW w, \E i \in 1 .. 5 : w = Archive(k)[i]
    PROVE  Latest(w).current = Latest(k).current
  <1> DEFINE recovered == RecoverArchive(k)
             aside == [recovered EXCEPT !.previous = recovered.archived, !.archived = NoDirectory]
             moved == [aside EXCEPT !.archived = aside.live, !.live = NoDirectory]
             removed == [moved EXCEPT !.previous = NoDirectory]
  <1>1. Archive(k) = <<k, recovered, aside, moved, removed>>
    BY DEF Archive
  <1>2. recovered \in Good /\ recovered.live = k.live
    BY Recovers
  <1>3. Latest(recovered).current = Latest(k).current
    BY LatestRecovered
  <1> HIDE DEF recovered
  <1>4. recovered \in Disk
    BY <1>2 DEF Good
  <1>5. aside \in Disk /\ aside.live = k.live
    BY <1>2, <1>4, DiskTyped, EmptyTyped DEF Disk
  <1> HIDE DEF aside
  <1>6. moved \in Disk /\ moved.live = NoDirectory /\ moved.archived = k.live
    BY <1>5, DiskTyped, EmptyTyped DEF Disk
  <1> HIDE DEF moved
  <1>7. removed.live = NoDirectory /\ removed.archived = k.live
    BY <1>6 DEF Disk
  <1> HIDE DEF removed
  <1>8. \A v \in {aside, moved, removed} : Latest(v).current = k.live.current
    BY <1>5, <1>6, <1>7, EmptyTyped DEF Latest
  <1>9. Latest(k).current = k.live.current
    BY LiveLatest
  <1>10. w \in {k, recovered, aside, moved, removed}
    <2>1. PICK i \in 1 .. 5 : w = Archive(k)[i]
      OBVIOUS
    <2>2. i \in {1, 2, 3, 4, 5}
      OBVIOUS
    <2> QED BY <1>1, <2>1, <2>2
  <1> QED BY <1>3, <1>8, <1>9, <1>10

\* delete_archive.
LEMMA LatestDeleted ==
    ASSUME NEW k \in Good, k.previous = NoDirectory, k.archived.exists,
           NEW left \in {NoDirectory} \cup Remaining(k.archived)
    PROVE  Latest([Forget(k) EXCEPT !.archived = left]).current \in {Latest(k).current, None}
  <1> DEFINE w == [Forget(k) EXCEPT !.archived = left]
             a == k.archived
  <1>1. k \in Disk /\ a \in Directory
    BY DiskTyped DEF Good
  <1>2. w.live = k.live /\ w.archived = left /\ w.previous = NoDirectory
    <2>1. CASE Found(k.live)
      BY <1>1, <2>1 DEF Forget, Disk
    <2>2. CASE ~Found(k.live)
      BY <1>1, <2>2 DEF Forget, Disk
    <2> QED BY <2>1, <2>2
  <1>3. left = NoDirectory \/ (left.exists /\ left.current \in {a.current, None})
    <2> SUFFICES ASSUME left \in Remaining(a)
                 PROVE  left.exists /\ left.current \in {a.current, None}
      OBVIOUS
    <2>1. PICK p \in (SUBSET DOMAIN a.files) \X {a.current, None} :
             left = [a EXCEPT !.files = Restrict(a.files, p[1]), !.current = p[2]]
      BY DEF Remaining
    <2>2. p[2] \in {a.current, None}
      OBVIOUS
    <2> QED BY <1>1, <2>1, <2>2 DEF Directory
  <1>4. NoDirectory.current = None
    BY DEF NoDirectory
  <1> HIDE DEF w
  <1>5. CASE k.live.exists
    BY <1>2, <1>5 DEF Latest, w
  <1>6. CASE ~k.live.exists
    <2>1. Latest(k).current = a.current
      BY <1>6 DEF Latest
    <2>2. Latest(w).current \in {left.current, None}
      BY <1>2, <1>4, <1>6 DEF Latest
    <2> QED BY <1>3, <1>4, <2>1, <2>2 DEF w
  <1> QED BY <1>5, <1>6

\* Readers, the archive and its removal: the latest record stays, or is gone.
LEMMA LatestStored ==
    ASSUME disk \in Good, StoreStep
    PROVE  LatestRecord' \in {LatestRecord, None}
  <1>1. CASE Load
    BY <1>1, LatestRecovered DEF Load, LatestRecord
  <1>2. CASE ArchiveSession
    <2> DEFINE steps == Archive(disk)
    <2>1. disk.live.exists /\ (Perform(steps) \/ Interrupt(steps))
      BY <1>2 DEF ArchiveSession
    <2>2. Len(steps) = 5
      BY DEF Archive
    <2>3. \E i \in 1 .. 5 : disk' = steps[i]
      <3> HIDE DEF steps
      <3>1. CASE Perform(steps)
        BY <2>2, <3>1 DEF Perform, Last
      <3>2. CASE Interrupt(steps)
        BY <2>2, <3>2 DEF Interrupt
      <3> QED BY <2>1, <3>1, <3>2
    <2>4. Latest(disk').current = Latest(disk).current
      BY <2>1, <2>3, LatestArchived
    <2> QED BY <2>4 DEF LatestRecord
  <1>3. CASE DeleteArchive
    <2> DEFINE recovered == RecoverArchive(disk)
    <2>1. recovered.archived.exists /\
          \E left \in {NoDirectory} \cup Remaining(recovered.archived) :
              disk' = [Forget(recovered) EXCEPT !.archived = left]
      BY <1>3 DEF DeleteArchive
    <2>2. recovered \in Good /\ recovered.previous = NoDirectory
          /\ Latest(recovered).current = Latest(disk).current
      BY Recovers, LatestRecovered
    <2> HIDE DEF recovered
    <2>3. Latest(disk').current \in {Latest(recovered).current, None}
      BY <2>1, <2>2, LatestDeleted
    <2> QED BY <2>2, <2>3 DEF LatestRecord
  <1> QED BY <1>1, <1>2, <1>3 DEF StoreStep

\* An event joins the writes of epoch E.
LEMMA WriteAppended ==
    ASSUME NEW q \in Seq(Write), NEW E \in Nat, NEW e \in Event, NEW v, v = [event |-> e, epoch |-> E]
    PROVE  /\ \A s, t : Reaches(q, E, s) /\ (IF Sets(e) THEN Reach(e) = t ELSE t = s)
                           => Reaches(Append(q, v), E, t)
           /\ NoSetter(Append(q, v), E) => NoSetter(q, E) /\ ~Sets(e)
           /\ Led(q, E) /\ (e.kind = "checkpoint" \/ HasLeader(q, E)) => Led(Append(q, v), E)
           /\ e.kind = "checkpoint" \/ HasLeader(q, E) => HasLeader(Append(q, v), E)
           /\ \A waiting \in BOOLEAN : Until(q, E, waiting) => Until(Append(q, v), E, FALSE)
           /\ Append(q, v) # <<>>
  <1> DEFINE n == Len(q)
             p == Append(q, v)
  <1>1. v.event = e /\ v.epoch = E
    OBVIOUS
  <1>2. v \in Write
    BY DEF Write
  <1>3. n \in Nat /\ Len(p) = n + 1 /\ p[n + 1] = v /\ \A i \in 1 .. n : p[i] = q[i]
    BY <1>2
  <1> HIDE DEF n, p
  <1>4. p # <<>>
    <2>1. Len(p) # 0
      BY <1>3
    <2> QED BY <2>1
  <1>5. ASSUME NEW s, NEW t, Reaches(q, E, s), IF Sets(e) THEN Reach(e) = t ELSE t = s
        PROVE  Reaches(p, E, t)
    <2> SUFFICES ASSUME NEW i \in 1 .. n + 1, Setter(p[i], E)
                 PROVE  \E j \in i .. n + 1 : Setter(p[j], E) /\ Reach(p[j].event) = t
      BY <1>3 DEF Reaches
    <2>1. CASE Sets(e)
      <3>1. Setter(p[n + 1], E) /\ Reach(p[n + 1].event) = t
        BY <1>1, <1>3, <1>5, <2>1 DEF Setter
      <3>2. n + 1 \in i .. n + 1
        BY <1>3
      <3> QED BY <3>1, <3>2
    <2>2. CASE ~Sets(e)
      <3>1. i # n + 1
        BY <1>1, <1>3, <2>2 DEF Setter
      <3>2. i \in 1 .. n
        BY <1>3, <3>1
      <3>3. PICK j \in i .. n : Setter(q[j], E) /\ Reach(q[j].event) = s
        BY <1>3, <1>5, <3>2 DEF Reaches, n
      <3>4. j \in 1 .. n /\ j \in i .. n + 1
        BY <1>3, <3>2
      <3> QED BY <1>3, <1>5, <2>2, <3>3, <3>4
    <2> QED BY <2>1, <2>2
  <1>6. ASSUME NoSetter(p, E) PROVE NoSetter(q, E) /\ ~Sets(e)
    <2>1. \A i \in 1 .. n : i \in 1 .. n + 1
      BY <1>3
    <2>2. n + 1 \in 1 .. n + 1
      BY <1>3
    <2> QED BY <1>1, <1>3, <1>6, <2>1, <2>2 DEF NoSetter, Setter, n
  <1>7. ASSUME e.kind = "checkpoint" \/ HasLeader(q, E) PROVE HasLeader(p, E)
    <2>1. \A i \in 1 .. n : i \in 1 .. n + 1
      BY <1>3
    <2>2. n + 1 \in 1 .. n + 1
      BY <1>3
    <2> QED BY <1>1, <1>3, <1>7, <2>1, <2>2 DEF HasLeader, Leader, n
  <1>8. ASSUME Led(q, E), e.kind = "checkpoint" \/ HasLeader(q, E) PROVE Led(p, E)
    <2> SUFFICES ASSUME NEW i \in 1 .. n + 1, p[i].epoch = E
                 PROVE  \E j \in 1 .. i : Leader(p[j], E)
      BY <1>3 DEF Led
    <2>1. CASE i \in 1 .. n
      <3>1. PICK j \in 1 .. i : Leader(q[j], E)
        BY <1>3, <1>8, <2>1 DEF Led, n
      <3>2. j \in 1 .. n
        BY <1>3, <2>1
      <3> QED BY <1>3, <3>1, <3>2
    <2>2. CASE i = n + 1
      <3>1. PICK j \in 1 .. n + 1 : Leader(p[j], E)
        BY <1>3, <1>7, <1>8 DEF HasLeader
      <3> QED BY <2>2, <3>1
    <2> QED BY <1>3, <2>1, <2>2
  <1>9. ASSUME NEW waiting \in BOOLEAN, Until(q, E, waiting) PROVE Until(p, E, FALSE)
    <2> SUFFICES ASSUME NEW i \in 1 .. n + 1 PROVE p[i].epoch <= E
      BY <1>3 DEF Until
    <2>1. i \in 1 .. n \/ i = n + 1
      BY <1>3
    <2>2. CASE i \in 1 .. n
      BY <1>3, <1>9, <2>2 DEF Until, n
    <2>3. CASE i = n + 1
      BY <1>1, <1>3, <2>3
    <2> QED BY <2>1, <2>2, <2>3
  <1> QED BY <1>4, <1>5, <1>6, <1>7, <1>8, <1>9 DEF p

\* The first of the writes is taken.
LEMMA WriteTaken ==
    ASSUME NEW q \in Seq(Write), q # <<>>, NEW E \in Nat, NEW h, h = Head(q), NEW r, r = Tail(q)
    PROVE  /\ h \in Write
           /\ \A s : Reaches(q, E, s) =>
                Reaches(r, E, s) /\ (Setter(h, E) => Reach(h.event) = s \/ ~NoSetter(r, E))
           /\ NoSetter(r, E) /\ ~Setter(h, E) => NoSetter(q, E)
           /\ Led(q, E) => IF h.epoch = E THEN h.event.kind = "checkpoint" ELSE Led(r, E)
           /\ HasLeader(q, E) => h.epoch = E \/ HasLeader(r, E)
           /\ \A waiting : Until(q, E, waiting) => Until(r, E, waiting) /\ h.epoch <= E /\ (waiting => h.epoch < E)
  <1> DEFINE n == Len(q)
  <1>1. /\ n \in Nat /\ n # 0 /\ Len(r) = n - 1 /\ h = q[1]
        /\ \A i \in 1 .. n - 1 : r[i] = q[i + 1]
    OBVIOUS
  <1>2. h \in Write
    OBVIOUS
  <1>3. n = Len(q)
    OBVIOUS
  <1> HIDE DEF n
  <1>4. 1 \in 1 .. n
    BY <1>1
  <1>5. \A i \in 1 .. n - 1 : i + 1 \in 1 .. n
    BY <1>1
  <1>6. \A i \in 1 .. n : i = 1 \/ i - 1 \in 1 .. n - 1
    BY <1>1
  <1>7. \A i \in 1 .. n : i # 1 => q[i] = r[i - 1]
    <2> SUFFICES ASSUME NEW i \in 1 .. n, i # 1 PROVE q[i] = r[i - 1]
      OBVIOUS
    <2>1. i - 1 \in 1 .. n - 1 /\ (i - 1) + 1 = i
      BY <1>1
    <2> QED BY <1>1, <2>1
  <1>8. ASSUME NEW s, Reaches(q, E, s)
        PROVE  Reaches(r, E, s) /\ (Setter(h, E) => Reach(h.event) = s \/ ~NoSetter(r, E))
    <2>1. Reaches(r, E, s)
      <3> SUFFICES ASSUME NEW i \in 1 .. n - 1, Setter(r[i], E)
                   PROVE  \E j \in i .. n - 1 : Setter(r[j], E) /\ Reach(r[j].event) = s
        BY <1>1 DEF Reaches
      <3>1. i + 1 \in 1 .. n /\ Setter(q[i + 1], E)
        BY <1>1, <1>5
      <3>2. PICK j \in i + 1 .. n : Setter(q[j], E) /\ Reach(q[j].event) = s
        BY <1>3, <1>8, <3>1 DEF Reaches
      <3>3. j \in 1 .. n /\ j # 1 /\ j - 1 \in i .. n - 1
        BY <1>1, <3>1
      <3>4. q[j] = r[j - 1]
        BY <1>7, <3>3
      <3> QED BY <3>2, <3>3, <3>4
    <2>2. ASSUME Setter(h, E) PROVE Reach(h.event) = s \/ ~NoSetter(r, E)
      <3>1. PICK j \in 1 .. n : Setter(q[j], E) /\ Reach(q[j].event) = s
        BY <1>1, <1>3, <1>4, <1>8, <2>2 DEF Reaches
      <3>2. CASE j = 1
        BY <1>1, <3>1, <3>2
      <3>3. CASE j # 1
        <4>1. j - 1 \in 1 .. n - 1 /\ Setter(r[j - 1], E)
          BY <1>6, <1>7, <3>1, <3>3
        <4> QED BY <1>1, <4>1 DEF NoSetter
      <3> QED BY <3>2, <3>3
    <2> QED BY <2>1, <2>2
  <1>9. ASSUME NoSetter(r, E), ~Setter(h, E) PROVE NoSetter(q, E)
    BY <1>1, <1>3, <1>6, <1>7, <1>9 DEF NoSetter
  <1>10. ASSUME Led(q, E) PROVE IF h.epoch = E THEN h.event.kind = "checkpoint" ELSE Led(r, E)
    <2>1. CASE h.epoch = E
      <3>1. PICK j \in 1 .. 1 : Leader(q[j], E)
        BY <1>1, <1>3, <1>4, <1>10, <2>1 DEF Led
      <3>2. j = 1
        OBVIOUS
      <3> QED BY <1>1, <2>1, <3>1, <3>2 DEF Leader
    <2>2. CASE h.epoch # E
      <3> SUFFICES ASSUME NEW i \in 1 .. n - 1, r[i].epoch = E
                   PROVE  \E j \in 1 .. i : Leader(r[j], E)
        BY <1>1, <2>2 DEF Led
      <3>1. i + 1 \in 1 .. n /\ q[i + 1].epoch = E
        BY <1>1, <1>5
      <3>2. PICK j \in 1 .. i + 1 : Leader(q[j], E)
        BY <1>3, <1>10, <3>1 DEF Led
      <3>3. j # 1
        BY <1>1, <2>2, <3>2 DEF Leader
      <3>4. j \in 1 .. n /\ j - 1 \in 1 .. i
        BY <1>1, <3>1, <3>3
      <3>5. q[j] = r[j - 1]
        BY <1>7, <3>3, <3>4
      <3> QED BY <3>2, <3>4, <3>5
    <2> QED BY <2>1, <2>2
  <1>11. ASSUME HasLeader(q, E) PROVE h.epoch = E \/ HasLeader(r, E)
    <2>1. PICK j \in 1 .. n : Leader(q[j], E)
      BY <1>3, <1>11 DEF HasLeader
    <2>2. CASE j = 1
      BY <1>1, <2>1, <2>2 DEF Leader
    <2>3. CASE j # 1
      <3>1. j - 1 \in 1 .. n - 1 /\ Leader(r[j - 1], E)
        BY <1>6, <1>7, <2>1, <2>3
      <3> QED BY <1>1, <3>1 DEF HasLeader
    <2> QED BY <2>2, <2>3
  <1>12. ASSUME NEW waiting, Until(q, E, waiting)
         PROVE  Until(r, E, waiting) /\ h.epoch <= E /\ (waiting => h.epoch < E)
    <2>1. h.epoch <= E /\ (waiting => h.epoch < E)
      BY <1>1, <1>3, <1>4, <1>12 DEF Until
    <2>2. \A i \in 1 .. n - 1 : r[i].epoch <= E /\ (waiting => r[i].epoch < E)
      BY <1>1, <1>3, <1>5, <1>12 DEF Until
    <2> QED BY <1>1, <2>1, <2>2 DEF Until
  <1> QED BY <1>2, <1>8, <1>9, <1>10, <1>11, <1>12

\* The writes are of epochs before F.
Before(q, F) == \A i \in 1 .. Len(q) : q[i].epoch < F

\* They are nothing to the epoch F.
LEMMA WritesBefore ==
    ASSUME NEW q \in Seq(Write), NEW F \in Nat, Before(q, F)
    PROVE  /\ \A s : Reaches(q, F, s)
           /\ NoSetter(q, F) /\ Led(q, F)
           /\ \A waiting : Until(q, F, waiting)
  <1>1. \A i \in 1 .. Len(q) : q[i].epoch # F /\ q[i].epoch < F /\ q[i].epoch <= F
    <2> SUFFICES ASSUME NEW i \in 1 .. Len(q)
                 PROVE  q[i].epoch # F /\ q[i].epoch < F /\ q[i].epoch <= F
      OBVIOUS
    <2>1. q[i].epoch \in Nat
      <3>1. q[i] \in Write
        OBVIOUS
      <3> QED BY <3>1 DEF Write
    <2>2. q[i].epoch < F
      BY DEF Before
    <2> QED BY <2>1, <2>2
  <1> QED BY <1>1 DEF Reaches, NoSetter, Led, Until, Setter

\* An epoch ends before its checkpoint has come, or goes on without one.
LEMMA EpochOver ==
    ASSUME NEW q \in Seq(Write), NEW E \in Nat, NEW waiting \in BOOLEAN, Until(q, E, waiting), NEW F,
           IF waiting THEN F = E ELSE F = E + 1
    PROVE  Before(q, F)
  <1> SUFFICES ASSUME NEW i \in 1 .. Len(q) PROVE q[i].epoch < F
    BY DEF Before
  <1>1. q[i].epoch \in Nat
    <2>1. q[i] \in Write
      OBVIOUS
    <2> QED BY <2>1 DEF Write
  <1>2. q[i].epoch <= E /\ (waiting => q[i].epoch < E)
    BY DEF Until
  <1> QED BY <1>1, <1>2

\* The record is the same, or gone, and the server not further.
LEMMA ToldKept ==
    ASSUME disk \in Good, LatestRecord' \in {LatestRecord, None}, failed' = failed,
           sent \in Nat, sent' \in Nat, sent' <= sent
    PROVE  /\ ToldOf(TRUE) => ToldOf(TRUE)'
           /\ ToldOf(FALSE) => ToldOf(FALSE)'
  <1>1. LatestRecord \in Record \cup {None}
    <2>1. disk \in Disk
      BY DEF Good
    <2>2. Latest(disk) \in Directory
      BY <2>1, LatestTyped
    <2> QED BY <2>2 DEF LatestRecord, Directory
  <1>2. LatestRecord # None => LatestRecord.seq \in Nat
    BY <1>1 DEF Record, Current
  <1> QED BY <1>2 DEF ToldOf

\* The writer tells of every gap.
GapInv == Epochs /\ InOrder /\ GapTold

\* An epoch is over, or no checkpoint begins it: nothing is on its way in it.
LEMMA EpochLost ==
    ASSUME CacheInv, Epochs, queue' = queue, write' = write, permit' = permit, written' = written, marked' = marked,
           worker' \in {worker, "release"}, recovery'.waiting = TRUE,
           IF recovery.waiting THEN recovery'.epoch = recovery.epoch ELSE recovery'.epoch = recovery.epoch + 1
    PROVE  Epochs' /\ InOrder' /\ written' # recovery'.epoch
           /\ (~recovery.waiting => marked' # recovery'.epoch)
  <1> DEFINE E == recovery.epoch
  <1>1. PICK F : F = recovery'.epoch
    OBVIOUS
  <1>2. queue \in Seq(Write) /\ E \in Nat /\ recovery.waiting \in BOOLEAN
    BY DEF CacheInv, Recoveries
  <1>3. F \in Nat /\ E <= F /\ IF recovery.waiting THEN F = E ELSE F = E + 1
    BY <1>1, <1>2
  <1>4. /\ written \in Nat /\ written <= E /\ (recovery.waiting => written # E)
        /\ marked \in Nat \cup {None} /\ (marked # None => marked <= E)
        /\ worker \in Places \ {"last"} /\ (permit => worker \in {"persist", "release"})
        /\ Until(queue, E, recovery.waiting)
    BY DEF Epochs
  <1>5. ASSUME worker = "persist"
        PROVE  write.epoch \in Nat /\ write.epoch < F /\ marked # F
    <2>1. write \in Write
      BY <1>5 DEF CacheInv
    <2>2. write.epoch \in Nat
      BY <2>1 DEF Write
    <2>3. /\ write.epoch <= E /\ (recovery.waiting => write.epoch < E)
          /\ write.epoch < E => marked # E
      BY <1>5 DEF Epochs
    <2> HIDE DEF E
    <2> QED BY <1>2, <1>3, <1>4, <2>2, <2>3, SessionCacheAssumption
  <1>6. Before(queue, F)
    BY <1>2, <1>3, <1>4, EpochOver
  <1>7. /\ Reaches(queue, F, sent') /\ NoSetter(queue, F) /\ Led(queue, F) /\ Until(queue, F, TRUE)
    BY <1>2, <1>3, <1>6, WritesBefore
  <1> HIDE DEF E
  <1>8. written \in Nat /\ written < F /\ (~recovery.waiting => marked # F) /\ (marked # None => marked <= F)
    BY <1>2, <1>3, <1>4, SessionCacheAssumption
  <1>9. Epochs'
    <2>1. written' \in Nat /\ written' <= F /\ written' # F
      BY <1>3, <1>8
    <2>2. worker' \in Places \ {"last"} /\ (permit' => worker' \in {"persist", "release"})
      BY <1>4 DEF Places
    <2>3. worker' = "persist" => write'.epoch <= F /\ write'.epoch < F /\ marked' # F
      <3>1. ASSUME worker = "persist" PROVE write.epoch <= F
        BY <1>3, <1>5, <3>1
      <3> QED BY <1>5, <3>1
    <2>4. Until(queue', F, recovery'.waiting)
      BY <1>7
    <2> QED BY <1>1, <1>4, <1>8, <2>1, <2>2, <2>3, <2>4 DEF Epochs
  <1>10. worker' = "persist" => worker = "persist" /\ write.epoch # F
    BY <1>5, <1>3
  <1>11. InOrder'
    BY <1>1, <1>7, <1>10 DEF InOrder, Saving, Setter
  <1> QED BY <1>1, <1>8, <1>9, <1>11

\* invalidate.
LEMMA Invalidated ==
    ASSUME recovery \in Recoveries, NEW r, r = Invalidate(recovery)
    PROVE  /\ r \in Recoveries /\ r.waiting = TRUE
           /\ IF recovery.waiting THEN r.epoch = recovery.epoch ELSE r.epoch = recovery.epoch + 1
  <1> DEFINE F == IF recovery.waiting THEN recovery.epoch ELSE recovery.epoch + 1
  <1>1. r = [recovery EXCEPT !.epoch = F, !.waiting = TRUE]
    BY DEF Invalidate
  <1>2. F \in Nat
    BY DEF Recoveries
  <1>3. IF recovery.waiting THEN F = recovery.epoch ELSE F = recovery.epoch + 1
    OBVIOUS
  <1> HIDE DEF F
  <1> QED BY <1>1, <1>2, <1>3 DEF Recoveries

\* enqueue: the event is lost, and its epoch with it, or it is the last of the
\* queue.
LEMMA EnqueueCases ==
    ASSUME recovery \in Recoveries, NEW e, Enqueue(e)
    PROVE  /\ UNCHANGED <<disk, write, permit, worker, written, marked, failed>>
           /\ \/ /\ queue' = queue /\ recovery'.waiting = TRUE /\ (~recovery.waiting => ~Fits(e))
                 /\ IF recovery.waiting THEN recovery'.epoch = recovery.epoch
                    ELSE recovery'.epoch = recovery.epoch + 1
              \/ /\ recovery.waiting => e.kind = "checkpoint"
                 /\ queue' = Append(queue, [event |-> e, epoch |-> recovery.epoch])
                 /\ recovery'.epoch = recovery.epoch /\ recovery'.waiting = FALSE
  <1>1. recovery.waiting \in BOOLEAN /\ recovery.epoch \in Nat
    BY DEF Recoveries
  <1>2. UNCHANGED <<disk, write, permit, worker, written, marked, failed>>
    BY DEF Enqueue, progress
  <1> DEFINE r == Invalidate(recovery)
  <1>3. /\ r \in Recoveries /\ r.waiting = TRUE
        /\ IF recovery.waiting THEN r.epoch = recovery.epoch ELSE r.epoch = recovery.epoch + 1
    BY Invalidated
  <1>4. CASE recovery.waiting /\ e.kind # "checkpoint" /\ UNCHANGED <<queue, recovery, asked>>
    BY <1>1, <1>2, <1>4
  <1>5. CASE /\ recovery.waiting => e.kind = "checkpoint"
             /\ queue' = Append(queue, [event |-> e, epoch |-> recovery.epoch])
             /\ recovery' = IF e.kind = "checkpoint"
                            THEN [recovery EXCEPT !.waiting = FALSE, !.requested = FALSE] ELSE recovery
    <2>1. recovery'.epoch = recovery.epoch /\ recovery'.waiting = FALSE
      <3>1. CASE e.kind = "checkpoint"
        BY <1>5, <3>1 DEF Recoveries
      <3>2. CASE e.kind # "checkpoint"
        BY <1>1, <1>5, <3>2
      <3> QED BY <3>1, <3>2
    <2> QED BY <1>2, <1>5, <2>1
  <1>6. CASE ~Fits(e) /\ Refuse(e.kind = "checkpoint") /\ UNCHANGED queue
    <2>1. recovery' = [r EXCEPT !.requested = FALSE] \/ recovery' = Request(r)
      BY <1>6 DEF Refuse
    <2> HIDE DEF r
    <2>2. recovery'.waiting = r.waiting /\ recovery'.epoch = r.epoch
      BY <1>3, <2>1 DEF Request, Recoveries
    <2> QED BY <1>2, <1>3, <1>6, <2>2
  <1> QED BY <1>4, <1>5, <1>6 DEF Enqueue

\* Something happens at the server.
LEMMA EnqueueGap ==
    ASSUME CacheInv, GapInv, NEW e \in Event, Enqueue(e), IF Sets(e) THEN Reach(e) = sent' ELSE sent' = sent,
           sent' \in Nat, attachment' = "open", attachment # "closed",
           attachment = "checkpoint" => e.kind = "checkpoint"
    PROVE  GapInv'
  <1> DEFINE E == recovery.epoch
             v == [event |-> e, epoch |-> E]
  <1>1. queue \in Seq(Write) /\ recovery \in Recoveries /\ E \in Nat /\ recovery.waiting \in BOOLEAN
    BY DEF CacheInv, Recoveries
  <1>2. UNCHANGED <<disk, write, permit, worker, written, marked, failed>>
    BY <1>1, EnqueueCases
  <1>3. LatestRecord' = LatestRecord
    BY <1>2 DEF LatestRecord
  <1>4. worker # "ended" /\ ToldOf(TRUE)' = ToldOf(TRUE)
    BY <1>2, <1>3 DEF GapInv, GapTold, ToldOf
  <1>5. CASE /\ queue' = queue /\ recovery'.waiting = TRUE /\ (~recovery.waiting => ~Fits(e))
             /\ IF recovery.waiting THEN recovery'.epoch = E ELSE recovery'.epoch = E + 1
    <2>1. /\ Epochs' /\ InOrder' /\ written' # recovery'.epoch
          /\ (~recovery.waiting => marked' # recovery'.epoch)
      BY <1>2, <1>5, EpochLost DEF GapInv
    <2>2. recovery.waiting => recovery'.epoch = E /\ written # E
      BY <1>5 DEF GapInv, Epochs
    <2>3. ASSUME worker' \in {"idle", "mark"}, queue' = <<>> PROVE ~Unmarked'
      <3>1. ~permit
        BY <1>2, <2>3 DEF GapInv, Epochs
      <3>2. recovery.waiting
        BY <1>5, <2>3, <3>1, EmptyFits
      <3>3. ~Unmarked
        BY <1>2, <1>5, <2>3 DEF GapInv, GapTold
      <3> QED BY <1>2, <2>2, <3>2, <3>3 DEF Unmarked
    <2>4. marked' = recovery'.epoch /\ worker' # "mark" => ToldOf(TRUE)'
      <3> SUFFICES ASSUME marked' = recovery'.epoch, worker' # "mark" PROVE ToldOf(TRUE)
        BY <1>4
      <3>1. marked = E /\ written # E /\ worker # "mark"
        BY <1>2, <2>1, <2>2
      <3> QED BY <3>1 DEF GapInv, GapTold
    <2>5. GapTold'
      BY <1>2, <1>4, <2>1, <2>3, <2>4 DEF GapTold
    <2> QED BY <2>1, <2>5 DEF GapInv
  <1>6. CASE /\ recovery.waiting => e.kind = "checkpoint"
             /\ queue' = Append(queue, v) /\ recovery'.epoch = E /\ recovery'.waiting = FALSE
    <2>1. v = [event |-> e, epoch |-> E]
      OBVIOUS
    <2> HIDE DEF v
    <2> DEFINE q == Append(queue, v)
    <2>2. /\ Reaches(queue, E, sent) => Reaches(q, E, sent')
          /\ NoSetter(q, E) => NoSetter(queue, E) /\ ~Sets(e)
          /\ Led(queue, E) /\ (e.kind = "checkpoint" \/ HasLeader(queue, E)) => Led(q, E)
          /\ e.kind = "checkpoint" \/ HasLeader(queue, E) => HasLeader(q, E)
          /\ Until(queue, E, recovery.waiting) => Until(q, E, FALSE)
          /\ q # <<>>
      <3> HIDE DEF E
      <3>1. /\ \A s, t : Reaches(queue, E, s) /\ (IF Sets(e) THEN Reach(e) = t ELSE t = s)
                            => Reaches(q, E, t)
            /\ NoSetter(q, E) => NoSetter(queue, E) /\ ~Sets(e)
            /\ Led(queue, E) /\ (e.kind = "checkpoint" \/ HasLeader(queue, E)) => Led(q, E)
            /\ e.kind = "checkpoint" \/ HasLeader(queue, E) => HasLeader(q, E)
            /\ \A waiting \in BOOLEAN : Until(queue, E, waiting) => Until(q, E, FALSE)
            /\ q # <<>>
        BY <1>1, <2>1, WriteAppended
      <3> HIDE DEF q
      <3> QED BY <1>1, <3>1
    <2>3. queue' = q
      BY <1>6
    <2> HIDE DEF q, E
    <2>4. Epochs'
      <3>1. /\ written \in Nat /\ written <= E
            /\ marked \in Nat \cup {None} /\ (marked # None => marked <= E)
            /\ worker \in Places \ {"last"}
            /\ permit => worker \in {"persist", "release"}
            /\ worker = "persist" => /\ write.epoch <= E
                                     /\ write.epoch < E => written # E /\ marked # E
            /\ Until(q, E, FALSE)
        BY <2>2 DEF GapInv, Epochs, E
      <3> QED BY <1>2, <1>6, <2>3, <3>1 DEF Epochs
    <2>5. InOrder'
      <3>1. Reaches(q, E, sent')
        BY <2>2 DEF GapInv, InOrder, E
      <3>2. ASSUME worker = "persist", Setter(write, E), NoSetter(q, E)
            PROVE  Reach(write.event) = sent'
        BY <2>2, <3>2 DEF GapInv, InOrder, E
      <3>3. ASSUME written # E
            PROVE  /\ Saving => write.event.kind = "checkpoint"
                   /\ ~Saving => Led(q, E)
                   /\ Saving \/ HasLeader(q, E)
        <4>1. CASE recovery.waiting
          <5>1. ~Saving
            <6> SUFFICES ASSUME Saving PROVE FALSE
              OBVIOUS
            <6>1. write.epoch < E /\ write.epoch = E
              BY <4>1 DEF GapInv, Epochs, Saving, E
            <6> QED BY <1>1, <6>1 DEF E
          <5>2. Led(queue, E) /\ e.kind = "checkpoint"
            BY <1>6, <3>3, <4>1, <5>1 DEF GapInv, InOrder, E
          <5> QED BY <2>2, <5>1, <5>2
        <4>2. CASE ~recovery.waiting
          <5>1. /\ Saving => write.event.kind = "checkpoint"
                /\ ~Saving => Led(queue, E)
                /\ Saving \/ HasLeader(queue, E)
            BY <3>3, <4>2 DEF GapInv, InOrder, E
          <5> QED BY <2>2, <5>1
        <4> QED BY <4>1, <4>2
      <3>4. Saving' = Saving
        BY <1>2, <1>6 DEF Saving, E
      <3> QED BY <1>2, <1>6, <2>3, <3>1, <3>2, <3>3, <3>4 DEF InOrder
    <2>6. GapTold'
      <3>1. ASSUME written = E, Quiet' PROVE ToldOf(FALSE)'
        <4>1. NoSetter(q, E) /\ ~(worker = "persist" /\ Setter(write, E))
          BY <1>2, <1>6, <2>3, <3>1 DEF Quiet
        <4>2. ~Sets(e) /\ Quiet
          BY <2>2, <4>1 DEF Quiet, E
        <4>3. attachment # "checkpoint"
          BY <4>2 DEF Sets
        <4>4. ToldOf(FALSE)
          BY <3>1, <4>2, <4>3 DEF GapInv, GapTold, E
        <4>5. sent' = sent
          BY <4>2
        <4> QED BY <1>2, <1>3, <4>4, <4>5 DEF ToldOf
      <3>2. ASSUME marked = E, written # E, worker # "mark" PROVE ToldOf(TRUE)'
        BY <1>4, <3>2 DEF GapInv, GapTold, E
      <3> QED BY <1>2, <1>4, <1>6, <2>2, <2>3, <3>1, <3>2 DEF GapTold
    <2> QED BY <2>4, <2>5, <2>6 DEF GapInv
  <1>7. \/ /\ queue' = queue /\ recovery'.waiting = TRUE /\ (~recovery.waiting => ~Fits(e))
           /\ IF recovery.waiting THEN recovery'.epoch = E ELSE recovery'.epoch = E + 1
        \/ /\ recovery.waiting => e.kind = "checkpoint"
           /\ queue' = Append(queue, v) /\ recovery'.epoch = E /\ recovery'.waiting = FALSE
    BY <1>1, EnqueueCases
  <1> QED BY <1>5, <1>6, <1>7

\* The events that an attachment gives to the writer.
LEMMA StreamGap ==
    ASSUME CacheInv, GapInv,
           InitialCheckpoint \/ AnswerCheckpoint \/ SendCheckpoint \/ SendOutput \/ SendResize \/ SendHistory
    PROVE  GapInv'
  <1>1. sent \in Nat /\ snapshots \in Nat /\ snapshot \in [id : Nat, seq : Nat] \cup {None}
        /\ cleared \in Nat \cup {None}
    BY DEF CacheInv
  <1>2. ASSUME NEW transfer \in BOOLEAN, Checkpoint(transfer), attachment \in {"checkpoint", "open"} PROVE GapInv'
    <2>1. PICK s \in sent .. MaxSequence :
             Enqueue(CheckpointEvent(s, transfer)) /\ attachment' = "open" /\ sent' = s
      BY <1>2 DEF Checkpoint
    <2> DEFINE e == CheckpointEvent(s, transfer)
    <2>2. s \in Nat
      BY <1>1, <2>1, CacheWriterAssumption
    <2>3. e \in Event /\ e.kind = "checkpoint" /\ e.seq = s
      BY <1>1, <1>2, <2>2, CheckpointTyped DEF CheckpointEvent
    <2>4. Enqueue(e)
      BY <2>1
    <2> HIDE DEF e
    <2>5. Sets(e) /\ Reach(e) = sent'
      BY <2>1, <2>3 DEF Sets, Reach
    <2> QED BY <1>2, <2>1, <2>2, <2>3, <2>4, <2>5, EnqueueGap
  <1>3. CASE InitialCheckpoint \/ AnswerCheckpoint \/ SendCheckpoint
    BY <1>2, <1>3 DEF InitialCheckpoint, AnswerCheckpoint, SendCheckpoint
  <1>4. CASE SendOutput
    <2>1. PICK to \in sent + 1 .. MaxSequence :
            /\ attachment = "open" /\ attachment' = attachment /\ sent' = to
            /\ Enqueue([kind |-> "output", from |-> sent, to |-> to, clear |-> cleared = sent])
      BY <1>4 DEF SendOutput
    <2> DEFINE e == [kind |-> "output", from |-> sent, to |-> to, clear |-> cleared = sent]
    <2>2. to \in Nat /\ sent < to
      BY <1>1, <2>1, CacheWriterAssumption
    <2>3. e \in Event /\ e.kind = "output" /\ e.to = to
      BY <1>1, <2>2 DEF Event
    <2>4. Enqueue(e)
      BY <2>1
    <2> HIDE DEF e
    <2>5. Sets(e) /\ Reach(e) = sent'
      BY <2>1, <2>3 DEF Sets, Reach
    <2> QED BY <2>1, <2>2, <2>3, <2>4, <2>5, EnqueueGap
  <1>5. CASE SendResize
    <2> DEFINE e == [kind |-> "resize", seq |-> sent]
    <2>1. attachment = "open" /\ attachment' = attachment /\ sent' = sent /\ Enqueue(e)
      BY <1>5 DEF SendResize
    <2>2. e \in Event /\ ~Sets(e)
      BY <1>1 DEF Event, Sets
    <2> HIDE DEF e
    <2> QED BY <1>1, <2>1, <2>2, EnqueueGap
  <1>6. CASE SendHistory
    <2> DEFINE e == [kind |-> "synced", id |-> snapshot.id, from |-> Retained(snapshot.seq),
                     gap |-> Retained(snapshot.seq) > Base(snapshot.seq)]
    <2>1. attachment = "open" /\ attachment' = attachment /\ sent' = sent /\ Enqueue(e) /\ snapshot # None
      BY <1>6 DEF SendHistory
    <2>2. e \in Event /\ ~Sets(e)
      <3>1. snapshot.id \in Nat /\ snapshot.seq \in Nat
        BY <1>1, <2>1
      <3>2. Retained(snapshot.seq) \in Nat
        BY <1>1, <3>1, ServerKeeps
      <3> QED BY <3>1, <3>2 DEF Event, Sets
    <2> HIDE DEF e
    <2> QED BY <1>1, <2>1, <2>2, EnqueueGap
  <1> QED BY <1>3, <1>4, <1>5, <1>6

\* A write is received.
LEMMA ReceiveGap ==
    ASSUME CacheInv, GapInv, Receive
    PROVE  GapInv'
  <1> DEFINE E == recovery.epoch
             h == Head(queue)
             r == Tail(queue)
  <1>1. queue \in Seq(Write) /\ E \in Nat /\ recovery.waiting \in BOOLEAN
    BY DEF CacheInv, Recoveries
  <1>2. /\ worker = "idle" /\ queue # <<>> /\ queue' = r /\ write' = h /\ permit' = TRUE
        /\ worker' = IF h.epoch = E THEN "persist" ELSE "release"
        /\ UNCHANGED <<disk, sent, attachment, recovery, written, marked, failed>>
    BY DEF Receive, storeVars, streamVars
  <1>3. /\ h \in Write
        /\ \A s : Reaches(queue, E, s) =>
             Reaches(r, E, s) /\ (Setter(h, E) => Reach(h.event) = s \/ ~NoSetter(r, E))
        /\ NoSetter(r, E) /\ ~Setter(h, E) => NoSetter(queue, E)
        /\ Led(queue, E) => IF h.epoch = E THEN h.event.kind = "checkpoint" ELSE Led(r, E)
        /\ HasLeader(queue, E) => h.epoch = E \/ HasLeader(r, E)
        /\ \A waiting : Until(queue, E, waiting) =>
             Until(r, E, waiting) /\ h.epoch <= E /\ (waiting => h.epoch < E)
    <2> HIDE DEF E
    <2> QED BY <1>1, <1>2, WriteTaken
  <1> HIDE DEF E, h, r
  <1>4. Until(r, E, recovery.waiting) /\ h.epoch <= E /\ (recovery.waiting => h.epoch < E)
    BY <1>3 DEF GapInv, Epochs, E
  <1>5. Reaches(r, E, sent) /\ (Setter(h, E) => Reach(h.event) = sent \/ ~NoSetter(r, E))
    BY <1>3 DEF GapInv, InOrder, E
  <1>6. h.epoch \in Nat /\ recovery'.epoch = E /\ ~Saving
    BY <1>2, <1>3 DEF Write, E, Saving
  <1>7. Epochs'
    <2>1. worker' = "persist" => h.epoch = E /\ ~(h.epoch < E)
      BY <1>1, <1>2, <1>6
    <2> QED BY <1>2, <1>4, <1>6, <2>1 DEF GapInv, Epochs, Places, E
  <1>8. InOrder'
    <2>1. Saving' <=> h.epoch = E
      BY <1>2, <1>6 DEF Saving
    <2>2. ASSUME written # E
          PROVE  /\ h.epoch = E => h.event.kind = "checkpoint"
                 /\ h.epoch # E => Led(r, E)
                 /\ ~recovery.waiting => h.epoch = E \/ HasLeader(r, E)
      BY <1>3, <1>6, <2>2 DEF GapInv, InOrder, E
    <2> QED BY <1>2, <1>5, <1>6, <2>1, <2>2 DEF InOrder
  <1>9. ToldOf(TRUE)' = ToldOf(TRUE) /\ ToldOf(FALSE)' = ToldOf(FALSE)
    BY <1>2 DEF ToldOf, LatestRecord
  <1>10. Quiet' => Quiet
    <2> SUFFICES ASSUME Quiet' PROVE Quiet
      OBVIOUS
    <2>1. NoSetter(r, E) /\ ~Setter(h, E)
      BY <1>2, <1>6 DEF Quiet, Setter
    <2> QED BY <1>2, <1>3, <2>1 DEF Quiet, E
  <1>11. GapTold'
    BY <1>2, <1>9, <1>10 DEF GapInv, GapTold
  <1> QED BY <1>7, <1>8, <1>11 DEF GapInv

\* An event was applied: what the record tells, if there is nothing more to come.
LEMMA AppliedTells ==
    ASSUME CacheInv, NEW m, Known(m), GapInv, worker = "persist", write.epoch = recovery.epoch,
           Apply(disk, write.event).ok, Perform(Apply(disk, write.event).steps),
           failed' = (failed /\ write.event.kind # "checkpoint"), sent' = sent,
           NoSetter(queue, recovery.epoch), attachment # "checkpoint",
           written = recovery.epoch \/ write.event.kind = "checkpoint"
    PROVE  ToldOf(FALSE)'
  <1> DEFINE e == write.event
  <1>1. PICK N : N = Latest(disk').current
    OBVIOUS
  <1>2. write \in Write /\ cleared \in Nat \cup {None} /\ sent \in Nat /\ disk \in Good
    BY DEF CacheInv
  <1>3. e \in Event
    BY <1>2 DEF Write
  <1>4. disk \in Fine(cleared, m) /\ EventSound(cleared, m, e)
    BY DEF Known
  <1>5. N = Latest(Last(Apply(disk, e).steps)).current
    BY <1>1 DEF Perform
  <1> HIDE DEF e
  <1>6. /\ Sets(e) => N = None \/ (N.seq \in Nat /\ N.seq >= Reach(e))
        /\ ~Sets(e) => Continues(Latest(disk).current, N)
    BY <1>2, <1>3, <1>4, <1>5, ApplyTakes DEF e
  <1>7. LatestRecord' = N
    BY <1>1 DEF LatestRecord
  <1>8. CASE Sets(e)
    <2>1. Setter(write, recovery.epoch)
      BY <1>8 DEF Setter, e
    <2>2. Reach(e) = sent
      BY <2>1 DEF GapInv, InOrder, e
    <2> QED BY <1>6, <1>7, <1>8, <2>2 DEF ToldOf
  <1>9. CASE ~Sets(e)
    <2>1. e.kind # "checkpoint" /\ ~Setter(write, recovery.epoch)
      BY <1>9 DEF Sets, Setter, e
    <2>2. ToldOf(FALSE)
      BY <2>1 DEF GapInv, GapTold, Quiet, e
    <2>3. failed' <=> failed
      BY <2>1 DEF e
    <2>4. Continues(LatestRecord, N)
      BY <1>6, <1>9 DEF LatestRecord
    <2> QED BY <1>7, <2>2, <2>3, <2>4 DEF ToldOf, Continues
  <1> QED BY <1>8, <1>9

\* persist.
LEMMA PersistGap ==
    ASSUME CacheInv, NEW m, Known(m), GapInv, Persist
    PROVE  GapInv'
  <1> DEFINE E == recovery.epoch
             applied == Apply(disk, write.event)
             checkpoint == write.event.kind = "checkpoint"
  <1>1. /\ worker = "persist" /\ worker' = "release"
        /\ UNCHANGED <<sent, attachment, queue, write, permit, marked>>
        /\ \/ Perform(applied.steps) /\ Persisted(applied.ok)
           \/ Persisted(FALSE)
    BY DEF Persist, streamVars
  <1>2. write \in Write /\ recovery \in Recoveries /\ queue \in Seq(Write)
    BY <1>1 DEF CacheInv
  <1>3. E \in Nat /\ recovery.waiting \in BOOLEAN /\ write.epoch \in Nat
    BY <1>2 DEF Write, Recoveries
  <1>4. /\ write.epoch <= E /\ (recovery.waiting => write.epoch < E)
        /\ write.epoch < E => written # E /\ marked # E
    BY <1>1 DEF GapInv, Epochs
  <1>5. CASE recovery' = Invalidate(recovery) /\ written' = written
    <2>1. /\ recovery'.waiting = TRUE
          /\ IF recovery.waiting THEN recovery'.epoch = E ELSE recovery'.epoch = E + 1
      BY <1>2, <1>5, Invalidated
    <2>2. /\ Epochs' /\ InOrder' /\ written' # recovery'.epoch
          /\ (~recovery.waiting => marked' # recovery'.epoch)
      BY <1>1, <1>5, <2>1, EpochLost DEF GapInv
    <2>3. marked' # recovery'.epoch
      BY <1>1, <1>4, <2>1, <2>2
    <2> QED BY <1>1, <2>2, <2>3 DEF GapInv, GapTold
  <1>6. CASE /\ applied.ok /\ Perform(applied.steps) /\ recovery' = recovery
             /\ written' = (IF checkpoint THEN write.epoch ELSE written)
             /\ failed' = (failed /\ ~checkpoint)
    <2>1. /\ written \in Nat /\ written <= E /\ (recovery.waiting => written # E)
          /\ Until(queue, E, recovery.waiting) /\ Reaches(queue, E, sent)
      BY DEF GapInv, Epochs, InOrder
    <2> HIDE DEF E, checkpoint
    <2>2. written' \in Nat /\ written' <= E /\ (recovery.waiting => written' # E)
      BY <1>3, <1>4, <1>6, <2>1
    <2>3. Epochs'
      BY <1>1, <1>6, <2>1, <2>2 DEF GapInv, Epochs, Places, E
    <2>4. CASE write.epoch < E
      <3>1. written' # E /\ marked # E /\ written # E /\ write.epoch # E
        BY <1>3, <1>4, <1>6, <2>4
      <3>2. ~Saving /\ ~Saving'
        BY <1>1, <3>1 DEF Saving, E
      <3>3. Led(queue, E) /\ (~recovery.waiting => HasLeader(queue, E))
        BY <3>1, <3>2 DEF GapInv, InOrder, E
      <3>4. InOrder'
        BY <1>1, <1>6, <2>1, <3>2, <3>3 DEF InOrder, E
      <3>5. GapTold'
        BY <1>1, <1>6, <3>1 DEF GapTold, E
      <3> QED BY <2>3, <3>4, <3>5 DEF GapInv
    <2>5. CASE write.epoch = E
      <3>1. Saving
        BY <1>1, <2>5 DEF Saving, E
      <3>2. written = E \/ checkpoint
        BY <3>1 DEF GapInv, InOrder, E, checkpoint
      <3>3. written' = E
        BY <1>6, <2>5, <3>2
      <3>4. InOrder'
        BY <1>1, <1>6, <2>1, <3>3 DEF InOrder, E
      <3>5. ASSUME attachment' # "checkpoint", Quiet' PROVE ToldOf(FALSE)'
        <4>1. NoSetter(queue, E)
          BY <1>1, <1>6, <3>5 DEF Quiet, E
        <4> QED BY <1>1, <1>6, <2>5, <3>2, <3>5, <4>1, AppliedTells DEF E, checkpoint
      <3>6. GapTold'
        BY <1>1, <1>6, <3>3, <3>5 DEF GapTold, E
      <3> QED BY <2>3, <3>4, <3>6 DEF GapInv
    <2> QED BY <1>3, <1>4, <2>4, <2>5
  <1>7. \/ recovery' = Invalidate(recovery) /\ written' = written
        \/ /\ applied.ok /\ Perform(applied.steps) /\ recovery' = recovery
           /\ written' = (IF checkpoint THEN write.epoch ELSE written)
           /\ failed' = (failed /\ ~checkpoint)
    <2> HIDE DEF applied, checkpoint
    <2>1. CASE Persisted(FALSE)
      BY <2>1 DEF Persisted
    <2>2. CASE Perform(applied.steps) /\ Persisted(applied.ok)
      BY <2>2 DEF Persisted, checkpoint
    <2> QED BY <1>1, <2>1, <2>2
  <1> QED BY <1>5, <1>6, <1>7

\* The queue and the stream stay as they are, and the worker saves nothing.
LEMMA ElsewhereGap ==
    ASSUME GapInv, UNCHANGED <<sent, queue, written>>, worker' \in Places \ {"last", "persist"}, worker # "persist",
           permit' => permit /\ worker' = "release", recovery'.epoch = recovery.epoch,
           recovery'.waiting = recovery.waiting, marked' \in {marked, recovery.epoch}, CacheInv
    PROVE  Epochs' /\ InOrder' /\ (Quiet' <=> Quiet)
  <1>1. recovery.epoch \in Nat
    BY DEF CacheInv, Recoveries
  <1>2. marked' \in Nat \cup {None} /\ (marked' # None => marked' <= recovery.epoch)
    BY <1>1 DEF GapInv, Epochs
  <1>3. Epochs'
    BY <1>2 DEF GapInv, Epochs
  <1>4. InOrder'
    BY DEF GapInv, InOrder, Saving
  <1>5. Quiet' <=> Quiet
    BY DEF Quiet
  <1> QED BY <1>3, <1>4, <1>5

\* A write is done with, and the worker looks at the recovery.
LEMMA SettleGap ==
    ASSUME CacheInv, GapInv, Release \/ Settle
    PROVE  GapInv'
  <1>1. UNCHANGED <<disk, sent, attachment, queue, written, failed>>
    BY DEF Release, Settle, storeVars, streamVars
  <1>2. ToldOf(TRUE)' = ToldOf(TRUE) /\ ToldOf(FALSE)' = ToldOf(FALSE)
    BY <1>1 DEF ToldOf, LatestRecord
  <1>3. CASE Release
    <2>1. worker = "release" /\ worker' = "settle" /\ permit' = FALSE /\ recovery' = recovery /\ marked' = marked
      BY <1>3 DEF Release
    <2>2. Epochs' /\ InOrder' /\ (Quiet' <=> Quiet)
      BY <1>1, <2>1, ElsewhereGap DEF Places
    <2>3. GapTold'
      BY <1>1, <1>2, <2>1, <2>2 DEF GapInv, GapTold
    <2> QED BY <2>2, <2>3 DEF GapInv
  <1>4. CASE Settle
    <2>1. /\ worker = "settle" /\ permit' = permit /\ recovery' = Request(recovery)
          /\ marked' = IF Unmarked THEN recovery.epoch ELSE marked
          /\ worker' = IF Unmarked THEN "mark" ELSE "idle"
      BY <1>4 DEF Settle
    <2>2. recovery'.epoch = recovery.epoch /\ recovery'.waiting = recovery.waiting
      BY <2>1 DEF Request, CacheInv, Recoveries
    <2>3. ~permit
      BY <2>1 DEF GapInv, Epochs
    <2>4. Epochs' /\ InOrder' /\ (Quiet' <=> Quiet)
      BY <1>1, <2>1, <2>2, <2>3, ElsewhereGap DEF Places
    <2>5. ~Unmarked'
      BY <1>1, <2>1, <2>2 DEF Unmarked
    <2>6. CASE Unmarked
      BY <1>1, <1>2, <2>1, <2>2, <2>4, <2>5, <2>6 DEF GapInv, GapTold
    <2>7. CASE ~Unmarked
      BY <1>1, <1>2, <2>1, <2>2, <2>4, <2>5, <2>7 DEF GapInv, GapTold
    <2> QED BY <2>6, <2>7
  <1> QED BY <1>3, <1>4

\* The record is marked, or that fails.
LEMMA MarkGap ==
    ASSUME CacheInv, GapInv, Mark
    PROVE  GapInv'
  <1>1. worker = "mark" /\ worker' = "idle"
    BY DEF GapInv, Epochs, Mark
  <1>2. UNCHANGED <<sent, attachment, queue, recovery, permit, written, marked>>
    BY DEF Mark, streamVars
  <1>3. ~permit /\ disk \in Good
    BY <1>1 DEF GapInv, Epochs, CacheInv
  <1>4. Epochs' /\ InOrder' /\ (Quiet' <=> Quiet)
    BY <1>1, <1>2, <1>3, ElsewhereGap DEF Places
  <1>5. ToldOf(TRUE)'
    <2>1. CASE Found(disk.live) /\ disk' = MarkHistoryGap(disk)
      <3>1. Tells(Latest(disk').current)
        BY <1>3, <2>1, LatestMarked
      <3> QED BY <3>1 DEF ToldOf, LatestRecord
    <2>2. CASE failed' = TRUE
      BY <2>2 DEF ToldOf
    <2> QED BY <2>1, <2>2 DEF Mark
  <1>6. ToldOf(FALSE)'
    BY <1>5 DEF ToldOf
  <1>7. Unmarked' = Unmarked
    BY <1>2 DEF Unmarked
  <1>8. GapTold'
    BY <1>1, <1>2, <1>5, <1>6, <1>7 DEF GapInv, GapTold
  <1> QED BY <1>4, <1>8 DEF GapInv

\* Everything is written: the worker ends.
LEMMA EndGap ==
    ASSUME CacheInv, GapInv, End
    PROVE  GapInv'
  <1>1. worker = "idle" /\ queue = <<>> /\ attachment = "closed" /\ ~Unmarked /\ worker' = "ended"
    BY DEF End, GapInv, GapTold
  <1>2. UNCHANGED <<disk, sent, attachment, queue, recovery, permit, written, marked, failed>>
    BY DEF End, storeVars, streamVars
  <1>3. ~permit
    BY <1>1 DEF GapInv, Epochs
  <1>4. Epochs' /\ InOrder' /\ (Quiet' <=> Quiet)
    BY <1>1, <1>2, <1>3, ElsewhereGap DEF Places
  <1>5. ToldOf(TRUE)' = ToldOf(TRUE) /\ ToldOf(FALSE)' = ToldOf(FALSE)
    BY <1>2 DEF ToldOf, LatestRecord
  <1>6. ToldOf(FALSE)
    <2>1. CASE written = recovery.epoch
      <3>1. NoSetter(queue, recovery.epoch)
        BY <1>1 DEF NoSetter
      <3>2. Quiet
        BY <1>1, <3>1 DEF Quiet
      <3> QED BY <1>1, <2>1, <3>2 DEF GapInv, GapTold
    <2>2. CASE written # recovery.epoch
      <3>1. ToldOf(TRUE)
        BY <1>1, <2>2 DEF GapInv, GapTold, Unmarked
      <3> QED BY <3>1 DEF ToldOf
    <2> QED BY <2>1, <2>2
  <1>7. GapTold'
    BY <1>1, <1>2, <1>4, <1>5, <1>6 DEF GapInv, GapTold
  <1> QED BY <1>4, <1>7 DEF GapInv

\* A new writer, after one that has ended or was killed.
LEMMA NewWriterGap ==
    ASSUME NewWriter, attachment' # "checkpoint" => ToldOf(FALSE)'
    PROVE  GapInv'
  <1>1. /\ queue' = <<>> /\ write' = None /\ permit' = FALSE
        /\ recovery'.epoch = 0 /\ recovery'.waiting = FALSE
        /\ worker' = "idle" /\ written' = 0 /\ marked' = None
    BY DEF NewWriter
  <1>2. Reaches(queue', 0, sent') /\ Until(queue', 0, FALSE)
    BY <1>1 DEF Reaches, Until
  <1>3. Epochs'
    <2>1. written' \in Nat /\ written' <= recovery'.epoch
      BY <1>1
    <2>2. Until(queue', recovery'.epoch, recovery'.waiting)
      BY <1>1, <1>2
    <2> QED BY <1>1, <2>1, <2>2 DEF Epochs, Places
  <1>4. InOrder'
    BY <1>1, <1>2 DEF InOrder
  <1>5. GapTold'
    BY <1>1, SessionCacheAssumption DEF GapTold, Unmarked
  <1> QED BY <1>3, <1>4, <1>5 DEF GapInv

\* Attachments that end and begin, and the death of the application.
LEMMA AttachmentGap ==
    ASSUME CacheInv, GapInv, Close \/ Reattach \/ Kill
    PROVE  GapInv'
  <1>1. CASE Close
    <2>1. /\ attachment = "open" /\ attachment' = "closed"
          /\ UNCHANGED <<disk, sent, queue, recovery, write, permit, worker, written, marked, failed>>
      BY <1>1 DEF Close, streamVars, progress
    <2>2. ToldOf(TRUE)' = ToldOf(TRUE) /\ ToldOf(FALSE)' = ToldOf(FALSE)
      BY <2>1 DEF ToldOf, LatestRecord
    <2>3. Epochs' /\ InOrder' /\ (Quiet' <=> Quiet) /\ (Unmarked' <=> Unmarked)
      BY <2>1 DEF GapInv, Epochs, InOrder, Saving, Quiet, Unmarked
    <2>4. GapTold'
      BY <2>1, <2>2, <2>3 DEF GapInv, GapTold
    <2> QED BY <2>3, <2>4 DEF GapInv
  <1>2. CASE Reattach
    <2>1. worker = "ended" /\ NewWriter /\ disk' = disk /\ failed' = failed
      BY <1>2 DEF Reattach, storeVars
    <2>2. sent \in Nat /\ sent' \in Nat /\ sent' <= sent
      <3>1. sent \in Nat
        BY DEF CacheInv
      <3>2. sent' = sent \/ sent' \in 0 .. sent
        BY <1>2 DEF Reattach
      <3> QED BY <3>1, <3>2
    <2>3. ToldOf(FALSE)
      BY <2>1 DEF GapInv, GapTold
    <2>4. ToldOf(FALSE)'
      <3>1. disk \in Good /\ LatestRecord' \in {LatestRecord, None}
        BY <2>1 DEF CacheInv, LatestRecord
      <3> QED BY <2>1, <2>2, <2>3, <3>1, ToldKept
    <2> QED BY <2>1, <2>4, NewWriterGap
  <1>3. CASE Kill
    <2>1. NewWriter /\ attachment' = "checkpoint"
      BY <1>3 DEF Kill
    <2> QED BY <2>1, NewWriterGap
  <1> QED BY <1>1, <1>2, <1>3

\* Readers, the archive and its removal.
LEMMA StoreGap ==
    ASSUME CacheInv, GapInv, StoreNext \/ UNCHANGED cacheVars
    PROVE  GapInv'
  <1>1. UNCHANGED <<attachment, sent, queue, recovery, write, permit, worker, written, marked, failed>>
    BY DEF StoreNext, cacheVars, streamVars, writerVars, progress
  <1>2. LatestRecord' \in {LatestRecord, None}
    <2>1. CASE StoreNext
      <3>1. StoreStep /\ disk \in Good
        BY <2>1 DEF StoreNext, CacheInv
      <3> QED BY <3>1, LatestStored
    <2>2. CASE UNCHANGED cacheVars
      BY <2>2 DEF cacheVars, storeVars, LatestRecord
    <2> QED BY <2>1, <2>2
  <1>3. disk \in Good /\ sent \in Nat /\ sent' \in Nat /\ sent' <= sent
    BY <1>1 DEF CacheInv
  <1>4. (ToldOf(TRUE) => ToldOf(TRUE)') /\ (ToldOf(FALSE) => ToldOf(FALSE)')
    BY <1>1, <1>2, <1>3, ToldKept
  <1>5. Epochs' /\ InOrder' /\ (Quiet' <=> Quiet) /\ (Unmarked' <=> Unmarked)
    BY <1>1 DEF GapInv, Epochs, InOrder, Saving, Quiet, Unmarked
  <1>6. GapTold'
    BY <1>1, <1>4, <1>5 DEF GapInv, GapTold
  <1> QED BY <1>5, <1>6 DEF GapInv

\* The first writer has nothing to tell of.
LEMMA GapInit == Init => GapInv
  <1> SUFFICES ASSUME Init PROVE GapInv
    OBVIOUS
  <1>1. /\ queue = <<>> /\ permit = FALSE
        /\ recovery.epoch = 0 /\ recovery.waiting = FALSE
        /\ worker = "idle" /\ written = 0 /\ marked = None /\ attachment = "checkpoint"
    BY DEF Init
  <1>2. Reaches(queue, 0, sent) /\ Until(queue, 0, FALSE)
    BY <1>1 DEF Reaches, Until
  <1>3. Epochs
    <2>1. written \in Nat /\ written <= recovery.epoch
      BY <1>1
    <2>2. Until(queue, recovery.epoch, recovery.waiting)
      BY <1>1, <1>2
    <2> QED BY <1>1, <2>1, <2>2 DEF Epochs, Places
  <1>4. InOrder
    BY <1>1, <1>2 DEF InOrder
  <1>5. GapTold
    BY <1>1, SessionCacheAssumption DEF GapTold, Unmarked
  <1> QED BY <1>3, <1>4, <1>5 DEF GapInv

\* Every step keeps it, of a cache whose records are what the server has sent.
LEMMA GapStep == HistoryInv /\ GapInv /\ [Next]_cacheVars => GapInv'
  <1> SUFFICES ASSUME HistoryInv, GapInv, [Next]_cacheVars PROVE GapInv'
    OBVIOUS
  <1>1. CacheInv
    BY DEF HistoryInv
  <1>2. PICK m : Known(m)
    BY DEF HistoryInv
  <1>3. CASE InitialCheckpoint \/ AnswerCheckpoint \/ SendCheckpoint \/ SendOutput \/ SendResize \/ SendHistory
    BY <1>1, <1>3, StreamGap
  <1>4. CASE Receive
    BY <1>1, <1>4, ReceiveGap
  <1>5. CASE Persist
    BY <1>1, <1>2, <1>5, PersistGap
  <1>6. CASE Release \/ Settle
    BY <1>1, <1>6, SettleGap
  <1>7. CASE Mark
    BY <1>1, <1>7, MarkGap
  <1>8. CASE End
    BY <1>1, <1>8, EndGap
  <1>9. CASE Close \/ Reattach \/ Kill
    BY <1>1, <1>9, AttachmentGap
  <1>10. CASE StoreNext \/ UNCHANGED cacheVars
    BY <1>1, <1>10, StoreGap
  <1> QED BY <1>3, <1>4, <1>5, <1>6, <1>7, <1>8, <1>9, <1>10 DEF Next

\* The record that tells is shown with a gap.
LEMMA ToldIsShown == CacheInv /\ GapInv => GapShown
  <1> SUFFICES ASSUME CacheInv, GapInv, worker \in {"idle", "ended"}, queue = <<>>, attachment # "checkpoint",
                      Found(disk.live), disk.live.current.seq < sent, ~failed
               PROVE  ShownGap(disk.live.current)
    BY DEF GapShown
  <1> DEFINE c == disk.live.current
  <1>1. disk \in Good /\ sent \in Nat
    BY DEF CacheInv
  <1>2. disk.live \in Work /\ disk.live.exists
    BY <1>1, DiskTyped, FoundWork DEF Good
  <1>3. LatestRecord = c /\ c.seq \in Nat /\ c # None
    BY <1>2, LiveLatest DEF LatestRecord, Found, Work, Record, Current
  <1>4. ToldOf(FALSE)
    <2>1. CASE worker = "ended"
      BY <2>1 DEF GapInv, GapTold
    <2>2. CASE worker = "idle" /\ written = recovery.epoch
      <3>1. NoSetter(queue, recovery.epoch)
        BY DEF NoSetter
      <3>2. Quiet
        BY <2>2, <3>1 DEF Quiet
      <3> QED BY <2>2, <3>2 DEF GapInv, GapTold
    <2>3. CASE worker = "idle" /\ written # recovery.epoch
      <3>1. ~Unmarked
        BY <2>3 DEF GapInv, GapTold
      <3>2. ToldOf(TRUE)
        BY <2>3, <3>1 DEF GapInv, GapTold, Unmarked
      <3> QED BY <3>2 DEF ToldOf
    <2> QED BY <2>1, <2>2, <2>3
  <1>5. Tells(c)
    <2> HIDE DEF c
    <2>1. ~(c.seq >= sent)
      BY <1>1, <1>3 DEF c
    <2> QED BY <1>3, <1>4, <2>1 DEF ToldOf
  <1> QED BY <1>5 DEF Tells, ShownGap

\* Output that the writer has dropped, because the queue was full, a save
\* failed or the application was closed, does not go unnoticed: when run_writer
\* has nothing more to do and the record of the live directory is behind what
\* was sent, load shows it as incomplete, unless mark_history_gap failed too.
\* The channel may be of any size, the epochs as many as there are.
THEOREM MissingOutputShown == Spec => []GapShown
  <1>1. GapInv /\ HistoryInv /\ [Next]_cacheVars => GapInv'
    BY GapStep
  <1>2. GapInv /\ HistoryInv => GapShown
    BY ToldIsShown DEF HistoryInv
  <1> QED BY <1>1, <1>2, GapInit, ExactInvariant, PTL DEF Spec
=============================================================================
