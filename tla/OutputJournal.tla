--------------------------- MODULE OutputJournal ---------------------------
(***************************************************************************)
(* ctmux_core::OutputJournal, the bounded queue of output chunks behind the *)
(* window earliest .. next - 1 of module TerminalStream, with the cutting   *)
(* and joining of chunks that turns it into output frames.                  *)
(*                                                                         *)
(* The byte with sequence number n is n itself, so a chunk is the sequence  *)
(* of its bytes together with sequence_start, and a byte that ends up in    *)
(* the wrong place shows.                                                   *)
(***************************************************************************)
EXTENDS Naturals, SequencesExt

CONSTANTS
    Capacity,     \* capacity_bytes
    MaxAppend,    \* bound on the bytes of one append
    MaxSequence   \* bound on the output produced

ASSUME JournalAssumption ==
    Capacity \in Nat \ {0} /\ MaxAppend \in Nat /\ MaxSequence \in Nat

VARIABLES chunks, retained, next   \* retained_bytes, next_sequence

vars == <<chunks, retained, next>>

\* The bytes from .. to - 1.
ByteRange(from, to) == [i \in 1..(to - from) |-> from + i - 1]

SequenceEnd(chunk) == chunk.start + Len(chunk.data)

Earliest == IF chunks = <<>> THEN next ELSE Head(chunks).start

\* Mutant: only whole chunks are evicted.
EvictWholeChunks(queue, bytes) ==
    LET loop[q \in Seq([start : Nat, data : Seq(Nat)]), b \in Nat] ==
          IF b <= Capacity THEN [chunks |-> q, retained |-> b]
          ELSE loop[Tail(q), b - Len(Head(q).data)]
    IN loop[queue, bytes]

\* The loop of enforce_capacity: whole chunks go while they are excess, then
\* the front one is cut.
EnforceCapacity(queue, bytes) ==
    LET loop[q \in Seq([start : Nat, data : Seq(Nat)]), b \in Nat] ==
          LET front == Head(q)
              excess == b - Capacity IN
          IF b <= Capacity THEN [chunks |-> q, retained |-> b]
          ELSE IF q = <<>> THEN [chunks |-> q, retained |-> 0]
          ELSE IF excess >= Len(front.data)
               THEN loop[Tail(q), b - Len(front.data)]
               ELSE loop[<<[start |-> front.start + excess,
                            data |-> SubSeq(front.data, excess + 1, Len(front.data))]>>
                         \o Tail(q), b - excess]
    IN loop[queue, bytes]

\* append of n bytes.
AppendBytes(n) ==
    LET live == [start |-> next, data |-> ByteRange(next, next + n)]
        kept == EnforceCapacity(Append(chunks, live), retained + n) IN
    /\ n > 0
    /\ next + n <= MaxSequence
    /\ next' = SequenceEnd(live)
    /\ chunks' = kept.chunks
    /\ retained' = kept.retained

\* Mutant: the cut is one byte early.
SliceOneEarly(chunk, sequence) ==
    IF SequenceEnd(chunk) <= sequence THEN <<>>
    ELSE IF chunk.start >= sequence THEN <<chunk>>
    ELSE <<[start |-> sequence,
            data |-> SubSeq(chunk.data, sequence - chunk.start, Len(chunk.data))]>>

\* slice_chunk_from, and chunk_after in the daemon: what of the chunk is at or
\* after the sequence, as a sequence of at most one chunk.
SliceChunkFrom(chunk, sequence) ==
    IF SequenceEnd(chunk) <= sequence THEN <<>>
    ELSE IF chunk.start >= sequence THEN <<chunk>>
    ELSE <<[start |-> sequence,
            data |-> SubSeq(chunk.data, sequence - chunk.start + 1, Len(chunk.data))]>>

\* snapshot_from, for a requested sequence that is not ahead.
SnapshotFrom(requested) ==
    LET replayFrom == IF requested < Earliest THEN Earliest ELSE requested IN
    [replayFrom |-> replayFrom,
     gap |-> requested < Earliest,
     chunks |-> FlattenSeq([i \in DOMAIN chunks |-> SliceChunkFrom(chunks[i], replayFrom)])]

\* coalesce_output_chunks: the data of one frame that starts at sequence.
CoalesceOutputChunks(queue, sequence, maxBytes) ==
    LET take(data, chunk) ==
          LET rest == SliceChunkFrom(chunk, sequence + Len(data))
              remaining == maxBytes - Len(data) IN
          IF remaining = 0 \/ rest = <<>> THEN data
          ELSE IF rest[1].start # sequence + Len(data) THEN data
          ELSE data \o SubSeq(rest[1].data, 1, Min({remaining, Len(rest[1].data)}))
    IN FoldLeft(take, <<>>, queue)

Init == chunks = <<>> /\ retained = 0 /\ next = 0

Next == \E n \in 1..MaxAppend : AppendBytes(n)

Spec == Init /\ [][Next]_vars

(***************************************************************************)
(* Properties.                                                              *)
(***************************************************************************)
\* The chunks hold exactly the newest bytes, at most Capacity of them and as
\* many as there are, in order and without a hole: enforce_capacity evicts
\* neither too much nor too little, however the chunks are cut.  This is the
\* window of module TerminalStream.
WindowExact ==
    /\ FlattenSeq([i \in DOMAIN chunks |-> chunks[i].data]) = ByteRange(Earliest, next)
    /\ \A i \in DOMAIN chunks : chunks[i].data = ByteRange(chunks[i].start, SequenceEnd(chunks[i]))
    /\ retained = next - Earliest
    /\ Earliest = IF next > Capacity THEN next - Capacity ELSE 0

\* A frame of output made from any replay position is the run of bytes that
\* starts there, as long as the limit allows: no byte is lost, repeated or out
\* of place where chunks are cut (snapshot_from, coalesce_output_chunks).
FramesExact ==
    \A from \in 0..next, limit \in 1..(MaxSequence + 1) :
        LET snapshot == SnapshotFrom(from)
            start == snapshot.replayFrom
            end == IF start + limit < next THEN start + limit ELSE next IN
        /\ CoalesceOutputChunks(snapshot.chunks, start, limit) = ByteRange(start, end)
        /\ snapshot.gap <=> start # from
=============================================================================
