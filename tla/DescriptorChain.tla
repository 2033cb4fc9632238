--------------------------- MODULE DescriptorChain ---------------------------
(***************************************************************************)
(* The Reader and the Writer of a request (src/src/util.rs) and the        *)
(* scatter and gather copies of BufferWrapper (src/src/buffer.rs): the     *)
(* readable and the writable slices of a virtio descriptor chain, consumed *)
(* from the front, and a reply area split in two.                          *)
(*                                                                         *)
(* Memory is counted in words; between two slices lies a word that belongs *)
(* to neither.  A handler is single-threaded, so a step is one call.       *)
(***************************************************************************)
EXTENDS Integers, Sequences, FiniteSets, SequencesExt

VARIABLES
    chain,     \* the slices as the guest made them
    mem,       \* address |-> word of guest memory
    reader,    \* the consumer of the readable slices
    taken,     \* the words it has delivered
    writers,   \* "w" and, once split off, "data_writer" |-> its consumer
    result     \* what the last call returned: the words it moved

dvars == <<chain, mem, reader, taken, writers, result>>

-----------------------------------------------------------------------------
(* Slices of guest memory.                                                 *)

Slice(addr, len) == [addr |-> addr, len |-> len]
Offset_KeepsLength(vs, n) == Slice(vs.addr + n, vs.len)
Offset(vs, n) == Slice(vs.addr + n, vs.len - n)
Subslice(vs, n) == Slice(vs.addr, n)
Addresses(vs) == vs.addr .. (vs.addr + vs.len - 1)

\* The words of slices of these lengths: the j-th word of the i-th is <<i, j>>.
WordsIn(lens) == UNION {{i} \X (1 .. lens[i]) : i \in DOMAIN lens}
Sum(lens) == Cardinality(WordsIn(lens))
Lens(bufs) == [i \in DOMAIN bufs |-> bufs[i].len]
Total(bufs) == Sum(Lens(bufs))
\* The words of the slices before the i-th.
Before(bufs, i) == Total(SubSeq(bufs, 1, i - 1))

\* How many slices lie in the first n words.
Whole(bufs, n) == Cardinality({i \in DOMAIN bufs : Before(bufs, i + 1) <= n})

\* The addresses of the slices, in chain order, and what lies there.
Cells(bufs) ==
    [p \in 1 .. Total(bufs) |->
        LET i == Whole(bufs, p - 1) + 1
        IN  bufs[i].addr + (p - 1 - Before(bufs, i))]
Contents(bufs) == LET cells == Cells(bufs) IN [p \in DOMAIN cells |-> mem[cells[p]]]

\* Reader::new and Writer::new: the slices of the descriptors, nothing consumed.
Consumer(bufs) == [buffers |-> bufs, bytes_consumed |-> 0]

-----------------------------------------------------------------------------
(* DescriptorChainConsumer.                                                *)

\* The slices consume hands to its callback: whole ones, until count is reached.
Picked(bufs, count) ==
    SubSeq(bufs, 1, Cardinality({i \in DOMAIN bufs : Before(bufs, i) < count}))


\* The slices once n words are consumed.
Advance_KeepsEmpty(bufs, n) ==
    LET k == Cardinality({i \in DOMAIN bufs : Before(bufs, i + 1) < n})
    IN  IF k = Len(bufs) THEN <<>>
        ELSE <<Offset(bufs[k + 1], n - Before(bufs, k + 1))>> \o SubSeq(bufs, k + 2, Len(bufs))
Advance(bufs, n) ==
    LET k == Whole(bufs, n)
    IN  IF k = Len(bufs) THEN <<>>
        ELSE <<Offset(bufs[k + 1], n - Before(bufs, k + 1))>> \o SubSeq(bufs, k + 2, Len(bufs))

\* The consumer once its callback moved n words of bufs; without a slice nothing is called.
Consumed(c, bufs, n) ==
    IF bufs = <<>> THEN c
    ELSE [buffers |-> Advance(c.buffers, n), bytes_consumed |-> c.bytes_consumed + n]

\* split_at: what the consumer keeps; the rest is what Advance leaves.
CanSplit(c, offset) == offset <= Total(c.buffers)
Kept(bufs, offset) ==
    LET k == Whole(bufs, offset)
        remain == offset - Before(bufs, k + 1)
    IN  SubSeq(bufs, 1, k) \o (IF remain > 0 THEN <<Subslice(bufs[k + 1], remain)>> ELSE <<>>)

-----------------------------------------------------------------------------
(* The copies between slices and the handler's own memory.                 *)

\* How many of n words the copy loops of read and write move per slice ...
CopyLens(bufs, n) ==
    [i \in DOMAIN bufs |->
        IF n <= Before(bufs, i) THEN 0
        ELSE IF n - Before(bufs, i) < bufs[i].len THEN n - Before(bufs, i) ELSE bufs[i].len]

\* ... and that of BufferWrapper, which stops at the first slice it moves nothing to.
VectoredLens(bufs, n) ==
    [i \in DOMAIN bufs |->
        IF \E j \in 1 .. i : CopyLens(bufs, n)[j] = 0 THEN 0 ELSE CopyLens(bufs, n)[i]]

\* Memory once the first lens[i] words of slice i are overwritten by data.
Stored(bufs, lens, data) ==
    [a \in DOMAIN mem |->
        LET hit == {i \in DOMAIN bufs : a \in bufs[i].addr .. (bufs[i].addr + lens[i] - 1)}
        IN  IF hit = {} THEN mem[a]
            ELSE LET i == CHOOSE i \in hit : TRUE
                 IN  data[Sum(SubSeq(lens, 1, i - 1)) + a - bufs[i].addr + 1]]

Loaded(bufs, lens) == Contents([i \in DOMAIN bufs |-> Subslice(bufs[i], lens[i])])

-----------------------------------------------------------------------------
(* The calls of the handlers.                                              *)

Deliver(bufs, lens) ==
    /\ taken' = taken \o Loaded(bufs, lens)
    /\ reader' = Consumed(reader, bufs, Sum(lens))
    /\ result' = Sum(lens)
    /\ UNCHANGED <<chain, mem, writers>>

\* Reader::read of n words.
Read(n) ==
    LET bufs == Picked(reader.buffers, n)
    IN  Deliver(bufs, CopyLens(bufs, n))

\* Reader::read_to_at of n words into a BufferWrapper: the whole slices.
ReadToAt(n) ==
    LET bufs == Picked(reader.buffers, n)
    IN  Deliver(bufs, Lens(bufs))

Place(w, bufs, lens, data) ==
    /\ mem' = Stored(bufs, lens, data)
    /\ writers' = [writers EXCEPT ![w] = Consumed(@, bufs, Sum(lens))]
    /\ result' = Sum(lens)
    /\ UNCHANGED <<chain, reader, taken>>

\* Writer::write.
Write(w, data) ==
    LET bufs == Picked(writers[w].buffers, Len(data))
    IN  Place(w, bufs, CopyLens(bufs, Len(data)), data)

\* Writer::write_from_at of a BufferWrapper with data.
WriteFromAt(w, data) ==
    LET bufs == Picked(writers[w].buffers, Len(data))
    IN  Place(w, bufs, VectoredLens(bufs, Len(data)), data)

\* Writer::split_at.
SplitAt(offset) ==
    LET c == writers["w"]
    IN  /\ DOMAIN writers = {"w"}
        /\ CanSplit(c, offset)
        /\ writers' = [w \in {"w", "data_writer"} |->
                         IF w = "w" THEN [c EXCEPT !.buffers = Kept(@, offset)]
                         ELSE Consumer(Advance(c.buffers, offset))]
        /\ UNCHANGED <<chain, mem, reader, taken, result>>

-----------------------------------------------------------------------------
(* The chain as a guest hands it over.                                     *)

Laid(lens, addr) ==
    [i \in DOMAIN lens |-> Slice(addr + Sum(SubSeq(lens, 1, i - 1)) + i - 1, lens[i])]

\* Guest memory: the k-th word of the request is <<"r", k>>, everything else is Blank.
Blank == <<"none", 0>>
MemoryOf(readable, writable) ==
    [a \in 1 .. (Total(readable) + Len(readable) + Total(writable) + Len(writable)) |->
        LET hit == {i \in DOMAIN readable : a \in Addresses(readable[i])}
        IN  IF hit = {} THEN Blank
            ELSE LET i == CHOOSE i \in hit : TRUE
                 IN  <<"r", Before(readable, i) + a - readable[i].addr + 1>>]

ChainOf(readable, writable) ==
    LET rs == Laid(readable, 1)
        ws == Laid(writable, 1 + Total(rs) + Len(rs))
    IN  /\ chain = [readable |-> rs, writable |-> ws]
        /\ mem = MemoryOf(rs, ws)
        /\ reader = Consumer(rs)
        /\ taken = <<>>
        /\ writers = [w \in {"w"} |-> Consumer(ws)]
        /\ result = 0

-----------------------------------------------------------------------------

(* No copy ever touches guest memory outside the writable slices: neither the
   request nor what lies between the slices, however the calls cut them. *)
NoStrayWrite ==
    \A a \in DOMAIN mem :
        (\A i \in DOMAIN chain.writable : a \notin Addresses(chain.writable[i])) =>
            mem[a] = MemoryOf(chain.readable, chain.writable)[a]

=============================================================================
