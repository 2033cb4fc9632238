--------------------------- MODULE ExchangeProofs ---------------------------
(* Proofs about one request and its reply (module Exchange), for chains of  *)
(* the slicings of that module and any sizes, files and directories.        *)
EXTENDS Exchange, ChainProofs

\* The words left to read, and the room left to the first writer.
Left == Total(reader.buffers)
Room == Total(writers["w"].buffers)

\* The reads still to be made, at most two, ask for this many words ...
Asked(reads) ==
    IF Len(reads) = 0 THEN 0 ELSE IF Len(reads) = 1 THEN reads[1] ELSE reads[1] + reads[2]
\* ... and the pieces of a reply, at most three, have this many.
Size(pieces) ==
    IF Len(pieces) = 0 THEN 0
    ELSE IF Len(pieces) = 1 THEN Len(pieces[1].words)
    ELSE IF Len(pieces) = 2 THEN Len(pieces[1].words) + Len(pieces[2].words)
    ELSE Len(pieces[1].words) + Len(pieces[2].words) + Len(pieces[3].words)

Data == {"ok", "error", "unique", "body"} \X Nat
Pieces == [w : {"w", "data_writer"}, words : Seq(Data)]

ExchangeTypes ==
    /\ pc \in {"header", "args", "stored", "data", "list", "reply", "done", "dead"}
    /\ request \in [op : Opcodes \cup {"statfs"}, len : Nat, size : Nat]
    /\ request.len = SizeInHeader + Kernel(request.op, request.size)[1]
    /\ chain.readable \in Seq(Slices) /\ chain.writable \in Seq(Slices)
    /\ reader \in Consumers
    /\ DOMAIN writers \in {{"w"}, {"w", "data_writer"}}
    /\ \A w \in DOMAIN writers : writers[w] \in Consumers
    /\ pc = "args" => todo \in Seq(Nat) /\ Len(todo) <= 2
    /\ pc = "reply" => todo \in Seq(Pieces) /\ \A i \in 1 .. Len(todo) : todo[i].w \in DOMAIN writers
    /\ pc \in {"header", "args", "stored"} => DOMAIN writers = {"w"}
    /\ pc \in {"data", "list"} => DOMAIN writers = {"w", "data_writer"}
    /\ pc = "stored" => request.op = "write"
    /\ pc \in {"data", "list"} => request.op \in {"read", "readdir"}

\* The reply of a split area: what is behind the header comes first.
Listing(pieces) ==
    /\ pieces # <<>>
    /\ \A i \in 1 .. (Len(pieces) - 1) : pieces[i].w = "data_writer"
    /\ pieces[Len(pieces)].w = "w" /\ Len(pieces[Len(pieces)].words) = SizeOutHeader

\* The request is all there, and so is the room for its reply; a FORGET, which has no
\* room for an error, is not refused as too long.
Enough ==
    /\ MaxLen >= SizeInHeader + 1
    /\ request.len <= Total(chain.readable)
    /\ Kernel(request.op, request.size)[2] <= Total(chain.writable)

RoomInv ==
    Enough =>
        /\ pc # "dead"
        /\ pc = "header" => request.len <= Left
        /\ pc = "args" => Asked(todo) <= Left
        /\ pc \in {"header", "args", "stored"} => Kernel(request.op, request.size)[2] <= Room
        /\ pc \in {"data", "list"} => SizeOutHeader <= Room
        /\ pc = "reply" =>
             \/ Len(todo) <= 3 /\ Size(todo) <= Room /\ \A i \in 1 .. Len(todo) : todo[i].w = "w"
             \/ SizeOutHeader <= Room /\ Listing(todo)

-----------------------------------------------------------------------------
(* Numbers of the protocol.                                                *)

LEMMA KernelNumbers ==
    ASSUME NEW op \in Opcodes \cup {"statfs"}, NEW size \in Nat
    PROVE  /\ Kernel(op, size)[1] \in Nat /\ Kernel(op, size)[2] \in Nat
           /\ op # "forget" => SizeOutHeader <= Kernel(op, size)[2]
  <1>1. \E a, b \in Nat : Kernel(op, size) = <<a, b>> /\ (op # "forget" => 2 <= b)
    BY DEF Kernel, Opcodes, SizeName
  <1> QED
    BY <1>1 DEF SizeOutHeader

LEMMA AskedNat ==
    ASSUME NEW reads \in Seq(Nat), Len(reads) <= 2
    PROVE  Asked(reads) \in Nat
  <1>1. Len(reads) \in Nat /\ \A m \in Nat : m <= 2 => m = 0 \/ m = 1 \/ m = 2
    OBVIOUS
  <1>2. CASE Len(reads) = 0
    BY <1>2 DEF Asked
  <1>3. CASE Len(reads) = 1
    <2>1. 1 \in 1 .. Len(reads)
      BY <1>3
    <2>2. reads[1] \in Nat
      BY <2>1
    <2> QED
      BY <1>3, <2>2 DEF Asked
  <1>4. CASE Len(reads) = 2
    <2>1. 1 \in 1 .. Len(reads) /\ 2 \in 1 .. Len(reads)
      BY <1>4
    <2>2. reads[1] \in Nat /\ reads[2] \in Nat
      BY <2>1
    <2> QED
      BY <1>4, <2>2 DEF Asked
  <1> QED
    BY <1>1, <1>2, <1>3, <1>4

LEMMA AskedTail ==
    ASSUME NEW reads \in Seq(Nat), Len(reads) <= 2, reads # <<>>
    PROVE  /\ Head(reads) \in Nat /\ Tail(reads) \in Seq(Nat) /\ Len(Tail(reads)) <= 2
           /\ Asked(Tail(reads)) \in Nat /\ Asked(reads) = Head(reads) + Asked(Tail(reads))
  <1> DEFINE n == Head(reads)
             rest == Tail(reads)
  <1>1. /\ n = reads[1] /\ n \in Nat /\ rest \in Seq(Nat) /\ Len(rest) = Len(reads) - 1
        /\ Len(reads) \in Nat /\ Len(reads) # 0
    OBVIOUS
  <1>2. \A i \in 1 .. Len(rest) : rest[i] = reads[i + 1]
    BY HeadTailProperties
  <1>3. \A m \in Nat : m <= 2 /\ m # 0 => m = 1 \/ m = 2
    OBVIOUS
  <1> HIDE DEF n, rest
  <1>4. CASE Len(reads) = 1
    <2>1. Asked(rest) = 0 /\ Asked(reads) = n /\ Len(rest) <= 2
      BY <1>1, <1>4 DEF Asked
    <2> QED
      BY <1>1, <2>1 DEF n, rest
  <1>5. CASE Len(reads) = 2
    <2>1. Len(rest) = 1 /\ 1 \in 1 .. Len(rest) /\ 1 + 1 = 2 /\ 2 \in 1 .. Len(reads)
      BY <1>1, <1>5
    <2>2. rest[1] = reads[2] /\ reads[2] \in Nat
      BY <1>2, <2>1
    <2>3. Asked(rest) = reads[2] /\ Asked(reads) = n + reads[2] /\ Len(rest) <= 2
      BY <1>1, <1>5, <2>1, <2>2 DEF Asked
    <2> QED
      BY <1>1, <2>2, <2>3 DEF n, rest
  <1> QED
    BY <1>1, <1>3, <1>4, <1>5

LEMMA ReadsFit ==
    ASSUME ExchangeTypes, request.op \in Opcodes
    PROVE  /\ Reads(request.op) \in Seq(Nat) /\ Len(Reads(request.op)) <= 2
           /\ Asked(Reads(request.op)) <= request.len - SizeInHeader
  <1> DEFINE op == request.op
             k == Kernel(op, request.size)[1]
  <1>1. op \in Opcodes /\ request.size \in Nat /\ k \in Nat /\ request.len = SizeInHeader + k
    BY KernelNumbers DEF ExchangeTypes
  <1>2. \A fixed \in Nat : NameLen(fixed) = k - fixed
    BY <1>1 DEF NameLen, SizeInHeader
  <1>3. CASE op \in {"lookup", "unlink", "rmdir"}
    <2>1. k = 1 /\ Reads(op) = <<NameLen(0)>> /\ NameLen(0) = k - 0
      BY <1>2, <1>3 DEF Kernel, SizeName, Reads
    <2> QED
      BY <1>1, <2>1 DEF Asked, SizeInHeader
  <1>4. CASE op = "create"
    <2>1. k = 3 /\ Reads(op) = <<2, NameLen(2)>> /\ NameLen(2) = k - 2
      BY <1>2, <1>4 DEF Kernel, SizeName, Reads, SizeCreateIn
    <2> QED
      BY <1>1, <2>1 DEF Asked, SizeInHeader
  <1>5. CASE op = "mkdir"
    <2>1. k = 2 /\ Reads(op) = <<1, NameLen(1)>> /\ NameLen(1) = k - 1
      BY <1>2, <1>5 DEF Kernel, SizeName, Reads, SizeMkdirIn
    <2> QED
      BY <1>1, <2>1 DEF Asked, SizeInHeader
  <1>6. CASE op \in {"init", "open", "read", "readdir", "write"}
    <2>1. PICK n \in Nat : Reads(op) = <<n>> /\ n <= k
      BY <1>1, <1>6 DEF Kernel, Reads, SizeInitIn, SizeOpenIn, SizeReadIn, SizeWriteIn
    <2> QED
      BY <1>1, <2>1 DEF Asked, SizeInHeader
  <1>7. CASE op \notin {"lookup", "unlink", "rmdir", "create", "mkdir", "init", "open", "read", "readdir",
                        "write"}
    <2>1. Reads(op) = <<>>
      BY <1>7 DEF Reads
    <2> QED
      BY <1>1, <2>1 DEF Asked, SizeInHeader
  <1> QED
    BY <1>3, <1>4, <1>5, <1>6, <1>7

LEMMA HeaderFacts ==
    ASSUME NEW kind \in {"ok", "error"}, NEW n \in Nat
    PROVE  Header(kind, n) \in Seq(Data) /\ Len(Header(kind, n)) = SizeOutHeader
           /\ Piece("w", Header(kind, n)) \in Pieces
  <1>1. <<kind, n>> \in Data /\ <<"unique", 0>> \in Data
    BY DEF Data
  <1>2. Header(kind, n) \in Seq(Data) /\ Len(Header(kind, n)) = 2
    BY <1>1 DEF Header
  <1> QED
    BY <1>2 DEF SizeOutHeader, Piece, Pieces

LEMMA BodyFacts ==
    ASSUME NEW from \in Nat, NEW n \in Nat, NEW w \in {"w", "data_writer"}
    PROVE  Body(from, n) \in Seq(Data) /\ Len(Body(from, n)) = n /\ Piece(w, Body(from, n)) \in Pieces
  <1>1. \A k \in 1 .. n : <<"body", from + k>> \in Data
    <2>1. \A k \in 1 .. n : from + k \in Nat
      OBVIOUS
    <2> QED
      BY <2>1 DEF Data
  <1>2. Body(from, n) \in [1 .. n -> Data]
    BY <1>1 DEF Body
  <1>3. Body(from, n) \in Seq(Data) /\ Len(Body(from, n)) = n
    BY <1>2
  <1> QED
    BY <1>3 DEF Piece, Pieces

LEMMA ErrorFacts ==
    /\ ReplyError \in Seq(Pieces) /\ Len(ReplyError) = 1 /\ Size(ReplyError) = SizeOutHeader
    /\ \A i \in 1 .. Len(ReplyError) : ReplyError[i].w = "w"
  <1> DEFINE h == Header("error", SizeOutHeader)
  <1>1. Piece("w", h) \in Pieces /\ Len(h) = SizeOutHeader
    BY HeaderFacts DEF SizeOutHeader
  <1> HIDE DEF h
  <1>2. ReplyError = <<Piece("w", h)>>
    BY DEF ReplyError, h
  <1>3. Piece("w", h).w = "w" /\ Piece("w", h).words = h
    BY DEF Piece
  <1> QED
    BY <1>1, <1>2, <1>3 DEF Size

LEMMA OkFacts ==
    ASSUME NEW sizes \in Seq(Nat), Len(sizes) <= 2
    PROVE  /\ ReplyOk(sizes) \in Seq(Pieces) /\ Len(ReplyOk(sizes)) = 1 + Len(sizes)
           /\ \A i \in 1 .. Len(ReplyOk(sizes)) : ReplyOk(sizes)[i].w = "w"
           /\ Size(ReplyOk(sizes)) = SizeOutHeader + Asked(sizes)
  <1> DEFINE head == Piece("w", Header("ok", SizeOutHeader + Sum(sizes)))
             rec(i) == Piece("w", Body(Sum(SubSeq(sizes, 1, i - 1)), sizes[i]))
             recs == [i \in DOMAIN sizes |-> rec(i)]
  <1>1. DOMAIN sizes = 1 .. Len(sizes) /\ Len(sizes) \in Nat
    OBVIOUS
  <1>2. head \in Pieces /\ head.w = "w" /\ Len(head.words) = SizeOutHeader
    <2>1. SizeOutHeader + Sum(sizes) \in Nat
      BY WordsFinite DEF SizeOutHeader
    <2> QED
      BY <2>1, HeaderFacts DEF Piece
  <1>3. ASSUME NEW i \in 1 .. Len(sizes)
        PROVE  rec(i) \in Pieces /\ rec(i).w = "w" /\ Len(rec(i).words) = sizes[i]
    <2>1. i - 1 \in 0 .. Len(sizes) /\ sizes[i] \in Nat
      OBVIOUS
    <2>2. First(sizes, i - 1) \in Seq(Nat)
      BY <2>1, FirstFacts
    <2>3. Sum(SubSeq(sizes, 1, i - 1)) \in Nat
      BY <2>2, WordsFinite DEF First
    <2> QED
      BY <2>1, <2>3, BodyFacts DEF Piece
  <1> HIDE DEF rec
  <1>4. recs \in [1 .. Len(sizes) -> Pieces]
    BY <1>1, <1>3
  <1>5. recs \in Seq(Pieces) /\ Len(recs) = Len(sizes) /\ \A i \in 1 .. Len(sizes) : recs[i] = rec(i)
    BY <1>1, <1>4
  <1>6. ReplyOk(sizes) = <<head>> \o recs
    BY DEF ReplyOk, rec
  <1> HIDE DEF head, recs
  <1> DEFINE all == ReplyOk(sizes)
  <1>7. /\ all \in Seq(Pieces) /\ Len(all) = 1 + Len(sizes)
        /\ all[1] = head /\ \A i \in 1 .. Len(sizes) : all[i + 1] = recs[i]
    BY <1>1, <1>2, <1>5, <1>6
  <1> HIDE DEF all
  <1>8. ASSUME NEW i \in 1 .. Len(all) PROVE all[i].w = "w"
    <2>1. CASE i = 1
      BY <1>2, <1>7, <2>1
    <2>2. CASE i # 1
      <3>1. i - 1 \in 1 .. Len(sizes) /\ (i - 1) + 1 = i
        BY <1>1, <1>7, <2>2
      <3> QED
        BY <1>3, <1>5, <1>7, <3>1
    <2> QED
      BY <2>1, <2>2
  <1>9. Size(all) = SizeOutHeader + Asked(sizes)
    <2>1. CASE Len(sizes) = 0
      BY <1>2, <1>7, <2>1 DEF Size, Asked, SizeOutHeader
    <2>2. CASE Len(sizes) = 1
      <3>1. all[2] = rec(1) /\ Len(rec(1).words) = sizes[1] /\ sizes[1] \in Nat
        <4>1. 1 \in 1 .. Len(sizes) /\ 1 + 1 = 2
          BY <2>2
        <4> QED
          BY <1>3, <1>5, <1>7, <4>1
      <3>2. Len(all) = 2 /\ Asked(sizes) = sizes[1]
        BY <1>7, <2>2 DEF Asked
      <3>3. Size(all) = Len(all[1].words) + Len(all[2].words)
        BY <3>2 DEF Size
      <3> QED
        BY <1>2, <1>7, <3>1, <3>2, <3>3
    <2>3. CASE Len(sizes) = 2
      <3>1. all[2] = rec(1) /\ Len(rec(1).words) = sizes[1] /\ sizes[1] \in Nat
        <4>1. 1 \in 1 .. Len(sizes) /\ 1 + 1 = 2
          BY <2>3
        <4> QED
          BY <1>3, <1>5, <1>7, <4>1
      <3>2. all[3] = rec(2) /\ Len(rec(2).words) = sizes[2] /\ sizes[2] \in Nat
        <4>1. 2 \in 1 .. Len(sizes) /\ 2 + 1 = 3
          BY <2>3
        <4> QED
          BY <1>3, <1>5, <1>7, <4>1
      <3>3. Len(all) = 3 /\ Asked(sizes) = sizes[1] + sizes[2]
        BY <1>7, <2>3 DEF Asked
      <3>4. Size(all) = Len(all[1].words) + Len(all[2].words) + Len(all[3].words)
        BY <3>3 DEF Size
      <3>5. Size(all) = SizeOutHeader + sizes[1] + sizes[2]
        BY <1>2, <1>7, <3>1, <3>2, <3>4
      <3>6. SizeOutHeader + sizes[1] + sizes[2] = SizeOutHeader + (sizes[1] + sizes[2])
        <4>1. sizes[1] \in Nat /\ sizes[2] \in Nat
          BY <3>1, <3>2
        <4> QED
          BY <4>1 DEF SizeOutHeader
      <3> QED
        BY <3>3, <3>5, <3>6
    <2> QED
      BY <1>1, <2>1, <2>2, <2>3
  <1> QED
    BY <1>7, <1>8, <1>9 DEF all

LEMMA RecordsFit ==
    ASSUME NEW op \in (Opcodes \cup {"statfs"}) \ {"forget"}, NEW size \in Nat
    PROVE  /\ OutRecords(op) \in Seq(Nat) /\ Len(OutRecords(op)) <= 2
           /\ SizeOutHeader + Asked(OutRecords(op)) <= Kernel(op, size)[2]
  <1> DEFINE room == Kernel(op, size)[2]
  <1>1. room \in Nat /\ 2 <= room
    BY KernelNumbers DEF SizeOutHeader
  <1>2. CASE op = "create"
    <2>1. OutRecords(op) = <<16, 2>> /\ room = 20
      BY <1>2 DEF OutRecords, Kernel, SizeEntryOut, SizeAttr, SizeOpenOut
    <2> QED
      BY <2>1 DEF Asked, SizeOutHeader
  <1>3. CASE op \in {"lookup", "mkdir", "getattr", "setattr", "open", "opendir", "init", "write"}
    <2>1. PICK n \in Nat : OutRecords(op) = <<n>> /\ 2 + n <= room
      BY <1>3 DEF OutRecords, Kernel, SizeEntryOut, SizeAttr, SizeAttrOut, SizeOpenOut, SizeInitOut,
                  SizeWriteOut
    <2> QED
      BY <2>1 DEF Asked, SizeOutHeader
  <1>4. CASE op \notin {"create", "lookup", "mkdir", "getattr", "setattr", "open", "opendir", "init", "write"}
    <2>1. OutRecords(op) = <<>>
      BY <1>4 DEF OutRecords
    <2> QED
      BY <1>1, <2>1 DEF Asked, SizeOutHeader
  <1> QED
    BY <1>2, <1>3, <1>4

LEMMA ListingFacts ==
    ASSUME NEW n \in Nat
    PROVE  ReplyListing(n) \in Seq(Pieces) /\ Listing(ReplyListing(n))
  <1> DEFINE piece(k) == Entry((k + 1) \div 2)[IF k % 2 = 1 THEN 1 ELSE 2]
             entries == [k \in 1 .. (2 * n) |-> piece(k)]
             head == Piece("w", Header("ok", SizeOutHeader + n * (SizeDirEntryOut + SizeName)))
  <1>1. ASSUME NEW k \in 1 .. (2 * n) PROVE piece(k) \in Pieces /\ piece(k).w = "data_writer"
    <2> DEFINE at == ((k + 1) \div 2 - 1) * (SizeDirEntryOut + SizeName)
               first == Piece("data_writer", Body(at, SizeDirEntryOut))
               second == Piece("data_writer", Body(at + SizeDirEntryOut, SizeName))
    <2>1. at \in Nat /\ at + SizeDirEntryOut \in Nat
      BY DEF SizeDirEntryOut, SizeName
    <2>2. piece(k) = <<first, second>>[IF k % 2 = 1 THEN 1 ELSE 2]
      BY DEF Entry
    <2> HIDE DEF at
    <2>3. first \in Pieces /\ second \in Pieces
      BY <2>1, BodyFacts DEF SizeDirEntryOut, SizeName
    <2>4. first.w = "data_writer" /\ second.w = "data_writer"
      BY DEF Piece
    <2> HIDE DEF first, second
    <2>5. piece(k) = first \/ piece(k) = second
      <3> HIDE DEF piece
      <3> QED
        BY <2>2
    <2> QED
      BY <2>3, <2>4, <2>5
  <1>2. head \in Pieces /\ head.w = "w" /\ Len(head.words) = SizeOutHeader
    <2>1. SizeOutHeader + n * (SizeDirEntryOut + SizeName) \in Nat
      BY DEF SizeOutHeader, SizeDirEntryOut, SizeName
    <2> QED
      BY <2>1, HeaderFacts DEF Piece
  <1>3. ReplyListing(n) = entries \o <<head>>
    BY DEF ReplyListing
  <1> HIDE DEF piece, head
  <1>4. entries \in [1 .. (2 * n) -> Pieces] /\ 2 * n \in Nat
    BY <1>1
  <1>5. /\ entries \in Seq(Pieces) /\ Len(entries) = 2 * n
        /\ \A k \in 1 .. (2 * n) : entries[k].w = "data_writer"
    BY <1>1, <1>4
  <1> HIDE DEF entries
  <1> DEFINE all == entries \o <<head>>
  <1>6. /\ all \in Seq(Pieces) /\ Len(all) = 2 * n + 1 /\ all[2 * n + 1] = head
        /\ \A k \in 1 .. (2 * n) : all[k] = entries[k]
    BY <1>2, <1>4, <1>5
  <1> HIDE DEF all
  <1>7. all # <<>> /\ Len(all) - 1 = 2 * n
    BY <1>4, <1>6
  <1> QED
    BY <1>2, <1>3, <1>5, <1>6, <1>7 DEF Listing, all

-----------------------------------------------------------------------------
(* The calls.                                                              *)

\* Reader::read.
LEMMA ReadFacts ==
    ASSUME ExchangeTypes, NEW n \in Nat, Read(n)
    PROVE  /\ result' = Least(n, Left) /\ Left \in Nat
           /\ reader' \in Consumers /\ Left' = Left - result'
           /\ chain' = chain /\ writers' = writers
  <1> DEFINE bufs == Picked(reader.buffers, n)
             moved == Sum(CopyLens(bufs, n))
  <1>1. reader \in Consumers
    BY DEF ExchangeTypes
  <1>2. /\ moved = Least(n, Left) /\ Consumed(reader, bufs, moved) \in Consumers
        /\ Total(Consumed(reader, bufs, moved).buffers) = Left - moved
    BY <1>1, CopyMoves DEF Left
  <1>3. /\ result' = moved /\ reader' = Consumed(reader, bufs, moved)
        /\ chain' = chain /\ writers' = writers
    BY DEF Read, Deliver
  <1>4. Left' = Total(reader'.buffers)
    BY DEF Left
  <1>5. Left \in Nat
    BY <1>1, TotalFacts DEF Left, Consumers
  <1> HIDE DEF bufs, moved
  <1> QED
    BY <1>2, <1>3, <1>4, <1>5

\* Reader::read_to_at.
LEMMA ReadToAtFacts ==
    ASSUME ExchangeTypes, NEW n \in Nat, ReadToAt(n)
    PROVE  reader' \in Consumers /\ chain' = chain /\ writers' = writers
  <1> DEFINE bufs == Picked(reader.buffers, n)
             moved == Sum(Lens(bufs))
  <1>1. reader \in Consumers /\ reader.buffers \in Seq(Slices)
    BY DEF ExchangeTypes, Consumers
  <1>2. moved \in Nat
    BY <1>1, PickedFacts DEF Total
  <1>3. reader' = Consumed(reader, bufs, moved) /\ chain' = chain /\ writers' = writers
    BY DEF ReadToAt, Deliver
  <1> HIDE DEF bufs, moved
  <1> QED
    BY <1>1, <1>2, <1>3, ConsumedTyped

\* What Writer::write and Writer::write_from_at leave of the writers.
OthersKept(w) ==
    /\ chain' = chain /\ reader' = reader /\ DOMAIN writers' = DOMAIN writers
    /\ \A v \in DOMAIN writers : writers'[v] \in Consumers /\ (v # w => writers'[v] = writers[v])

LEMMA WriteFacts ==
    ASSUME ExchangeTypes, NEW w \in DOMAIN writers, NEW data \in Seq(Data), Write(w, data)
    PROVE  /\ result' = Least(Len(data), Total(writers[w].buffers))
           /\ Total(writers'[w].buffers) = Total(writers[w].buffers) - result'
           /\ OthersKept(w)
  <1> DEFINE n == Len(data)
             bufs == Picked(writers[w].buffers, n)
             moved == Sum(CopyLens(bufs, n))
             c == Consumed(writers[w], bufs, moved)
  <1>1. /\ \A v \in DOMAIN writers : writers[v] \in Consumers
        /\ n \in Nat
    BY DEF ExchangeTypes
  <1>2. /\ moved = Least(n, Total(writers[w].buffers)) /\ c \in Consumers
        /\ Total(c.buffers) = Total(writers[w].buffers) - moved
    BY <1>1, CopyMoves
  <1>3. /\ result' = moved /\ writers' = [writers EXCEPT ![w] = c]
        /\ chain' = chain /\ reader' = reader
    BY DEF Write, Place
  <1> HIDE DEF c, moved, bufs, n
  <1>4. DOMAIN writers' = DOMAIN writers /\ writers'[w] = c
        /\ \A v \in DOMAIN writers : v # w => writers'[v] = writers[v]
    BY <1>3
  <1> QED
    BY <1>1, <1>2, <1>3, <1>4 DEF OthersKept, n

LEMMA WriteFromAtFacts ==
    ASSUME ExchangeTypes, NEW w \in DOMAIN writers, NEW data \in Seq(Data), WriteFromAt(w, data)
    PROVE  OthersKept(w)
  <1> DEFINE n == Len(data)
             bufs == Picked(writers[w].buffers, n)
             moved == Sum(VectoredLens(bufs, n))
             c == Consumed(writers[w], bufs, moved)
  <1>1. /\ \A v \in DOMAIN writers : writers[v] \in Consumers
        /\ n \in Nat
    BY DEF ExchangeTypes
  <1>2. bufs \in Seq(Slices)
    BY <1>1, PickedFacts DEF Consumers
  <1>3. writers' = [writers EXCEPT ![w] = c] /\ chain' = chain /\ reader' = reader
    BY DEF WriteFromAt, Place
  <1> HIDE DEF bufs, n
  <1>4. moved \in Nat
    BY <1>1, <1>2, CopyFits, WordsFinite DEF Fits
  <1> HIDE DEF moved
  <1>5. c \in Consumers
    BY <1>1, <1>4, ConsumedTyped
  <1> HIDE DEF c
  <1>6. DOMAIN writers' = DOMAIN writers /\ writers'[w] = c
        /\ \A v \in DOMAIN writers : v # w => writers'[v] = writers[v]
    BY <1>3
  <1> QED
    BY <1>1, <1>3, <1>5, <1>6 DEF OthersKept

LEMMA SplitFacts ==
    ASSUME ExchangeTypes, NEW n \in Nat, SplitAt(n)
    PROVE  /\ chain' = chain /\ reader' = reader /\ DOMAIN writers' = {"w", "data_writer"}
           /\ \A w \in DOMAIN writers' : writers'[w] \in Consumers
           /\ Room' = n
  <1> DEFINE c == writers["w"]
             kept == [c EXCEPT !.buffers = Kept(@, n)]
             rest == Consumer(Advance(c.buffers, n))
             front == Kept(c.buffers, n)
             area == AreaOf(c.buffers)
  <1>1. c \in Consumers /\ c.buffers \in Seq(Slices) /\ n <= Total(c.buffers)
    BY DEF ExchangeTypes, SplitAt, CanSplit, Consumers
  <1>2. /\ chain' = chain /\ reader' = reader
        /\ writers' = [w \in {"w", "data_writer"} |-> IF w = "w" THEN kept ELSE rest]
    BY DEF SplitAt
  <1>3. Within(c.buffers, area)
    <2>1. DOMAIN c.buffers = 1 .. Len(c.buffers)
      BY <1>1
    <2> QED
      BY <1>1, <2>1 DEF Within, AreaOf
  <1> HIDE DEF area
  <1>4. front \in Seq(Slices) /\ Advance(c.buffers, n) \in Seq(Slices)
    <2>1. Within(front, area) /\ Within(Advance(c.buffers, n), area)
      BY <1>1, <1>3, KeptWithin, AdvanceWithin
    <2> QED
      BY <2>1 DEF Within
  <1>5. Total(front) = n
    BY <1>1, AdvanceTotal
  <1>6. kept \in Consumers /\ kept.buffers = front
    <2> HIDE DEF front
    <2> QED
      BY <1>1, <1>4 DEF Consumers, front
  <1>7. rest \in Consumers
    BY <1>4 DEF Consumer, Consumers
  <1> HIDE DEF kept, rest, front
  <1>8. DOMAIN writers' = {"w", "data_writer"} /\ writers'["w"] = kept /\ writers'["data_writer"] = rest
    BY <1>2
  <1> QED
    BY <1>2, <1>5, <1>6, <1>7, <1>8 DEF Room

-----------------------------------------------------------------------------
(* Every step keeps the types and the room.                                *)

LEMMA LayoutsTyped ==
    ASSUME NEW n \in Nat
    PROVE  Layouts(n) \subseteq Seq(Nat)
  <1>1. \A k \in 1 .. n : <<k>> \in Seq(Nat)
    OBVIOUS
  <1>2. \A k \in 1 .. (n - 1) : <<k, n - k>> \in Seq(Nat)
    OBVIOUS
  <1>3. <<>> \in Seq(Nat) /\ <<n>> \in Seq(Nat)
    OBVIOUS
  <1>4. Slicings(n) \subseteq Seq(Nat)
    BY <1>2, <1>3 DEF Slicings
  <1>5. (IF Truncated THEN {<<>>} \cup {<<k>> : k \in 1 .. n} ELSE {}) \subseteq Seq(Nat)
    BY <1>1, <1>3
  <1> QED
    BY <1>4, <1>5 DEF Layouts

LEMMA ExchangeStarts == ExchangeInit => ExchangeTypes /\ RoomInv
  <1> SUFFICES ASSUME ExchangeInit PROVE ExchangeTypes /\ RoomInv
    OBVIOUS
  <1> DEFINE Sent(op, size, k) ==
               /\ request = [op |-> op, len |-> SizeInHeader + k[1], size |-> size]
               /\ \E readable \in Layouts(SizeInHeader + k[1]), writable \in Layouts(k[2]) :
                    ChainOf(readable, writable)
  <1>0. PICK op \in Opcodes \cup {"statfs"} :
          \E size \in IF op \in Sized THEN Sizes ELSE {0} : Sent(op, size, Kernel(op, size))
    BY DEF ExchangeInit
  <1>1. PICK size \in IF op \in Sized THEN Sizes ELSE {0} : Sent(op, size, Kernel(op, size))
    BY <1>0
  <1> DEFINE k == Kernel(op, size)
  <1>2. pc = "header" /\ todo = <<>>
    BY DEF ExchangeInit
  <1>3. size \in Nat
    BY ExchangeAssumption
  <1>4. k[1] \in Nat /\ k[2] \in Nat /\ SizeInHeader + k[1] \in Nat
    BY <1>3, KernelNumbers DEF SizeInHeader
  <1>5. request = [op |-> op, len |-> SizeInHeader + k[1], size |-> size]
    BY <1>1
  <1>6. PICK readable \in Layouts(SizeInHeader + k[1]), writable \in Layouts(k[2]) :
          ChainOf(readable, writable)
    BY <1>1
  <1>7. readable \in Seq(Nat) /\ writable \in Seq(Nat)
    BY <1>4, LayoutsTyped
  <1> DEFINE rs == Laid(readable, 1)
             start == 1 + Total(rs) + Len(rs)
             ws == Laid(writable, start)
  <1>8. rs \in Seq(Slices) /\ Len(rs) \in Nat /\ Total(rs) \in Nat
    BY <1>7, LaidSlices
  <1>9. /\ chain = [readable |-> rs, writable |-> ws]
        /\ reader = Consumer(rs) /\ writers = [w \in {"w"} |-> Consumer(ws)]
    BY <1>6 DEF ChainOf
  <1> HIDE DEF rs
  <1>10. start \in Nat
    BY <1>8
  <1> HIDE DEF start
  <1>11. ws \in Seq(Slices)
    BY <1>7, <1>10, LaidSlices
  <1> HIDE DEF ws
  <1>12. /\ Consumer(rs) \in Consumers /\ Consumer(rs).buffers = rs
         /\ Consumer(ws) \in Consumers /\ Consumer(ws).buffers = ws
    BY <1>8, <1>11 DEF Consumer, Consumers
  <1>13. Left = Total(chain.readable) /\ Room = Total(chain.writable)
    BY <1>9, <1>12 DEF Left, Room
  <1>14. request \in [op : Opcodes \cup {"statfs"}, len : Nat, size : Nat]
         /\ request.len = SizeInHeader + Kernel(request.op, request.size)[1]
    BY <1>3, <1>4, <1>5
  <1>15. chain.readable \in Seq(Slices) /\ chain.writable \in Seq(Slices)
         /\ reader \in Consumers /\ DOMAIN writers = {"w"} /\ \A w \in DOMAIN writers : writers[w] \in Consumers
    BY <1>8, <1>9, <1>11, <1>12
  <1>16. ExchangeTypes
    BY <1>2, <1>14, <1>15 DEF ExchangeTypes
  <1>17. RoomInv
    BY <1>2, <1>13 DEF RoomInv, Enough
  <1> QED
    BY <1>16, <1>17

LEMMA EnoughStays ==
    ASSUME chain' = chain, request' = request
    PROVE  Enough' = Enough
  BY DEF Enough

LEMMA RoomOfRequest ==
    ASSUME ExchangeTypes, RoomInv, Enough, pc \in {"header", "args", "stored"}, request.op # "forget"
    PROVE  SizeOutHeader <= Room /\ Room \in Nat
  <1>1. request.op \in Opcodes \cup {"statfs"} /\ request.size \in Nat /\ writers["w"] \in Consumers
    BY DEF ExchangeTypes
  <1>2. Room \in Nat
    BY <1>1, TotalFacts DEF Room, Consumers
  <1>3. Kernel(request.op, request.size)[2] <= Room
    BY DEF RoomInv
  <1>4. Kernel(request.op, request.size)[2] \in Nat /\ SizeOutHeader <= Kernel(request.op, request.size)[2]
    BY <1>1, KernelNumbers
  <1> QED
    BY <1>2, <1>3, <1>4 DEF SizeOutHeader

\* An error reply fits wherever a header fits.
LEMMA ErrorGoes ==
    ASSUME ExchangeTypes, request' = request, chain' = chain, reader' \in Consumers,
           DOMAIN writers' = DOMAIN writers, \A w \in DOMAIN writers : writers'[w] \in Consumers,
           pc' = "reply", todo' = ReplyError, Enough => SizeOutHeader <= Room'
    PROVE  ExchangeTypes' /\ RoomInv'
  <1>1. "w" \in DOMAIN writers
    BY DEF ExchangeTypes
  <1>2. /\ todo' \in Seq(Pieces) /\ Len(todo') = 1 /\ Size(todo') = SizeOutHeader
        /\ \A i \in 1 .. Len(todo') : todo'[i].w = "w"
    BY ErrorFacts
  <1>3. ExchangeTypes'
    BY <1>1, <1>2 DEF ExchangeTypes
  <1>4. RoomInv'
    <2>1. Len(todo') <= 3
      BY <1>2
    <2> QED
      BY <1>2, <2>1, EnoughStays DEF RoomInv
  <1> QED
    BY <1>3, <1>4

LEMMA HeaderStep ==
    ASSUME ExchangeTypes, RoomInv, ReadHeader
    PROVE  ExchangeTypes' /\ RoomInv'
  <1>1. pc = "header" /\ Read(SizeInHeader) /\ request' = request
    BY DEF ReadHeader
  <1>2. /\ result' = Least(SizeInHeader, Left) /\ Left \in Nat
        /\ reader' \in Consumers /\ Left' = Left - result'
        /\ chain' = chain /\ writers' = writers
    BY <1>1, ReadFacts DEF SizeInHeader
  <1>3. DOMAIN writers = {"w"} /\ \A w \in DOMAIN writers : writers'[w] \in Consumers
    BY <1>1, <1>2 DEF ExchangeTypes
  <1>4. Room' = Room
    BY <1>2 DEF Room
  <1>5. Enough => request.len <= Left /\ Kernel(request.op, request.size)[2] <= Room
    BY <1>1 DEF RoomInv
  <1>6. request.len \in Nat /\ SizeInHeader <= request.len
    <2>1. /\ request.op \in Opcodes \cup {"statfs"} /\ request.size \in Nat
          /\ request.len = SizeInHeader + Kernel(request.op, request.size)[1]
      BY DEF ExchangeTypes
    <2>2. Kernel(request.op, request.size)[1] \in Nat
      BY <2>1, KernelNumbers
    <2> QED
      BY <2>1, <2>2 DEF SizeInHeader
  <1>7. Enough => result' = SizeInHeader
    BY <1>2, <1>5, <1>6 DEF Least, SizeInHeader
  <1>8. CASE result' < SizeInHeader
    <2>1. pc' = "dead" /\ todo' = <<>>
      BY <1>8 DEF ReadHeader, Dies, Goto
    <2>2. ~Enough
      BY <1>7, <1>8 DEF SizeInHeader
    <2>3. ExchangeTypes'
      BY <1>1, <1>2, <1>3, <2>1 DEF ExchangeTypes
    <2> QED
      BY <1>1, <1>2, <2>2, <2>3, EnoughStays DEF RoomInv
  <1>9. CASE ~(result' < SizeInHeader) /\ (request.len > MaxLen \/ request.op \notin Opcodes)
    <2>1. pc' = "reply" /\ todo' = ReplyError
      BY <1>9 DEF ReadHeader, Goto
    <2>2. Enough => request.op # "forget"
      <3>1. ASSUME Enough, request.op = "forget" PROVE FALSE
        <4>1. request.op \in Opcodes /\ request.len = SizeInHeader + 1
          BY <3>1 DEF Opcodes, ExchangeTypes, Kernel
        <4> QED
          BY <1>9, <3>1, <4>1, ExchangeAssumption DEF SizeInHeader, Enough
      <3> QED
        BY <3>1
    <2>3. Enough => SizeOutHeader <= Room'
      BY <1>1, <1>4, <2>2, RoomOfRequest
    <2> QED
      BY <1>1, <1>2, <1>3, <2>1, <2>3, ErrorGoes
  <1>10. CASE ~(result' < SizeInHeader) /\ ~(request.len > MaxLen \/ request.op \notin Opcodes)
    <2>1. pc' = "args" /\ todo' = Reads(request.op)
      BY <1>10 DEF ReadHeader, Goto
    <2>2. /\ todo' \in Seq(Nat) /\ Len(todo') <= 2 /\ Asked(todo') \in Nat
          /\ Asked(todo') <= request.len - SizeInHeader
      <3>1. todo' \in Seq(Nat) /\ Len(todo') <= 2 /\ Asked(todo') <= request.len - SizeInHeader
        BY <1>10, <2>1, ReadsFit
      <3> QED
        BY <3>1, AskedNat
    <2>3. ExchangeTypes'
      BY <1>1, <1>2, <1>3, <2>1, <2>2 DEF ExchangeTypes
    <2>4. Enough => Asked(todo') <= Left'
      BY <1>2, <1>5, <1>6, <1>7, <2>2 DEF SizeInHeader
    <2>5. Enough' => Asked(todo)' <= Left' /\ Kernel(request.op, request.size)[2]' <= Room'
      BY <1>1, <1>2, <1>4, <1>5, <2>4, EnoughStays
    <2>6. RoomInv'
      BY <2>1, <2>5 DEF RoomInv
    <2> QED
      BY <2>3, <2>6
  <1> QED
    BY <1>8, <1>9, <1>10

LEMMA ArgumentStep ==
    ASSUME ExchangeTypes, RoomInv, ReadArgument
    PROVE  ExchangeTypes' /\ RoomInv'
  <1> DEFINE n == Head(todo)
  <1>1. pc = "args" /\ todo # <<>> /\ Read(n) /\ request' = request
    BY DEF ReadArgument
  <1>2. todo \in Seq(Nat) /\ Len(todo) <= 2
    BY <1>1 DEF ExchangeTypes
  <1>3. /\ n \in Nat /\ Tail(todo) \in Seq(Nat) /\ Len(Tail(todo)) <= 2
        /\ Asked(Tail(todo)) \in Nat /\ Asked(todo) = n + Asked(Tail(todo))
    BY <1>1, <1>2, AskedTail
  <1>4. /\ result' = Least(n, Left) /\ Left \in Nat
        /\ reader' \in Consumers /\ Left' = Left - result'
        /\ chain' = chain /\ writers' = writers
    BY <1>1, <1>2, ReadFacts
  <1>5. DOMAIN writers = {"w"} /\ \A w \in DOMAIN writers : writers'[w] \in Consumers
    BY <1>1, <1>4 DEF ExchangeTypes
  <1>6. Enough => Asked(todo) <= Left /\ Kernel(request.op, request.size)[2] <= Room
    BY <1>1 DEF RoomInv
  <1> HIDE DEF n
  <1>7. Enough => result' = n
    BY <1>3, <1>4, <1>6 DEF Least
  <1>8. CASE result' < n
    <2>1. pc' = "dead" /\ todo' = <<>>
      BY <1>8 DEF ReadArgument, Dies, Goto, n
    <2>2. ~Enough
      BY <1>3, <1>7, <1>8
    <2>3. ExchangeTypes'
      BY <1>1, <1>4, <1>5, <2>1 DEF ExchangeTypes
    <2> QED
      BY <1>1, <1>4, <2>2, <2>3, EnoughStays DEF RoomInv
  <1>9. CASE ~(result' < n)
    <2>1. pc' = "args" /\ todo' = Tail(todo)
      BY <1>9 DEF ReadArgument, Goto, n
    <2>2. Len(todo') <= 2
      BY <1>2, <2>1
    <2>3. ExchangeTypes'
      BY <1>1, <1>2, <1>4, <1>5, <2>1, <2>2 DEF ExchangeTypes
    <2>4. Enough => Asked(todo') <= Left'
      BY <1>2, <1>3, <1>4, <1>6, <1>7, <2>1
    <2>5. Room' = Room
      BY <1>4 DEF Room
    <2>6. Enough' => Asked(todo)' <= Left' /\ Kernel(request.op, request.size)[2]' <= Room'
      BY <1>1, <1>4, <1>6, <2>4, <2>5, EnoughStays
    <2>7. RoomInv'
      BY <2>1, <2>6 DEF RoomInv
    <2> QED
      BY <2>3, <2>7
  <1> QED
    BY <1>8, <1>9

\* Steps that make no call.
LEMMA PlainSteps ==
    ASSUME ExchangeTypes, RoomInv, Refused \/ Silent \/ Accepted \/ SendListing \/ Return \/ Over
    PROVE  ExchangeTypes' /\ RoomInv'
  <1>1. /\ request' = request /\ chain' = chain /\ reader' = reader /\ writers' = writers
        /\ Room' = Room
    <2>1. request' = request /\ UNCHANGED dvars
      BY DEF Refused, Silent, Accepted, SendListing, Return, Over, Step, xvars, evars
    <2> QED
      BY <2>1 DEF dvars, Room
  <1>2. /\ reader' \in Consumers /\ DOMAIN writers' = DOMAIN writers
        /\ \A w \in DOMAIN writers : writers'[w] \in Consumers
        /\ "w" \in DOMAIN writers
    BY <1>1 DEF ExchangeTypes
  <1>3. Enough' = Enough
    BY <1>1, EnoughStays
  <1>4. ASSUME pc' \in {"done"} \/ (pc' = pc /\ pc \in {"done", "dead"})
        PROVE  ExchangeTypes' /\ RoomInv'
    <2>1. pc' \in {"done", "dead"} /\ (pc' = "dead" => pc = "dead")
      BY <1>4
    <2>2. ExchangeTypes'
      BY <1>1, <1>2, <2>1 DEF ExchangeTypes
    <2>3. RoomInv'
      BY <1>3, <2>1 DEF RoomInv
    <2> QED
      BY <2>2, <2>3
  <1>5. CASE Silent \/ Return \/ Over
    BY <1>4, <1>5 DEF Silent, Return, Over, Step, Goto, xvars, evars
  <1>6. CASE Refused
    <2>1. pc' = "reply" /\ todo' = ReplyError
      BY <1>6 DEF Refused, Step, Goto
    <2>2. \/ pc \in {"args", "stored"} /\ request.op # "forget"
          \/ pc = "list"
      BY <1>6 DEF Refused, ExchangeTypes
    <2>3. Enough => SizeOutHeader <= Room'
      <3>1. CASE pc \in {"args", "stored"} /\ request.op # "forget"
        BY <1>1, <3>1, RoomOfRequest
      <3>2. CASE pc = "list"
        BY <1>1, <3>2 DEF RoomInv
      <3> QED
        BY <2>2, <3>1, <3>2
    <2> QED
      BY <1>1, <1>2, <2>1, <2>3, ErrorGoes
  <1>7. CASE Accepted
    <2> DEFINE op == request.op
               sizes == OutRecords(op)
               room == Kernel(op, request.size)[2]
    <2>1. pc' = "reply" /\ todo' = ReplyOk(sizes)
      BY <1>7 DEF Accepted, Step, Goto
    <2>2. pc \in {"args", "stored"} /\ op # "forget"
      BY <1>7 DEF Accepted, ExchangeTypes
    <2>3. op \in (Opcodes \cup {"statfs"}) \ {"forget"} /\ request.size \in Nat
      BY <2>2 DEF ExchangeTypes
    <2> HIDE DEF op
    <2>4. sizes \in Seq(Nat) /\ Len(sizes) <= 2 /\ SizeOutHeader + Asked(sizes) <= room
      BY <2>3, RecordsFit
    <2> HIDE DEF sizes
    <2>5. /\ todo' \in Seq(Pieces) /\ Len(todo') = 1 + Len(sizes)
          /\ \A i \in 1 .. Len(todo') : todo'[i].w = "w"
          /\ Size(todo') = SizeOutHeader + Asked(sizes)
      BY <2>1, <2>4, OkFacts
    <2>6. Enough => room <= Room
      BY <2>2 DEF RoomInv, op
    <2>7. Enough => Size(todo') <= Room'
      <3>1. Size(todo') <= room
        BY <2>4, <2>5, Zenon
      <3>2. room \in Nat /\ Room \in Nat
        <4>1. writers["w"] \in Consumers
          BY <1>2 DEF ExchangeTypes
        <4> QED
          BY <2>3, <4>1, KernelNumbers, TotalFacts DEF Room, Consumers
      <3>3. Size(todo') \in Nat
        <4>1. Asked(sizes) \in Nat
          BY <2>4, AskedNat
        <4> QED
          BY <2>5, <4>1 DEF SizeOutHeader
      <3> QED
        BY <1>1, <2>6, <3>1, <3>2, <3>3
    <2>8. Len(todo') <= 3
      BY <2>4, <2>5
    <2>9. ExchangeTypes'
      BY <1>1, <1>2, <2>1, <2>5 DEF ExchangeTypes
    <2>10. RoomInv'
      BY <1>3, <2>1, <2>5, <2>7, <2>8 DEF RoomInv
    <2> QED
      BY <2>9, <2>10
  <1>8. CASE SendListing
    <2>1. PICK n \in Counts \cup {0} : pc' = "reply" /\ todo' = ReplyListing(n)
      BY <1>8 DEF SendListing, Step, Goto
    <2>2. n \in Nat /\ pc = "list"
      BY <1>8, ExchangeAssumption DEF SendListing
    <2>3. todo' \in Seq(Pieces) /\ Listing(todo')
      BY <2>1, <2>2, ListingFacts
    <2>4. DOMAIN writers = {"w", "data_writer"}
      BY <2>2 DEF ExchangeTypes
    <2>5. \A i \in 1 .. Len(todo') : todo'[i].w \in DOMAIN writers
      <3>1. \A i \in 1 .. Len(todo') : todo'[i] \in Pieces
        BY <2>3
      <3> QED
        BY <2>4, <3>1 DEF Pieces
    <2>6. ExchangeTypes'
      BY <1>1, <1>2, <2>1, <2>3, <2>5 DEF ExchangeTypes
    <2>7. Enough => SizeOutHeader <= Room'
      BY <1>1, <2>2 DEF RoomInv
    <2>8. Listing(todo)'
      BY <2>3 DEF Listing
    <2>9. RoomInv'
      BY <1>3, <2>1, <2>7, <2>8 DEF RoomInv
    <2> QED
      BY <2>6, <2>9
  <1> QED
    BY <1>5, <1>6, <1>7, <1>8

LEMMA PayloadStep ==
    ASSUME ExchangeTypes, RoomInv, TakePayload
    PROVE  ExchangeTypes' /\ RoomInv'
  <1>1. /\ pc = "args" /\ request.op = "write" /\ ReadToAt(request.size) /\ request' = request
        /\ pc' = "stored" /\ request.size \in Nat
    BY DEF TakePayload, Goto, ExchangeTypes
  <1>2. reader' \in Consumers /\ chain' = chain /\ writers' = writers
    BY <1>1, ReadToAtFacts
  <1>3. ExchangeTypes'
    BY <1>1, <1>2 DEF ExchangeTypes
  <1>4. Room' = Room /\ Enough' = Enough
    BY <1>1, <1>2, EnoughStays DEF Room
  <1>5. RoomInv'
    BY <1>1, <1>4 DEF RoomInv
  <1> QED
    BY <1>3, <1>5

LEMMA SplitStep ==
    ASSUME ExchangeTypes, RoomInv, SplitHeader
    PROVE  ExchangeTypes' /\ RoomInv'
  <1>1. pc = "args" /\ request.op \in {"read", "readdir"} /\ request' = request
    BY DEF SplitHeader
  <1>2. CASE SplitAt(SizeOutHeader) /\ Goto(IF request.op = "read" THEN "data" ELSE "list", <<>>)
    <2>1. /\ chain' = chain /\ reader' = reader /\ DOMAIN writers' = {"w", "data_writer"}
          /\ \A w \in DOMAIN writers' : writers'[w] \in Consumers
          /\ Room' = SizeOutHeader
      BY <1>2, SplitFacts DEF SizeOutHeader
    <2>2. pc' \in {"data", "list"} /\ todo' = <<>>
      BY <1>2 DEF Goto
    <2>3. ExchangeTypes'
      BY <1>1, <2>1, <2>2 DEF ExchangeTypes
    <2>4. RoomInv'
      BY <2>1, <2>2 DEF RoomInv, SizeOutHeader
    <2> QED
      BY <2>3, <2>4
  <1>3. CASE ~CanSplit(writers["w"], SizeOutHeader) /\ Dies /\ UNCHANGED dvars
    <2>1. /\ chain' = chain /\ reader' = reader /\ writers' = writers
          /\ pc' = "dead" /\ todo' = <<>>
      BY <1>3 DEF dvars, Dies, Goto
    <2>2. ASSUME Enough PROVE FALSE
      <3>1. SizeOutHeader <= Room
        BY <1>1, <2>2, RoomOfRequest
      <3> QED
        BY <1>3, <3>1 DEF CanSplit, Room
    <2>3. ExchangeTypes'
      BY <1>1, <2>1 DEF ExchangeTypes
    <2>4. RoomInv'
      BY <1>1, <2>1, <2>2, EnoughStays DEF RoomInv
    <2> QED
      BY <2>3, <2>4
  <1> QED
    BY <1>2, <1>3 DEF SplitHeader

LEMMA DataStep ==
    ASSUME ExchangeTypes, RoomInv, SendData
    PROVE  ExchangeTypes' /\ RoomInv'
  <1>1. PICK rest \in Rests : /\ WriteFromAt("data_writer", Body(0, rest))
                             /\ Goto("reply", <<Piece("w", Header("ok", SizeOutHeader + rest))>>)
    BY DEF SendData
  <1>2. pc = "data" /\ request' = request /\ rest \in Nat
    BY ExchangeAssumption DEF SendData
  <1>3. DOMAIN writers = {"w", "data_writer"}
    BY <1>2 DEF ExchangeTypes
  <1>4. Body(0, rest) \in Seq(Data)
    BY <1>2, BodyFacts
  <1>5. OthersKept("data_writer")
    BY <1>1, <1>3, <1>4, WriteFromAtFacts
  <1>6. /\ chain' = chain /\ reader' = reader /\ DOMAIN writers' = DOMAIN writers
        /\ \A w \in DOMAIN writers : writers'[w] \in Consumers
        /\ writers'["w"] = writers["w"]
    BY <1>3, <1>5 DEF OthersKept
  <1> DEFINE h == Header("ok", SizeOutHeader + rest)
  <1>7. SizeOutHeader + rest \in Nat
    BY <1>2 DEF SizeOutHeader
  <1>8. Piece("w", h) \in Pieces /\ Len(h) = SizeOutHeader
    BY <1>7, HeaderFacts
  <1>9. Piece("w", h).w = "w" /\ Piece("w", h).words = h
    BY DEF Piece
  <1>10. pc' = "reply" /\ todo' = <<Piece("w", h)>>
    BY <1>1 DEF Goto
  <1> HIDE DEF h
  <1>11. /\ todo' \in Seq(Pieces) /\ Len(todo') = 1 /\ todo'[1].w = "w"
         /\ Len(todo'[1].words) = SizeOutHeader
    BY <1>8, <1>9, <1>10
  <1>12. \A i \in 1 .. Len(todo') : todo'[i].w = "w"
    BY <1>11
  <1>13. Size(todo') = SizeOutHeader /\ Len(todo') <= 3
    BY <1>11 DEF Size
  <1>14. ExchangeTypes'
    BY <1>2, <1>3, <1>6, <1>10, <1>11, <1>12 DEF ExchangeTypes
  <1>15. Room' = Room /\ Enough' = Enough /\ (Enough => SizeOutHeader <= Room)
    BY <1>2, <1>6, EnoughStays DEF Room, RoomInv
  <1>16. RoomInv'
    BY <1>10, <1>12, <1>13, <1>15 DEF RoomInv
  <1> QED
    BY <1>14, <1>16

LEMMA PieceStep ==
    ASSUME ExchangeTypes, RoomInv, WritePiece
    PROVE  ExchangeTypes' /\ RoomInv'
  <1> DEFINE piece == Head(todo)
             n == Len(piece.words)
             rest == Tail(todo)
             AllFit == Len(todo) <= 3 /\ Size(todo) <= Room /\ \A i \in 1 .. Len(todo) : todo[i].w = "w"
             Behind == SizeOutHeader <= Room /\ Listing(todo)
  <1>1. pc = "reply" /\ todo # <<>> /\ Write(piece.w, piece.words) /\ request' = request
    BY DEF WritePiece
  <1>2. /\ todo \in Seq(Pieces) /\ \A i \in 1 .. Len(todo) : todo[i].w \in DOMAIN writers
    BY <1>1 DEF ExchangeTypes
  <1>3. /\ piece = todo[1] /\ piece \in Pieces /\ Len(todo) \in Nat /\ Len(todo) >= 1
        /\ rest \in Seq(Pieces) /\ Len(rest) = Len(todo) - 1
        /\ \A i \in 1 .. Len(rest) : rest[i] = todo[i + 1] /\ i + 1 \in 1 .. Len(todo)
    <2>1. Head(todo) = todo[1] /\ Len(todo) \in Nat /\ Len(todo) # 0
      BY <1>1, <1>2
    <2>2. /\ Head(todo) \in Pieces /\ Tail(todo) \in Seq(Pieces) /\ Len(Tail(todo)) = Len(todo) - 1
          /\ \A i \in 1 .. Len(Tail(todo)) : Tail(todo)[i] = todo[i + 1]
      BY <1>1, <1>2, HeadTailProperties
    <2> QED
      BY <2>1, <2>2
  <1>4. piece.w \in {"w", "data_writer"} /\ piece.words \in Seq(Data) /\ n \in Nat
        /\ piece.w \in DOMAIN writers
    <2>1. piece.w \in {"w", "data_writer"} /\ piece.words \in Seq(Data)
      BY <1>3 DEF Pieces
    <2>2. 1 \in 1 .. Len(todo)
      BY <1>3
    <2> QED
      BY <1>2, <1>3, <2>1, <2>2
  <1> HIDE DEF piece, rest
  <1>5. /\ result' = Least(n, Total(writers[piece.w].buffers))
        /\ Total(writers'[piece.w].buffers) = Total(writers[piece.w].buffers) - result'
        /\ OthersKept(piece.w)
    BY <1>1, <1>4, WriteFacts
  <1> HIDE DEF n
  <1>6. /\ chain' = chain /\ reader' = reader /\ DOMAIN writers' = DOMAIN writers
        /\ \A w \in DOMAIN writers : writers'[w] \in Consumers
    BY <1>5 DEF OthersKept
  <1>7. Enough' = Enough
    BY <1>1, <1>6, EnoughStays
  <1>8. "w" \in DOMAIN writers /\ Room \in Nat
    <2>1. "w" \in DOMAIN writers /\ writers["w"] \in Consumers
      BY DEF ExchangeTypes
    <2> QED
      BY <2>1, TotalFacts DEF Room, Consumers
  <1>9. piece.w = "data_writer" => Room' = Room
    BY <1>5, <1>8 DEF OthersKept, Room
  <1>10. piece.w = "w" => result' = Least(n, Room) /\ Room' = Room - result'
    BY <1>5 DEF Room
  <1>11. Enough => AllFit \/ Behind
    BY <1>1 DEF RoomInv
  <1>12. Behind /\ Len(todo) = 1 => piece.w = "w" /\ n = SizeOutHeader
    BY <1>3 DEF Listing, n
  <1>13. Behind /\ Len(todo) # 1 => piece.w = "data_writer" /\ Listing(rest)
    <2>1. ASSUME Listing(todo), Len(todo) # 1 PROVE piece.w = "data_writer" /\ Listing(rest)
      <3>1. 1 \in 1 .. (Len(todo) - 1) /\ Len(rest) >= 1
        BY <1>3, <2>1
      <3>2. piece.w = "data_writer"
        BY <1>3, <2>1, <3>1 DEF Listing
      <3>3. rest # <<>>
        BY <1>3, <3>1
      <3>4. \A i \in 1 .. (Len(rest) - 1) : i \in 1 .. Len(rest) /\ i + 1 \in 1 .. (Len(todo) - 1)
        BY <1>3
      <3>5. \A i \in 1 .. (Len(rest) - 1) : rest[i].w = "data_writer"
        BY <1>3, <2>1, <3>4 DEF Listing
      <3>6. rest[Len(rest)] = todo[Len(todo)]
        <4>1. Len(rest) \in 1 .. Len(rest) /\ Len(rest) + 1 = Len(todo)
          BY <1>3, <3>1
        <4> QED
          BY <1>3, <4>1
      <3> QED
        BY <2>1, <3>2, <3>3, <3>5, <3>6 DEF Listing
    <2> QED
      BY <2>1
  <1>14. AllFit => /\ piece.w = "w" /\ Len(rest) <= 3 /\ \A i \in 1 .. Len(rest) : rest[i].w = "w"
                   /\ Size(rest) \in Nat /\ Size(todo) = n + Size(rest)
    <2>1. ASSUME AllFit PROVE /\ piece.w = "w" /\ Len(rest) <= 3
                              /\ \A i \in 1 .. Len(rest) : rest[i].w = "w"
      <3>1. 1 \in 1 .. Len(todo)
        BY <1>3
      <3> QED
        BY <1>3, <2>1, <3>1
    <2>2. ASSUME Len(todo) <= 3 PROVE Size(rest) \in Nat /\ Size(todo) = n + Size(rest)
      <3>1. ASSUME NEW i \in 1 .. Len(rest) PROVE Len(rest[i].words) \in Nat /\ rest[i] = todo[i + 1]
        <4>1. rest[i] \in Pieces
          BY <1>3, <3>1
        <4> QED
          BY <1>3, <3>1, <4>1 DEF Pieces
      <3>2. CASE Len(todo) = 1
        BY <1>3, <1>4, <3>2 DEF Size, n
      <3>3. CASE Len(todo) = 2
        <4>1. Len(rest) = 1 /\ 1 \in 1 .. Len(rest) /\ 1 + 1 = 2
          BY <1>3, <3>3
        <4>2. rest[1] = todo[2] /\ Len(rest[1].words) \in Nat
          BY <3>1, <4>1
        <4>3. Size(rest) = Len(rest[1].words) /\ Size(todo) = Len(todo[1].words) + Len(todo[2].words)
          BY <3>3, <4>1 DEF Size
        <4>4. Len(todo[1].words) = n
          BY <1>3 DEF n
        <4> QED
          BY <1>4, <4>2, <4>3, <4>4
      <3>4. CASE Len(todo) = 3
        <4>1. Len(rest) = 2 /\ 1 \in 1 .. Len(rest) /\ 1 + 1 = 2 /\ 2 \in 1 .. Len(rest) /\ 2 + 1 = 3
          BY <1>3, <3>4
        <4>2. /\ rest[1] = todo[2] /\ Len(rest[1].words) \in Nat
              /\ rest[2] = todo[3] /\ Len(rest[2].words) \in Nat
          BY <3>1, <4>1
        <4>3. /\ Size(rest) = Len(rest[1].words) + Len(rest[2].words)
              /\ Size(todo) = Len(todo[1].words) + Len(todo[2].words) + Len(todo[3].words)
          BY <3>4, <4>1 DEF Size
        <4>4. Len(todo[1].words) = n
          BY <1>3 DEF n
        <4>5. Size(todo) = n + Len(rest[1].words) + Len(rest[2].words)
          BY <4>2, <4>3, <4>4, Zenon
        <4>6. \A a, b \in Nat : n + a + b = n + (a + b) /\ a + b \in Nat
          BY <1>4
        <4> QED
          BY <4>2, <4>3, <4>5, <4>6, Zenon
      <3>5. \A m \in Nat : m >= 1 /\ m <= 3 => m = 1 \/ m = 2 \/ m = 3
        OBVIOUS
      <3> QED
        BY <1>3, <2>2, <3>2, <3>3, <3>4, <3>5
    <2> QED
      BY <2>1, <2>2
  <1> HIDE DEF AllFit, Behind
  <1>15. CASE result' = n
    <2>1. pc' = "reply" /\ todo' = rest
      BY <1>15 DEF WritePiece, Goto, n, piece, rest
    <2>2. \A i \in 1 .. Len(rest) : rest[i].w \in DOMAIN writers
      BY <1>2, <1>3
    <2>3. ExchangeTypes'
      BY <1>1, <1>3, <1>6, <2>1, <2>2 DEF ExchangeTypes
    <2>4. ASSUME AllFit
          PROVE  Len(todo') <= 3 /\ Size(todo') <= Room' /\ \A i \in 1 .. Len(todo') : todo'[i].w = "w"
      <3>1. Size(rest) <= Room'
        <4>1. Room' = Room - n /\ Size(todo) <= Room
          BY <1>10, <1>14, <1>15, <2>4 DEF AllFit
        <4> QED
          BY <1>4, <1>8, <1>14, <2>4, <4>1
      <3> QED
        BY <1>14, <2>1, <2>4, <3>1
    <2>5. ASSUME Behind
          PROVE  \/ Len(todo') <= 3 /\ Size(todo') <= Room' /\ \A i \in 1 .. Len(todo') : todo'[i].w = "w"
                 \/ SizeOutHeader <= Room' /\ Listing(todo')
      <3>1. CASE Len(todo) = 1
        <4>1. Len(todo') = 0 /\ Size(todo') = 0
          BY <1>3, <2>1, <3>1 DEF Size
        <4>2. Room' = Room - SizeOutHeader /\ SizeOutHeader <= Room
          BY <1>10, <1>12, <1>15, <2>5, <3>1 DEF Behind
        <4> QED
          BY <1>8, <4>1, <4>2 DEF SizeOutHeader
      <3>2. CASE Len(todo) # 1
        BY <1>9, <1>13, <2>1, <2>5, <3>2 DEF Behind
      <3> QED
        BY <3>1, <3>2
    <2>6. Listing(todo)' = Listing(todo')
      BY DEF Listing
    <2>7. RoomInv'
      BY <1>7, <1>11, <2>1, <2>4, <2>5, <2>6 DEF RoomInv
    <2> QED
      BY <2>3, <2>7
  <1>16. CASE result' # n /\ piece.w = "data_writer"
    <2>1. pc' = "reply" /\ todo' = ReplyError
      BY <1>16 DEF WritePiece, Goto, n, piece
    <2>2. Enough => SizeOutHeader <= Room'
      BY <1>9, <1>11, <1>14, <1>16 DEF Behind
    <2>3. reader' \in Consumers
      BY <1>6 DEF ExchangeTypes
    <2> QED
      BY <1>1, <1>6, <2>1, <2>2, <2>3, ErrorGoes
  <1>17. CASE result' # n /\ piece.w # "data_writer"
    <2>1. pc' = "dead" /\ todo' = <<>>
      BY <1>17 DEF WritePiece, Goto, Dies, n, piece
    <2>2. piece.w = "w"
      BY <1>4, <1>17
    <2>3. AllFit => n <= Room
      <3>1. ASSUME AllFit PROVE n <= Room
        <4>1. Size(todo) <= Room /\ Size(rest) \in Nat /\ Size(todo) = n + Size(rest)
          BY <1>14, <3>1 DEF AllFit
        <4> QED
          BY <1>4, <1>8, <4>1
      <3> QED
        BY <3>1
    <2>4. Behind => n <= Room
      BY <1>12, <1>13, <1>17 DEF Behind
    <2>5. ~Enough
      BY <1>4, <1>8, <1>10, <1>11, <1>17, <2>2, <2>3, <2>4 DEF Least
    <2>6. ExchangeTypes'
      BY <1>1, <1>6, <2>1 DEF ExchangeTypes
    <2>7. RoomInv'
      BY <1>7, <2>5 DEF RoomInv
    <2> QED
      BY <2>6, <2>7
  <1> QED
    BY <1>15, <1>16, <1>17

LEMMA ExchangeSteps ==
    ASSUME ExchangeTypes, RoomInv, [ExchangeNext]_xvars
    PROVE  ExchangeTypes' /\ RoomInv'
  <1>1. CASE UNCHANGED xvars
    <2>1. /\ chain' = chain /\ reader' = reader /\ writers' = writers /\ request' = request
          /\ pc' = pc /\ todo' = todo
      BY <1>1 DEF xvars, dvars, evars
    <2>2. ExchangeTypes'
      BY <2>1 DEF ExchangeTypes
    <2>3. Left' = Left /\ Room' = Room /\ Enough' = Enough
      BY <2>1, EnoughStays DEF Left, Room
    <2>4. Listing(todo)' = Listing(todo)
      BY <2>1 DEF Listing
    <2>5. RoomInv'
      BY <2>1, <2>3, <2>4 DEF RoomInv
    <2> QED
      BY <2>2, <2>5
  <1> QED
    BY <1>1, HeaderStep, ArgumentStep, PlainSteps, PayloadStep, SplitStep, DataStep, PieceStep
       DEF ExchangeNext

(* A request that is all there and has room for its reply never ends the worker,
   however its chain is sliced and whatever file or directory it meets: the sizes
   of filesystem_message.rs fit what the kernel sends and the room it leaves, each
   read_obj, read_exact and write_all of a handler finds its words, and a listing
   that does not fit turns into an error that does.  A FORGET, which has no room for
   an error, must not be refused as too long: the limit is above its length. *)
THEOREM WorkerSurvives ==
    ASSUME MaxLen >= SizeInHeader + 1
    PROVE  ExchangeSpec => []Survives
  <1>1. ExchangeInit => ExchangeTypes /\ RoomInv
    BY ExchangeStarts
  <1>2. ExchangeTypes /\ RoomInv /\ [ExchangeNext]_xvars => (ExchangeTypes /\ RoomInv)'
    BY ExchangeSteps
  <1>3. ExchangeTypes /\ RoomInv => Survives
    <2> SUFFICES ASSUME ExchangeTypes, RoomInv, pc = "dead"
                 PROVE  \/ Total(chain.readable) < request.len
                        \/ Total(chain.writable) < Kernel(request.op, request.size)[2]
      BY DEF Survives
    <2>1. ~Enough
      BY DEF RoomInv
    <2>2. /\ Total(chain.readable) \in Nat /\ Total(chain.writable) \in Nat /\ request.len \in Nat
          /\ Kernel(request.op, request.size)[2] \in Nat
      BY TotalFacts, KernelNumbers DEF ExchangeTypes
    <2> QED
      BY <2>1, <2>2 DEF Enough
  <1> QED
    BY <1>1, <1>2, <1>3, PTL DEF ExchangeSpec

-----------------------------------------------------------------------------
(* Where a reply is written.                                               *)

LEMMA InsideStarts == ExchangeInit => InsideInv /\ NoStrayWrite
  <1> SUFFICES ASSUME ExchangeInit PROVE InsideInv /\ NoStrayWrite
    OBVIOUS
  <1>1. PICK op \in Opcodes \cup {"statfs"} :
          \E size \in IF op \in Sized THEN Sizes ELSE {0} :
            \E readable \in Layouts(SizeInHeader + Kernel(op, size)[1]),
               writable \in Layouts(Kernel(op, size)[2]) : ChainOf(readable, writable)
    BY DEF ExchangeInit
  <1>2. PICK size \in IF op \in Sized THEN Sizes ELSE {0} :
          \E readable \in Layouts(SizeInHeader + Kernel(op, size)[1]),
             writable \in Layouts(Kernel(op, size)[2]) : ChainOf(readable, writable)
    BY <1>1
  <1>3. size \in Nat
    BY ExchangeAssumption
  <1>4. SizeInHeader + Kernel(op, size)[1] \in Nat /\ Kernel(op, size)[2] \in Nat
    BY <1>3, KernelNumbers DEF SizeInHeader
  <1>5. PICK readable, writable \in Seq(Nat) : ChainOf(readable, writable)
    BY <1>2, <1>4, LayoutsTyped
  <1> QED
    BY <1>5, LaidInside

LEMMA InsideSteps ==
    ASSUME ExchangeTypes, InsideInv, NoStrayWrite, [ExchangeNext]_xvars
    PROVE  InsideInv' /\ NoStrayWrite'
  <1>1. ASSUME UNCHANGED <<chain, mem, writers>> PROVE InsideInv' /\ NoStrayWrite'
    <2>1. chain' = chain /\ mem' = mem /\ writers' = writers
      BY <1>1
    <2> QED
      BY <2>1 DEF InsideInv, NoStrayWrite
  <1>2. ASSUME NEW w \in DOMAIN writers, NEW data \in Seq(Data), Write(w, data) \/ WriteFromAt(w, data)
        PROVE  InsideInv' /\ NoStrayWrite'
    <2> DEFINE n == Len(data)
               bufs == Picked(writers[w].buffers, n)
    <2>1. n \in Nat
      OBVIOUS
    <2>2. Within(bufs, AreaOf(chain.writable))
      BY <2>1, PickedWithin DEF InsideInv
    <2>3. Fits(CopyLens(bufs, n), bufs) /\ Fits(VectoredLens(bufs, n), bufs)
      BY <2>1, <2>2, CopyFits DEF Within
    <2>4. CASE Write(w, data)
      <3>1. Place(w, bufs, CopyLens(bufs, n), data)
        BY <2>4 DEF Write
      <3> QED
        BY <2>1, <2>3, <3>1, PlaceStays
    <2>5. CASE WriteFromAt(w, data)
      <3>1. Place(w, bufs, VectoredLens(bufs, n), data)
        BY <2>5 DEF WriteFromAt
      <3> QED
        BY <2>1, <2>3, <3>1, PlaceStays
    <2> QED
      BY <1>2, <2>4, <2>5
  <1>3. CASE UNCHANGED xvars
    BY <1>1, <1>3 DEF xvars, dvars
  <1>4. CASE ReadHeader \/ ReadArgument \/ TakePayload
    BY <1>1, <1>4 DEF ReadHeader, ReadArgument, TakePayload, Read, ReadToAt, Deliver
  <1>5. CASE Refused \/ Silent \/ Accepted \/ SendListing \/ Return \/ Over
    BY <1>1, <1>5 DEF Refused, Silent, Accepted, SendListing, Return, Over, Step, xvars, dvars
  <1>6. CASE SplitHeader
    <2>1. CASE SplitAt(SizeOutHeader)
      BY <2>1, SplitStays DEF SizeOutHeader
    <2>2. CASE UNCHANGED dvars
      BY <1>1, <2>2 DEF dvars
    <2> QED
      BY <1>6, <2>1, <2>2 DEF SplitHeader
  <1>7. CASE SendData
    <2>1. PICK rest \in Rests : WriteFromAt("data_writer", Body(0, rest))
      BY <1>7 DEF SendData
    <2>2. Body(0, rest) \in Seq(Data) /\ "data_writer" \in DOMAIN writers
      BY <1>7, BodyFacts, ExchangeAssumption DEF SendData, ExchangeTypes
    <2> QED
      BY <1>2, <2>1, <2>2
  <1>8. CASE WritePiece
    <2>1. pc = "reply" /\ todo # <<>> /\ Write(Head(todo).w, Head(todo).words)
      BY <1>8 DEF WritePiece
    <2>2. todo \in Seq(Pieces) /\ \A i \in 1 .. Len(todo) : todo[i].w \in DOMAIN writers
      BY <2>1 DEF ExchangeTypes
    <2>3. Head(todo) = todo[1] /\ 1 \in 1 .. Len(todo) /\ todo[1] \in Pieces
      BY <2>1, <2>2
    <2>4. Head(todo).w \in DOMAIN writers /\ Head(todo).words \in Seq(Data)
      BY <2>2, <2>3 DEF Pieces
    <2> QED
      BY <1>2, <2>1, <2>4
  <1> QED
    BY <1>3, <1>4, <1>5, <1>6, <1>7, <1>8 DEF ExchangeNext

(* Whatever the request, its handler writes only into the slices the guest made
   writable for it, truncated chains and overlong data included. *)
THEOREM RepliesStayInside == ExchangeSpec => []NoStrayWrite
  <1>1. ExchangeInit => ExchangeTypes /\ RoomInv /\ InsideInv /\ NoStrayWrite
    BY ExchangeStarts, InsideStarts
  <1>2. ExchangeTypes /\ RoomInv /\ InsideInv /\ NoStrayWrite /\ [ExchangeNext]_xvars
          => (ExchangeTypes /\ RoomInv /\ InsideInv /\ NoStrayWrite)'
    BY ExchangeSteps, InsideSteps
  <1> QED
    BY <1>1, <1>2, PTL DEF ExchangeSpec

-----------------------------------------------------------------------------
(* What do_write gets.  The reader is where its count says, and the count    *)
(* follows from what is still to be read.                                   *)

ReaderInv ==
    /\ PlacedIn(reader, chain.readable)
    /\ \E S : taken \in Seq(S)
    /\ pc = "header" => reader.bytes_consumed = 0
    /\ pc = "args" => reader.bytes_consumed + Asked(todo) = SizeInHeader + Asked(Reads(request.op))

LEMMA ReadMoves ==
    ASSUME ExchangeTypes, ReaderInv, NEW n \in Nat, Read(n)
    PROVE  /\ PlacedIn(reader', chain.readable) /\ \E S : taken' \in Seq(S)
           /\ reader'.bytes_consumed = reader.bytes_consumed + result'
           /\ reader.bytes_consumed \in Nat
  <1> DEFINE old == reader.buffers
             bufs == Picked(old, n)
             copy == CopyLens(bufs, n)
             moved == Sum(copy)
  <1>1. reader \in Consumers /\ old \in Seq(Slices) /\ reader.bytes_consumed \in Nat /\ Total(old) \in Nat
    BY TotalFacts DEF ExchangeTypes, Consumers
  <1>2. moved = Least(n, Total(old)) /\ (bufs = <<>> => n = 0 \/ Total(old) = 0) /\ bufs \in Seq(Slices)
    BY <1>1, CopyMoves, PickedFacts
  <1>3. /\ result' = moved /\ reader' = Consumed(reader, bufs, moved)
        /\ taken' = taken \o Loaded(bufs, copy)
    BY DEF Read, Deliver
  <1>4. Fits(copy, bufs)
    BY <1>2, CopyFits
  <1>5. \E S : taken' \in Seq(S)
    <2> DEFINE parts == [i \in DOMAIN bufs |-> Subslice(bufs[i], copy[i])]
               T == {mem[Cells(parts)[p]] : p \in 1 .. Total(parts)}
    <2>1. parts \in Seq(Slices)
      <3> HIDE DEF bufs, copy
      <3>1. DOMAIN bufs = 1 .. Len(bufs) /\ Len(bufs) \in Nat
        BY <1>2
      <3>2. ASSUME NEW i \in 1 .. Len(bufs) PROVE Subslice(bufs[i], copy[i]) \in Slices
        <4>1. copy[i] \in 0 .. bufs[i].len /\ bufs[i] \in Slices
          BY <1>2, <1>4, SliceAt DEF Fits
        <4> QED
          BY <4>1, SliceFacts
      <3>3. parts \in [1 .. Len(bufs) -> Slices]
        BY <3>1, <3>2
      <3> QED
        BY <3>1, <3>3
    <2>2. Loaded(bufs, copy) = Contents(parts)
      BY DEF Loaded
    <2> HIDE DEF parts, bufs, copy
    <2>3. Contents(parts) \in Seq(T)
      BY <2>1, ContentsFacts
    <2>4. PICK S : taken \in Seq(S)
      BY DEF ReaderInv
    <2> HIDE DEF T
    <2>5. taken \in Seq(S \cup T) /\ Contents(parts) \in Seq(S \cup T)
      BY <2>3, <2>4
    <2>6. taken \o Contents(parts) \in Seq(S \cup T)
      BY <2>5, ConcatProperties
    <2> QED
      BY <1>3, <2>2, <2>6
  <1> HIDE DEF moved, bufs, copy, old
  <1>6. moved \in Nat /\ moved <= Total(reader.buffers) /\ (bufs = <<>> => moved = 0)
    BY <1>1, <1>2 DEF Least, old
  <1>7. PlacedIn(reader, chain.readable)
    BY DEF ReaderInv
  <1>8. /\ PlacedIn(Consumed(reader, bufs, moved), chain.readable)
        /\ Consumed(reader, bufs, moved).bytes_consumed = reader.bytes_consumed + moved
    BY <1>1, <1>6, <1>7, ConsumedPlaced
  <1> QED
    BY <1>1, <1>3, <1>5, <1>8

(* The words behind what was read are the end of the request. *)
LEMMA PayloadTaken ==
    ASSUME ExchangeTypes, ReaderInv, TakePayload
    PROVE  /\ PlacedIn(reader', chain.readable) /\ \E S : taken' \in Seq(S)
           /\ Total(chain.readable) = request.len =>
                handed' = SubSeq(Contents(chain.readable), SizeInHeader + 6, SizeInHeader + 5 + request.size)
  <1> DEFINE old == reader.buffers
             size == request.size
             bufs == Picked(old, size)
             all == chain.readable
             words == Contents(bufs)
  <1>1. /\ pc = "args" /\ todo = <<>> /\ request.op = "write" /\ ReadToAt(size)
        /\ handed' = SubSeq(taken', Len(taken) + 1, Len(taken'))
    BY DEF TakePayload
  <1>2. /\ reader \in Consumers /\ old \in Seq(Slices) /\ reader.bytes_consumed \in Nat /\ Total(old) \in Nat
        /\ size \in Nat /\ all \in Seq(Slices)
    BY TotalFacts DEF ExchangeTypes, Consumers
  <1>3. /\ bufs \in Seq(Slices) /\ Total(bufs) \in Nat /\ Total(bufs) <= Total(old)
        /\ Least(size, Total(bufs)) = Least(size, Total(old))
    BY <1>2, PickedFacts
  <1>4. \A p \in 1 .. Total(bufs) : Cells(bufs)[p] = Cells(old)[p]
    BY <1>2, PickedCells
  <1>5. reader' = Consumed(reader, bufs, Total(bufs)) /\ taken' = taken \o Loaded(bufs, Lens(bufs))
    BY <1>1 DEF ReadToAt, Deliver, Total
  <1> HIDE DEF bufs, size
  <1>6. PlacedIn(reader', all)
    <2>1. bufs = <<>> => Total(bufs) = 0
      BY TotalFacts
    <2>2. PlacedIn(reader, all)
      BY DEF ReaderInv
    <2> QED
      BY <1>2, <1>3, <1>5, <2>1, <2>2, ConsumedPlaced
  <1> DEFINE T == {mem[Cells(bufs)[p]] : p \in 1 .. Total(bufs)}
  <1>7. /\ words \in Seq(T) /\ Len(words) = Total(bufs)
        /\ \A p \in 1 .. Total(bufs) : words[p] = mem[Cells(bufs)[p]]
    BY <1>3, ContentsFacts
  <1>8. taken' = taken \o words
    BY <1>3, <1>5, LoadedWhole
  <1>9. PICK S : taken \in Seq(S)
    BY DEF ReaderInv
  <1> HIDE DEF words, T
  <1>10. taken \in Seq(S \cup T) /\ words \in Seq(S \cup T)
    BY <1>7, <1>9
  <1>11. taken' \in Seq(S \cup T)
    BY <1>8, <1>10, ConcatProperties
  <1>12. handed' = words
    <2> DEFINE U == S \cup T
               m == Len(taken)
               joined == taken \o words
    <2>1. taken \in Seq(U) /\ words \in Seq(U) /\ m \in Nat /\ Len(words) \in Nat
      BY <1>10
    <2> HIDE DEF U
    <2>2. /\ joined \in Seq(U) /\ Len(joined) = m + Len(words)
          /\ \A i \in 1 .. m + Len(words) : joined[i] = IF i <= m THEN taken[i] ELSE words[i - m]
      BY <2>1, ConcatProperties
    <2> HIDE DEF joined
    <2>3. m + 1 \in 1 .. (Len(joined) + 1)
      BY <2>1, <2>2
    <2>4. /\ SubSeq(joined, m + 1, Len(joined)) \in Seq(U)
          /\ Len(SubSeq(joined, m + 1, Len(joined))) = Len(joined) - (m + 1) + 1
          /\ \A i \in 1 .. (Len(joined) - (m + 1) + 1) :
                SubSeq(joined, m + 1, Len(joined))[i] = joined[(m + 1) + i - 1]
      BY <2>2, <2>3, DropFacts
    <2>5. Len(joined) - (m + 1) + 1 = Len(words)
      BY <2>1, <2>2
    <2>6. ASSUME NEW i \in 1 .. Len(words) PROVE joined[(m + 1) + i - 1] = words[i]
      <3>1. (m + 1) + i - 1 \in 1 .. m + Len(words) /\ ~((m + 1) + i - 1 <= m) /\ ((m + 1) + i - 1) - m = i
        BY <2>1
      <3> QED
        BY <2>2, <3>1
    <2>7. SubSeq(joined, m + 1, Len(joined)) = words
      BY <2>1, <2>4, <2>5, <2>6, SeqEqual
    <2> QED
      BY <1>1, <1>8, <2>7 DEF joined
  <1>13. ASSUME Total(all) = request.len
         PROVE  words = SubSeq(Contents(all), SizeInHeader + 6, SizeInHeader + 5 + size)
    <2>1. Reads(request.op) = <<5>> /\ Asked(<<5>>) = 5 /\ Asked(todo) = 0
      BY <1>1 DEF Reads, SizeWriteIn, Asked
    <2>2. reader.bytes_consumed = 10
      <3>1. reader.bytes_consumed + Asked(todo) = SizeInHeader + Asked(Reads(request.op))
        BY <1>1 DEF ReaderInv
      <3> QED
        BY <1>2, <2>1, <3>1 DEF SizeInHeader
    <2>3. request.len = 10 + size
      <3>1. Kernel("write", size)[1] = 5 + size
        BY DEF Kernel
      <3> QED
        BY <1>1, <1>2, <3>1 DEF ExchangeTypes, SizeInHeader, size
    <2>4. Total(old) = size /\ \A p \in 1 .. size : Cells(old)[p] = Cells(all)[10 + p]
      <3>1. Total(old) + 10 = 10 + size
        BY <1>13, <2>2, <2>3 DEF ReaderInv, PlacedIn
      <3>2. Total(old) = size
        BY <1>2, <3>1
      <3> QED
        BY <2>2, <3>2 DEF ReaderInv, PlacedIn
    <2>5. Total(bufs) = size
      BY <1>2, <1>3, <2>4 DEF Least
    <2> DEFINE V == {mem[Cells(all)[p]] : p \in 1 .. Total(all)}
               input == Contents(all)
               part == SubSeq(input, 11, 10 + size)
    <2>6. /\ input \in Seq(V) /\ Len(input) = 10 + size
          /\ \A p \in 1 .. (10 + size) : input[p] = mem[Cells(all)[p]]
      BY <1>2, <1>13, <2>3, ContentsFacts
    <2> HIDE DEF input, V
    <2>7. /\ part \in Seq(V) /\ Len(part) = size /\ \A i \in 1 .. size : part[i] = input[10 + i]
      <3>1. 11 \in 1 .. (Len(input) + 1)
        BY <1>2, <2>6
      <3>2. /\ SubSeq(input, 11, Len(input)) \in Seq(V)
            /\ Len(SubSeq(input, 11, Len(input))) = Len(input) - 11 + 1
            /\ \A i \in 1 .. (Len(input) - 11 + 1) :
                 SubSeq(input, 11, Len(input))[i] = input[11 + i - 1]
        BY <2>6, <3>1, DropFacts
      <3>3. Len(input) - 11 + 1 = size /\ \A i \in 1 .. size : 11 + i - 1 = 10 + i
        BY <1>2, <2>6
      <3> QED
        BY <2>6, <3>2, <3>3
    <2> HIDE DEF part
    <2>8. ASSUME NEW i \in 1 .. size PROVE words[i] = part[i]
      <3>1. 10 + i \in 1 .. (10 + size)
        BY <1>2
      <3> QED
        BY <1>4, <1>7, <2>4, <2>5, <2>6, <2>7, <3>1
    <2>9. words = part
      <3>1. Len(words) = size
        BY <1>7, <2>5
      <3> QED
        BY <1>7, <2>7, <2>8, <3>1, SeqEqual
    <2>10. SizeInHeader + 6 = 11 /\ SizeInHeader + 5 + size = 10 + size
      BY <1>2 DEF SizeInHeader
    <2> QED
      BY <2>9, <2>10 DEF part, input
  <1> QED
    BY <1>6, <1>11, <1>12, <1>13 DEF size

LEMMA PayloadSteps ==
    ASSUME ExchangeTypes, ReaderInv, PayloadExact, [ExchangeNext]_xvars
    PROVE  ReaderInv' /\ PayloadExact'
  <1>1. ASSUME chain' = chain, reader' = reader, taken' = taken,
               pc' \notin {"header", "args", "stored"}
        PROVE  ReaderInv' /\ PayloadExact'
    BY <1>1 DEF ReaderInv, PayloadExact
  <1>2. CASE UNCHANGED xvars
    <2>1. /\ chain' = chain /\ mem' = mem /\ reader' = reader /\ taken' = taken
          /\ request' = request /\ pc' = pc /\ todo' = todo /\ handed' = handed
      BY <1>2 DEF xvars, dvars, evars
    <2>2. Reads(request.op)' = Reads(request.op)
      BY <2>1 DEF Reads, NameLen
    <2>3. ReaderInv'
      BY <2>1, <2>2 DEF ReaderInv
    <2>4. Contents(chain.readable)' = Contents(chain.readable)
      BY <2>1 DEF Contents
    <2>5. PayloadExact'
      BY <2>1, <2>4 DEF PayloadExact
    <2> QED
      BY <2>3, <2>5
  <1>3. CASE ReadHeader
    <2>1. pc = "header" /\ Read(SizeInHeader) /\ request' = request /\ chain' = chain
      BY <1>3 DEF ReadHeader, Read, Deliver
    <2>2. /\ PlacedIn(reader', chain.readable) /\ (\E S : taken' \in Seq(S))
          /\ reader'.bytes_consumed = reader.bytes_consumed + result'
      BY <2>1, ReadMoves DEF SizeInHeader
    <2>3. pc' \in {"dead", "reply", "args"}
      BY <1>3 DEF ReadHeader, Dies, Goto
    <2>4. ASSUME pc' = "args"
          PROVE  reader'.bytes_consumed + Asked(todo') = SizeInHeader + Asked(Reads(request.op))
      <3>1. ~(result' < SizeInHeader) /\ todo' = Reads(request.op)
        BY <1>3, <2>4 DEF ReadHeader, Dies, Goto
      <3>2. result' = Least(SizeInHeader, Left) /\ Left \in Nat
        BY <2>1, ReadFacts DEF SizeInHeader
      <3>3. result' = SizeInHeader
        BY <3>1, <3>2 DEF Least, SizeInHeader
      <3>4. reader.bytes_consumed = 0
        BY <2>1 DEF ReaderInv
      <3> QED
        BY <2>2, <3>1, <3>3, <3>4 DEF SizeInHeader
    <2>5. Reads(request.op)' = Reads(request.op)
      BY <2>1 DEF Reads, NameLen
    <2>6. ReaderInv'
      BY <2>1, <2>2, <2>3, <2>4, <2>5 DEF ReaderInv
    <2>7. PayloadExact'
      BY <2>3 DEF PayloadExact
    <2> QED
      BY <2>6, <2>7
  <1>4. CASE ReadArgument
    <2> DEFINE n == Head(todo)
    <2>1. pc = "args" /\ todo # <<>> /\ Read(n) /\ request' = request /\ chain' = chain
      BY <1>4 DEF ReadArgument, Read, Deliver
    <2>2. todo \in Seq(Nat) /\ Len(todo) <= 2
      BY <2>1 DEF ExchangeTypes
    <2>3. n \in Nat /\ Asked(todo) = n + Asked(Tail(todo)) /\ Asked(Tail(todo)) \in Nat
      BY <2>1, <2>2, AskedTail
    <2>4. /\ PlacedIn(reader', chain.readable) /\ (\E S : taken' \in Seq(S))
          /\ reader'.bytes_consumed = reader.bytes_consumed + result' /\ reader.bytes_consumed \in Nat
      BY <2>1, <2>3, ReadMoves
    <2>5. pc' \in {"dead", "args"}
      BY <1>4 DEF ReadArgument, Dies, Goto
    <2>6. ASSUME pc' = "args"
          PROVE  reader'.bytes_consumed + Asked(todo') = SizeInHeader + Asked(Reads(request.op))
      <3>1. ~(result' < n) /\ todo' = Tail(todo)
        BY <1>4, <2>6 DEF ReadArgument, Dies, Goto
      <3>2. result' = Least(n, Left) /\ Left \in Nat
        BY <2>1, <2>3, ReadFacts
      <3> HIDE DEF n
      <3>3. result' = n
        BY <2>3, <3>1, <3>2 DEF Least
      <3>4. reader.bytes_consumed + Asked(todo) = SizeInHeader + Asked(Reads(request.op))
        BY <2>1 DEF ReaderInv
      <3>5. (reader.bytes_consumed + n) + Asked(Tail(todo)) = reader.bytes_consumed + (n + Asked(Tail(todo)))
        BY <2>3, <2>4
      <3> QED
        BY <2>3, <2>4, <3>1, <3>3, <3>4, <3>5
    <2>7. Reads(request.op)' = Reads(request.op)
      BY <2>1 DEF Reads, NameLen
    <2>8. ReaderInv'
      BY <2>1, <2>4, <2>5, <2>6, <2>7 DEF ReaderInv
    <2>9. PayloadExact'
      BY <2>5 DEF PayloadExact
    <2> QED
      BY <2>8, <2>9
  <1>5. CASE TakePayload
    <2>1. /\ chain' = chain /\ mem' = mem /\ request' = request /\ pc' = "stored"
      BY <1>5 DEF TakePayload, ReadToAt, Deliver, Goto
    <2>2. /\ PlacedIn(reader', chain.readable) /\ \E S : taken' \in Seq(S)
          /\ Total(chain.readable) = request.len =>
                handed' = SubSeq(Contents(chain.readable), SizeInHeader + 6, SizeInHeader + 5 + request.size)
      BY <1>5, PayloadTaken
    <2>3. Contents(chain.readable)' = Contents(chain.readable)
      BY <2>1 DEF Contents
    <2>4. ReaderInv'
      BY <2>1, <2>2 DEF ReaderInv
    <2>5. PayloadExact'
      BY <2>1, <2>2, <2>3 DEF PayloadExact
    <2> QED
      BY <2>4, <2>5
  <1>6. CASE Over
    BY <1>2, <1>6 DEF Over
  <1>7. CASE Refused \/ Silent \/ Accepted \/ SendListing \/ Return
    <2>1. chain' = chain /\ reader' = reader /\ taken' = taken
      BY <1>7 DEF Refused, Silent, Accepted, SendListing, Return, Step, dvars
    <2>2. pc' \in {"reply", "done"}
      BY <1>7 DEF Refused, Silent, Accepted, SendListing, Return, Step, Goto
    <2> QED
      BY <1>1, <2>1, <2>2
  <1>8. CASE SplitHeader
    <2>1. chain' = chain /\ reader' = reader /\ taken' = taken
      BY <1>8 DEF SplitHeader, SplitAt, dvars
    <2>2. pc' \in {"data", "list", "dead"}
      BY <1>8 DEF SplitHeader, Goto, Dies
    <2> QED
      BY <1>1, <2>1, <2>2
  <1>9. CASE SendData \/ WritePiece
    <2>1. chain' = chain /\ reader' = reader /\ taken' = taken
      BY <1>9 DEF SendData, WritePiece, Write, WriteFromAt, Place
    <2>2. pc' \in {"reply", "dead"}
      BY <1>9 DEF SendData, WritePiece, Goto, Dies
    <2> QED
      BY <1>1, <2>1, <2>2
  <1> QED
    BY <1>2, <1>3, <1>4, <1>5, <1>6, <1>7, <1>8, <1>9 DEF ExchangeNext

LEMMA PayloadStarts == ExchangeInit => ReaderInv /\ PayloadExact
  <1> SUFFICES ASSUME ExchangeInit PROVE ReaderInv /\ PayloadExact
    OBVIOUS
  <1>1. pc = "header" /\ todo = <<>>
    BY DEF ExchangeInit
  <1>2. chain.readable \in Seq(Slices)
    BY ExchangeStarts DEF ExchangeTypes
  <1>3. reader = Consumer(chain.readable) /\ taken = <<>>
    BY DEF ExchangeInit, ChainOf
  <1>4. PlacedIn(reader, chain.readable) /\ reader.bytes_consumed = 0
    BY <1>2, <1>3, StartsPlaced DEF Consumer
  <1>5. \E S : taken \in Seq(S)
    BY <1>3
  <1> QED
    BY <1>1, <1>4, <1>5 DEF ReaderInv, PayloadExact

(* What do_write is given of a request that is all there is its payload, all of it
   and nothing else, for every size and every slicing, although consume hands out
   whole slices and the length is the one the request states. *)
THEOREM PayloadIsExact == ExchangeSpec => []PayloadExact
  <1>1. ExchangeInit => ExchangeTypes /\ RoomInv /\ ReaderInv /\ PayloadExact
    BY ExchangeStarts, PayloadStarts
  <1>2. ExchangeTypes /\ RoomInv /\ ReaderInv /\ PayloadExact /\ [ExchangeNext]_xvars
          => (ExchangeTypes /\ RoomInv /\ ReaderInv /\ PayloadExact)'
    BY ExchangeSteps, PayloadSteps
  <1> QED
    BY <1>1, <1>2, PTL DEF ExchangeSpec

-----------------------------------------------------------------------------
(* Where the words of a reply end up.  A writer is where its count says, in   *)
(* the whole area or, once the header is split off, in its part of it.        *)

SplitOff == "data_writer" \in DOMAIN writers
PartStart(w) == IF w = "w" THEN 0 ELSE SizeOutHeader
Part(w) ==
    IF w # "w" THEN Advance(chain.writable, SizeOutHeader)
    ELSE IF SplitOff THEN Kept(chain.writable, SizeOutHeader) ELSE chain.writable
\* The last position a writer wrote.
Reached(w) == PartStart(w) + writers[w].bytes_consumed

WriterInv ==
    /\ Laidout(chain.writable) /\ NoEmpty(chain.writable)
    /\ Total(chain.writable) <= Kernel(request.op, request.size)[2]
    /\ SplitOff => SizeOutHeader <= Total(chain.writable)
    /\ \A w \in DOMAIN writers : PlacedIn(writers[w], Part(w))
    /\ pc \in {"header", "args", "stored", "data", "list"} =>
         \A w \in DOMAIN writers : writers[w] = Consumer(Part(w))
    /\ pc = "args" => request.op \in Opcodes
    /\ request.op = "read" => request.size \in Sizes

LEMMA PartFacts ==
    ASSUME ExchangeTypes, WriterInv, NEW w \in DOMAIN writers
    PROVE  /\ w \in {"w", "data_writer"} /\ writers[w] \in Consumers
           /\ Part(w) \in Seq(Slices) /\ Total(Part(w)) \in Nat /\ PartStart(w) \in Nat
           /\ Total(chain.writable) \in Nat
           /\ PartStart(w) + Total(Part(w)) <= Total(chain.writable)
           /\ PartOf(Part(w), chain.writable, PartStart(w))
           /\ SplitOff /\ w = "w" => Total(Part(w)) = SizeOutHeader
           /\ w = "data_writer" => Total(Part(w)) = Total(chain.writable) - SizeOutHeader
  <1> DEFINE all == chain.writable
             front == Kept(all, SizeOutHeader)
             back == Advance(all, SizeOutHeader)
  <1>1. /\ w \in {"w", "data_writer"} /\ writers[w] \in Consumers /\ all \in Seq(Slices)
        /\ w = "data_writer" => SplitOff
    BY DEF ExchangeTypes, SplitOff
  <1>2. Total(all) \in Nat /\ SizeOutHeader \in Nat
    BY <1>1, TotalFacts DEF SizeOutHeader
  <1>3. CASE ~SplitOff
    <2>1. w = "w" /\ Part(w) = all /\ PartStart(w) = 0
      BY <1>1, <1>3 DEF Part, PartStart
    <2>2. PartOf(all, all, 0)
      BY <1>2 DEF PartOf
    <2> QED
      BY <1>1, <1>2, <1>3, <2>1, <2>2
  <1>4. CASE SplitOff
    <2>1. SizeOutHeader <= Total(all)
      BY <1>4 DEF WriterInv
    <2>2. /\ front \in Seq(Slices) /\ back \in Seq(Slices)
          /\ Total(front) = SizeOutHeader /\ Total(back) = Total(all) - SizeOutHeader
      BY <1>1, <1>2, <2>1, SplitTyped, AdvanceTotal
    <2>3. /\ \A p \in 1 .. SizeOutHeader : Cells(front)[p] = Cells(all)[p]
          /\ \A p \in 1 .. (Total(all) - SizeOutHeader) : Cells(back)[p] = Cells(all)[SizeOutHeader + p]
      BY <1>1, <1>2, <2>1, SplitCells
    <2> HIDE DEF all, front, back
    <2>4. CASE w = "w"
      <3>1. Part(w) = front /\ PartStart(w) = 0
        BY <1>4, <2>4 DEF Part, PartStart, front, all
      <3>2. PartOf(front, all, 0)
        <4>1. \A p \in 1 .. SizeOutHeader : 0 + p = p /\ p \in 1 .. Total(all)
          BY <1>2, <2>1
        <4> QED
          BY <2>2, <2>3, <4>1 DEF PartOf
      <3> QED
        BY <1>1, <1>2, <2>1, <2>2, <2>4, <3>1, <3>2 DEF all
    <2>5. CASE w = "data_writer"
      <3>1. Part(w) = back /\ PartStart(w) = SizeOutHeader
        BY <2>5 DEF Part, PartStart, back, all
      <3>2. PartOf(back, all, SizeOutHeader)
        <4>1. \A p \in 1 .. (Total(all) - SizeOutHeader) : SizeOutHeader + p \in 1 .. Total(all)
          BY <1>2, <2>1
        <4> QED
          BY <2>2, <2>3, <4>1 DEF PartOf
      <3>3. Total(all) - SizeOutHeader \in Nat
        BY <1>2, <2>1
      <3>4. SizeOutHeader + (Total(all) - SizeOutHeader) <= Total(all)
        BY <1>2
      <3> QED
        BY <1>1, <1>2, <2>1, <2>2, <2>5, <3>1, <3>2, <3>3, <3>4 DEF all
    <2> QED
      BY <1>1, <2>4, <2>5
  <1> QED
    BY <1>3, <1>4

\* What a write through w leaves: the data behind what w wrote before.
Lands(w, data) ==
    /\ result' \in Nat /\ Reached(w) \in Nat /\ chain' = chain
    /\ result' = Least(Len(data), Total(writers[w].buffers))
    /\ PartStart(w) + Total(Part(w)) = Reached(w) + Total(writers[w].buffers)
    /\ Reached(w) + result' <= Total(chain.writable)
    /\ DOMAIN writers' = DOMAIN writers /\ \A v \in DOMAIN writers \ {w} : writers'[v] = writers[v]
    /\ writers'[w].bytes_consumed = writers[w].bytes_consumed + result'
    /\ PlacedIn(writers'[w], Part(w)) /\ Laidout(chain.writable)'
    /\ \A k \in 1 .. Total(chain.writable) :
         Area'[k] = Laidover(data, Reached(w), result', k, Area[k])

LEMMA WriteLands ==
    ASSUME ExchangeTypes, WriterInv, NEW w \in DOMAIN writers, NEW data \in Seq(Data), Write(w, data)
    PROVE  Lands(w, data)
  <1> DEFINE all == chain.writable
             c == writers[w]
             n == Len(data)
             bufs == Picked(c.buffers, n)
             copy == CopyLens(bufs, n)
             moved == Sum(copy)
             at == Reached(w)
  <1>1. /\ c \in Consumers /\ Part(w) \in Seq(Slices) /\ Total(Part(w)) \in Nat /\ PartStart(w) \in Nat
        /\ Total(all) \in Nat /\ PartStart(w) + Total(Part(w)) <= Total(all)
        /\ PartOf(Part(w), all, PartStart(w))
    BY PartFacts
  <1>2. /\ all \in Seq(Slices) /\ Laidout(all) /\ PlacedIn(c, Part(w)) /\ n \in Nat
        /\ c.buffers \in Seq(Slices) /\ c.bytes_consumed \in Nat /\ Total(c.buffers) \in Nat
    <2>1. c.buffers \in Seq(Slices) /\ c.bytes_consumed \in Nat
      BY <1>1 DEF Consumers
    <2> QED
      BY <2>1, TotalFacts DEF ExchangeTypes, WriterInv
  <1>3. Fits(copy, bufs) /\ InOrder(copy, bufs)
    BY <1>2, PickedFacts, CopyFits, CopyInOrder
  <1>4. /\ mem' = Stored(bufs, copy, data) /\ writers' = [writers EXCEPT ![w] = Consumed(c, bufs, moved)]
        /\ result' = moved /\ chain' = chain
    BY DEF Write, Place
  <1>5. moved = Least(n, Total(c.buffers))
    BY <1>1, <1>2, CopyMoves
  <1> HIDE DEF copy
  <1>6. /\ moved \in Nat /\ moved <= Total(c.buffers) /\ PartStart(w) + c.bytes_consumed \in Nat
        /\ PlacedIn(Consumed(c, bufs, moved), Part(w))
        /\ Consumed(c, bufs, moved).bytes_consumed = c.bytes_consumed + moved
        /\ \A k \in 1 .. Total(all) :
             Stored(bufs, copy, data)[Cells(all)[k]] =
               Laidover(data, PartStart(w) + c.bytes_consumed, moved, k, mem[Cells(all)[k]])
    <2>1. Stands(c, Part(w), all, PartStart(w))
      BY <1>1, <1>2 DEF Stands
    <2>2. PartStart(w) + c.bytes_consumed \in Nat
      BY <1>1, <1>2
    <2> HIDE DEF c, all, n
    <2>3. /\ moved \in Nat /\ moved <= Total(c.buffers)
          /\ PlacedIn(Consumed(c, bufs, moved), Part(w))
          /\ Consumed(c, bufs, moved).bytes_consumed = c.bytes_consumed + moved
      BY <1>2, <1>3, <2>1, PlacedMoves
    <2> DEFINE from == PartStart(w) + c.bytes_consumed
    <2>4. Copies(copy, bufs, all, from)
      <3>1. Distinct(all)
        BY <1>2 DEF Laidout
      <3> QED
        BY <1>2, <1>3, <2>1, <3>1, PlacedMoves
    <2> HIDE DEF bufs, from
    <2>5. ASSUME NEW k \in 1 .. Total(all)
          PROVE  Stored(bufs, copy, data)[Cells(all)[k]] =
                   Laidover(data, from, Sum(copy), k, mem[Cells(all)[k]])
      <3>1. Cells(all)[k] \in DOMAIN mem
        BY <1>2 DEF Laidout
      <3> QED
        BY <2>4, <3>1, StoredAt
    <2> QED
      BY <2>2, <2>3, <2>5 DEF from
  <1>7. at = PartStart(w) + c.bytes_consumed
    BY DEF Reached
  <1>8. Total(c.buffers) + c.bytes_consumed = Total(Part(w))
    BY <1>2 DEF PlacedIn
  <1> HIDE DEF bufs, moved, at
  <1>9. /\ DOMAIN writers' = DOMAIN writers /\ writers'[w] = Consumed(c, bufs, moved)
        /\ \A v \in DOMAIN writers \ {w} : writers'[v] = writers[v]
    BY <1>4
  <1>10. ASSUME NEW k \in 1 .. Total(all)
         PROVE  Area'[k] = Laidover(data, at, moved, k, Area[k])
    <2>1. Area[k] = mem[Cells(all)[k]] /\ Area'[k] = mem'[Cells(all)[k]]
      BY <1>4 DEF Area, Contents, Cells
    <2> QED
      BY <1>4, <1>6, <1>7, <2>1
  <1>11. Laidout(all)'
    <2>1. DOMAIN mem' = DOMAIN mem
      BY <1>4 DEF Stored
    <2> QED
      BY <1>2, <1>4, <2>1 DEF Laidout
  <1> HIDE DEF c
  <1>12. /\ at \in Nat /\ PartStart(w) + Total(Part(w)) = at + Total(c.buffers)
         /\ at + moved <= Total(all)
    <2> DEFINE start == PartStart(w)
               part == Total(Part(w))
               left == Total(c.buffers)
               b == c.bytes_consumed
               area == Total(all)
    <2>1. start \in Nat /\ part \in Nat /\ area \in Nat /\ start + part <= area
      BY <1>1
    <2>2. left \in Nat /\ b \in Nat
      BY <1>2
    <2>3. moved \in Nat /\ moved <= left
      BY <1>6
    <2>4. left + b = part /\ at = start + b
      BY <1>7, <1>8
    <2> HIDE DEF start, part, left, b, area
    <2>5. at \in Nat /\ start + part = at + left /\ at + moved <= area
      BY <2>1, <2>2, <2>3, <2>4
    <2> QED
      BY <2>5 DEF start, part, left, area
  <1> QED
    BY <1>4, <1>5, <1>6, <1>7, <1>9, <1>10, <1>11, <1>12 DEF Lands, at, c, n

\* The slices of a chain are not empty, so write_from_at writes like write.
LEMMA WriteFromIsWrite ==
    ASSUME NEW w \in DOMAIN writers, NEW data \in Seq(Data), WriteFromAt(w, data),
           writers[w].buffers \in Seq(Slices), NoEmpty(writers[w].buffers)
    PROVE  Write(w, data)
  <1> DEFINE n == Len(data)
             bufs == Picked(writers[w].buffers, n)
  <1>1. n \in Nat
    OBVIOUS
  <1>2. bufs \in Seq(Slices) /\ NoEmpty(bufs)
    BY <1>1, PickedFacts, NoEmptyKept
  <1>3. Place(w, bufs, VectoredLens(bufs, n), data)
    BY DEF WriteFromAt
  <1> HIDE DEF bufs, n
  <1>4. VectoredLens(bufs, n) = CopyLens(bufs, n)
    BY <1>1, <1>2, VectoredIsCopy
  <1>5. Place(w, bufs, CopyLens(bufs, n), data)
    BY <1>3, <1>4
  <1> QED
    BY <1>5 DEF Write, bufs, n

\* The word a reply has at a position.
WordAt(kind, len, k) ==
    IF k = 1 THEN <<kind, len>> ELSE IF k = 2 THEN <<"unique", 0>> ELSE <<"body", k - 2>>

\* Pieces for writer w that go on behind position from and end at position to.
Continues(pieces, w, from, to, kind, len) ==
    \E at \in [1 .. (Len(pieces) + 1) -> Nat] :
        /\ at[1] = from /\ at[Len(pieces) + 1] = to
        /\ \A i \in 1 .. Len(pieces) :
             /\ pieces[i].w = w /\ at[i + 1] = at[i] + Len(pieces[i].words)
             /\ \A j \in 1 .. Len(pieces[i].words) : pieces[i].words[j] = WordAt(kind, len, at[i] + j)

LEMMA ContinuesNone ==
    ASSUME NEW w, NEW from \in Nat, NEW to, NEW kind, NEW len
    PROVE  Continues(<<>>, w, from, to, kind, len) <=> from = to
  <1> DEFINE none == <<>>
             one == [i \in 1 .. 1 |-> from]
  <1>1. Len(none) = 0 /\ 1 .. (Len(none) + 1) = 1 .. 1 /\ 1 .. Len(none) = {}
    OBVIOUS
  <1>2. one \in [1 .. 1 -> Nat] /\ one[1] = from
    OBVIOUS
  <1> HIDE DEF none, one
  <1>3. Continues(none, w, from, to, kind, len) <=> from = to
    BY <1>1, <1>2 DEF Continues
  <1> QED
    BY <1>3 DEF none

LEMMA ContinuesTail ==
    ASSUME NEW pieces \in Seq(Pieces), pieces # <<>>, NEW w, NEW from, NEW to, NEW kind, NEW len,
           Continues(pieces, w, from, to, kind, len)
    PROVE  /\ Head(pieces).w = w /\ from \in Nat /\ to \in Nat
           /\ \A j \in 1 .. Len(Head(pieces).words) : Head(pieces).words[j] = WordAt(kind, len, from + j)
           /\ Continues(Tail(pieces), w, from + Len(Head(pieces).words), to, kind, len)
  <1> DEFINE n == Len(pieces)
             rest == Tail(pieces)
  <1>1. PICK at \in [1 .. (n + 1) -> Nat] :
        /\ at[1] = from /\ at[n + 1] = to
        /\ \A i \in 1 .. n :
             /\ pieces[i].w = w /\ at[i + 1] = at[i] + Len(pieces[i].words)
             /\ \A j \in 1 .. Len(pieces[i].words) : pieces[i].words[j] = WordAt(kind, len, at[i] + j)
    BY DEF Continues
  <1>2. /\ n \in Nat /\ n >= 1 /\ Head(pieces) = pieces[1]
        /\ rest \in Seq(Pieces) /\ Len(rest) = n - 1 /\ \A i \in 1 .. Len(rest) : rest[i] = pieces[i + 1]
    <2>1. n \in Nat /\ n # 0
      OBVIOUS
    <2>2. /\ Head(pieces) = pieces[1] /\ rest \in Seq(Pieces) /\ Len(rest) = n - 1
          /\ \A i \in 1 .. Len(rest) : rest[i] = pieces[i + 1]
      BY HeadTailProperties
    <2> QED
      BY <2>1, <2>2
  <1> HIDE DEF n, rest
  <1>3. 1 \in 1 .. n /\ 1 \in 1 .. (n + 1) /\ n + 1 \in 1 .. (n + 1) /\ 1 + 1 = 2
    BY <1>2
  <1>4. from \in Nat /\ to \in Nat
    BY <1>1, <1>3
  <1>5. /\ pieces[1].w = w /\ at[2] = from + Len(pieces[1].words)
        /\ \A j \in 1 .. Len(pieces[1].words) : pieces[1].words[j] = WordAt(kind, len, from + j)
    BY <1>1, <1>3
  <1> DEFINE next == [i \in 1 .. (Len(rest) + 1) |-> at[i + 1]]
  <1>6. \A i \in 1 .. (Len(rest) + 1) : i + 1 \in 1 .. (n + 1)
    BY <1>2
  <1>7. next \in [1 .. (Len(rest) + 1) -> Nat]
    BY <1>6
  <1>8. next[1] = from + Len(pieces[1].words) /\ next[Len(rest) + 1] = to
    <2>1. 1 \in 1 .. (Len(rest) + 1) /\ Len(rest) + 1 \in 1 .. (Len(rest) + 1) /\ (Len(rest) + 1) + 1 = n + 1
      BY <1>2
    <2> QED
      BY <1>1, <1>3, <1>5, <2>1
  <1>9. ASSUME NEW i \in 1 .. Len(rest)
        PROVE  /\ rest[i].w = w /\ next[i + 1] = next[i] + Len(rest[i].words)
               /\ \A j \in 1 .. Len(rest[i].words) : rest[i].words[j] = WordAt(kind, len, next[i] + j)
    <2>1. /\ i + 1 \in 1 .. n /\ rest[i] = pieces[i + 1] /\ i \in 1 .. (Len(rest) + 1)
          /\ i + 1 \in 1 .. (Len(rest) + 1)
      BY <1>2
    <2>2. next[i] = at[i + 1] /\ next[i + 1] = at[(i + 1) + 1]
      BY <2>1
    <2> HIDE DEF next
    <2> QED
      BY <1>1, <2>1, <2>2
  <1> HIDE DEF next
  <1>10. Continues(rest, w, from + Len(pieces[1].words), to, kind, len)
    BY <1>7, <1>8, <1>9 DEF Continues
  <1> QED
    BY <1>2, <1>4, <1>5, <1>10 DEF rest

LEMMA HeaderWords ==
    ASSUME NEW kind, NEW len
    PROVE  /\ Len(Header(kind, len)) = 2
           /\ \A j \in 1 .. 2 : Header(kind, len)[j] = WordAt(kind, len, 0 + j)
  <1> DEFINE h == Header(kind, len)
  <1>1. Len(h) = 2 /\ h[1] = <<kind, len>> /\ h[2] = <<"unique", 0>>
    BY DEF Header
  <1> HIDE DEF h
  <1>2. WordAt(kind, len, 1) = h[1] /\ WordAt(kind, len, 2) = h[2]
    BY <1>1 DEF WordAt
  <1>3. \A j \in 1 .. 2 : j = 1 \/ j = 2
    OBVIOUS
  <1>4. 0 + 1 = 1 /\ 0 + 2 = 2
    OBVIOUS
  <1> QED
    BY <1>1, <1>2, <1>3, <1>4 DEF h

LEMMA BodyWords ==
    ASSUME NEW from \in Nat, NEW n \in Nat, NEW kind, NEW len, NEW j \in 1 .. n
    PROVE  Body(from, n)[j] = WordAt(kind, len, (2 + from) + j)
  <1>1. Body(from, n)[j] = <<"body", from + j>>
    BY DEF Body
  <1>2. (2 + from) + j # 1 /\ (2 + from) + j # 2 /\ ((2 + from) + j) - 2 = from + j
    OBVIOUS
  <1> QED
    BY <1>1, <1>2 DEF WordAt

LEMMA ErrorContinues == Continues(ReplyError, "w", 0, 2, "error", 2)
  <1> DEFINE h == Header("error", 2)
             at == [i \in 1 .. 2 |-> IF i = 1 THEN 0 ELSE 2]
  <1>1. Len(h) = 2 /\ \A j \in 1 .. 2 : h[j] = WordAt("error", 2, 0 + j)
    BY HeaderWords
  <1>2. ReplyError = <<Piece("w", h)>>
    BY DEF ReplyError, SizeOutHeader
  <1>3. Piece("w", h).w = "w" /\ Piece("w", h).words = h
    BY DEF Piece
  <1>4. /\ at \in [1 .. 2 -> Nat] /\ at[1] = 0 /\ at[2] = 2
    OBVIOUS
  <1> HIDE DEF h, at
  <1> DEFINE pieces == ReplyError
  <1>5. Len(pieces) = 1 /\ pieces[1].w = "w" /\ pieces[1].words = h
    BY <1>2, <1>3
  <1> HIDE DEF pieces
  <1>6. /\ 1 .. (Len(pieces) + 1) = 1 .. 2 /\ Len(pieces) + 1 = 2 /\ 1 + 1 = 2
        /\ \A i \in 1 .. Len(pieces) : i = 1
    BY <1>5
  <1>7. Len(pieces[1].words) = 2 /\ at[2] = at[1] + Len(pieces[1].words)
    BY <1>1, <1>4, <1>5
  <1>8. \A i \in 1 .. Len(pieces) :
             /\ pieces[i].w = "w" /\ at[i + 1] = at[i] + Len(pieces[i].words)
             /\ \A j \in 1 .. Len(pieces[i].words) : pieces[i].words[j] = WordAt("error", 2, at[i] + j)
    BY <1>1, <1>4, <1>5, <1>6, <1>7
  <1>9. at \in [1 .. (Len(pieces) + 1) -> Nat] /\ at[1] = 0 /\ at[Len(pieces) + 1] = 2
    BY <1>4, <1>6
  <1>10. Continues(pieces, "w", 0, 2, "error", 2)
    BY <1>8, <1>9 DEF Continues
  <1> QED
    BY <1>10 DEF pieces

LEMMA OkContinues ==
    ASSUME NEW sizes \in Seq(Nat), Len(sizes) <= 2
    PROVE  /\ Sum(sizes) \in Nat
           /\ Continues(ReplyOk(sizes), "w", 0, 2 + Sum(sizes), "ok", 2 + Sum(sizes))
  <1> DEFINE len == 2 + Sum(sizes)
             h == Header("ok", len)
             rec(i) == Piece("w", Body(Sum(SubSeq(sizes, 1, i - 1)), sizes[i]))
             recs == [i \in DOMAIN sizes |-> rec(i)]
             m == Len(sizes)
             at == [i \in 1 .. (m + 2) |-> IF i = 1 THEN 0 ELSE 2 + Sum(First(sizes, i - 2))]
  <1>1. m \in Nat /\ DOMAIN sizes = 1 .. m /\ Sum(sizes) \in Nat
    BY WordsFinite
  <1>2. Len(h) = 2 /\ \A j \in 1 .. 2 : h[j] = WordAt("ok", len, 0 + j)
    BY HeaderWords
  <1>3. ReplyOk(sizes) = <<Piece("w", h)>> \o recs
    BY DEF ReplyOk, SizeOutHeader
  <1>4. Piece("w", h) \in Pieces /\ Piece("w", h).w = "w" /\ Piece("w", h).words = h
    <2>1. len \in Nat
      BY <1>1
    <2> QED
      BY <2>1, HeaderFacts DEF Piece
  <1>5. ASSUME NEW i \in 0 .. m PROVE Sum(First(sizes, i)) \in Nat
    BY FirstFacts, WordsFinite
  <1>6. ASSUME NEW i \in 1 .. m
        PROVE  /\ rec(i) \in Pieces /\ rec(i).w = "w" /\ Len(rec(i).words) = sizes[i]
               /\ \A j \in 1 .. sizes[i] :
                    rec(i).words[j] = WordAt("ok", len, (2 + Sum(First(sizes, i - 1))) + j)
    <2> DEFINE from == Sum(First(sizes, i - 1))
    <2>1. i - 1 \in 0 .. m /\ sizes[i] \in Nat
      BY <1>1
    <2>2. from \in Nat
      BY <1>5, <2>1
    <2>3. rec(i) = Piece("w", Body(from, sizes[i]))
      BY DEF First
    <2> HIDE DEF from, rec, len
    <2>4. rec(i) \in Pieces /\ rec(i).w = "w" /\ rec(i).words = Body(from, sizes[i])
      <3> DEFINE b == Body(from, sizes[i])
      <3>1. Piece("w", b) \in Pieces
        BY <2>1, <2>2, BodyFacts
      <3> HIDE DEF b
      <3>2. Piece("w", b).w = "w" /\ Piece("w", b).words = b
        BY DEF Piece
      <3> QED
        BY <2>3, <3>1, <3>2 DEF b
    <2>5. Len(Body(from, sizes[i])) = sizes[i]
      BY <2>1, <2>2, BodyFacts
    <2>6. \A j \in 1 .. sizes[i] : Body(from, sizes[i])[j] = WordAt("ok", len, (2 + from) + j)
      BY <2>1, <2>2, BodyWords
    <2> QED
      BY <2>4, <2>5, <2>6 DEF from
  <1> HIDE DEF rec, h, len
  <1>7. recs \in [1 .. m -> Pieces]
    BY <1>1, <1>6
  <1>8. recs \in Seq(Pieces) /\ Len(recs) = m /\ \A i \in 1 .. m : recs[i] = rec(i)
    BY <1>1, <1>7
  <1> DEFINE pieces == ReplyOk(sizes)
  <1>9. /\ pieces \in Seq(Pieces) /\ Len(pieces) = 1 + m /\ pieces[1] = Piece("w", h)
        /\ \A i \in 1 .. m : pieces[i + 1] = recs[i]
    <2> HIDE DEF recs
    <2> QED
      BY <1>1, <1>3, <1>4, <1>8
  <1> HIDE DEF recs, pieces
  <1>10. \A i \in 1 .. (m + 1) : at[i + 1] = 2 + Sum(First(sizes, i - 1)) /\ i - 1 \in 0 .. m
    <2>1. \A i \in 1 .. (m + 1) : i + 1 \in 1 .. (m + 2) /\ i + 1 # 1 /\ (i + 1) - 2 = i - 1 /\ i - 1 \in 0 .. m
      BY <1>1
    <2> QED
      BY <2>1
  <1>11. at[1] = 0
    BY <1>1
  <1>12. at \in [1 .. (m + 2) -> Nat]
    <2>1. ASSUME NEW i \in 1 .. (m + 2) PROVE (IF i = 1 THEN 0 ELSE 2 + Sum(First(sizes, i - 2))) \in Nat
      <3>1. CASE i = 1
        BY <3>1
      <3>2. CASE i # 1
        <4>1. i - 2 \in 0 .. m
          BY <1>1, <3>2
        <4> QED
          BY <1>5, <3>2, <4>1
      <3> QED
        BY <3>1, <3>2
    <2> QED
      BY <2>1
  <1>13. First(sizes, m) = sizes /\ Sum(First(sizes, 0)) = 0
    <2>1. First(sizes, m) = sizes
      BY SubSeqFull DEF First
    <2>2. First(sizes, 0) = <<>>
      BY DEF First
    <2> QED
      BY <2>1, <2>2, SumNone
  <1> HIDE DEF at
  <1>14. at[m + 2] = len /\ at[2] = 2
    <2>1. m + 1 \in 1 .. (m + 1) /\ (m + 1) + 1 = m + 2 /\ (m + 1) - 1 = m
      BY <1>1
    <2>2. 1 \in 1 .. (m + 1) /\ 1 + 1 = 2 /\ 1 - 1 = 0
      BY <1>1
    <2>3. at[m + 2] = 2 + Sum(sizes)
      BY <1>10, <1>13, <2>1
    <2>4. at[2] = 2 + 0
      BY <1>10, <1>13, <2>2
    <2> QED
      BY <2>3, <2>4 DEF len
  <1>15. ASSUME NEW i \in 1 .. (m + 1)
         PROVE  /\ pieces[i].w = "w" /\ at[i + 1] = at[i] + Len(pieces[i].words)
                /\ \A j \in 1 .. Len(pieces[i].words) : pieces[i].words[j] = WordAt("ok", len, at[i] + j)
    <2>1. CASE i = 1
      <3>1. pieces[i].w = "w" /\ pieces[i].words = h /\ at[i] = 0 /\ at[i + 1] = 2
        BY <1>4, <1>9, <1>11, <1>14, <2>1
      <3>2. at[i + 1] = at[i] + Len(h)
        BY <1>2, <3>1
      <3> QED
        BY <1>2, <3>1, <3>2
    <2>2. CASE i # 1
      <3> DEFINE k == i - 1
      <3>1. /\ k \in 1 .. m /\ k + 1 = i /\ k \in 1 .. (m + 1) /\ k - 1 \in 0 .. m /\ i - 1 = k /\ k \in 0 .. m
        BY <1>1, <2>2
      <3> HIDE DEF k
      <3>2. pieces[i] = rec(k)
        BY <1>8, <1>9, <3>1
      <3>3. at[i] = 2 + Sum(First(sizes, k - 1)) /\ at[i + 1] = 2 + Sum(First(sizes, k))
        BY <1>10, <3>1
      <3>4. Sum(First(sizes, k)) = Sum(First(sizes, k - 1)) + sizes[k] /\ sizes[k] \in Nat
        BY <1>1, <3>1, SumFirst
      <3>5. Sum(First(sizes, k - 1)) \in Nat
        BY <1>5, <3>1
      <3>6. at[i + 1] = at[i] + sizes[k]
        <4>1. \A a, b \in Nat : 2 + (a + b) = (2 + a) + b
          OBVIOUS
        <4> QED
          BY <3>3, <3>4, <3>5, <4>1
      <3>7. /\ rec(k).w = "w" /\ Len(rec(k).words) = sizes[k]
            /\ \A j \in 1 .. sizes[k] : rec(k).words[j] = WordAt("ok", len, at[i] + j)
        BY <1>6, <3>1, <3>3
      <3> QED
        BY <3>2, <3>6, <3>7
    <2> QED
      BY <2>1, <2>2
  <1>16. Len(pieces) = m + 1 /\ Len(pieces) + 1 = m + 2
    BY <1>1, <1>9
  <1>17. Continues(pieces, "w", 0, len, "ok", len)
    BY <1>11, <1>12, <1>14, <1>15, <1>16 DEF Continues
  <1> QED
    BY <1>1, <1>17 DEF pieces, len

\* The entries of a listing that go on behind a position, and then its header.
Behind(pieces, from, len) ==
    \E body \in Seq(Pieces) :
        /\ pieces = body \o <<Piece("w", Header("ok", len))>>
        /\ Continues(body, "data_writer", from, len, "ok", len)

LEMMA ListingContinues ==
    ASSUME NEW n \in Nat
    PROVE  /\ 2 + 4 * n \in Nat /\ ReplyListing(n) # <<>>
           /\ Behind(ReplyListing(n), 2, 2 + 4 * n)
  <1> DEFINE len == 2 + 4 * n
             piece(k) == Entry((k + 1) \div 2)[IF k % 2 = 1 THEN 1 ELSE 2]
             entries == [k \in 1 .. (2 * n) |-> piece(k)]
             head == Piece("w", Header("ok", SizeOutHeader + n * (SizeDirEntryOut + SizeName)))
             from(k) == ((k + 1) \div 2 - 1) * 4 + (IF k % 2 = 1 THEN 0 ELSE 3)
             size(k) == IF k % 2 = 1 THEN 3 ELSE 1
             at == [k \in 1 .. (2 * n + 1) |-> 2 + from(k)]
  <1>1. ReplyListing(n) = entries \o <<head>>
    BY DEF ReplyListing
  <1>2. SizeOutHeader + n * (SizeDirEntryOut + SizeName) = len /\ len \in Nat /\ 2 * n \in Nat
    BY DEF SizeOutHeader, SizeDirEntryOut, SizeName
  <1>3. head = Piece("w", Header("ok", len))
    BY <1>2
  <1>4. ASSUME NEW k \in 1 .. (2 * n) PROVE piece(k) = Piece("data_writer", Body(from(k), size(k)))
    <2> DEFINE base == ((k + 1) \div 2 - 1) * 4
               first == Piece("data_writer", Body(base, 3))
               second == Piece("data_writer", Body(base + 3, 1))
    <2>1. Entry((k + 1) \div 2) = <<first, second>>
      BY DEF Entry, SizeDirEntryOut, SizeName
    <2>2. base \in Int
      OBVIOUS
    <2>3. from(k) = base + (IF k % 2 = 1 THEN 0 ELSE 3)
      OBVIOUS
    <2> HIDE DEF from
    <2>4. CASE k % 2 = 1
      <3>1. from(k) = base /\ size(k) = 3
        <4> HIDE DEF base
        <4> QED
          BY <2>2, <2>3, <2>4
      <3>2. piece(k) = <<first, second>>[1]
        BY <2>1, <2>4
      <3> HIDE DEF base, size, piece
      <3>3. piece(k) = first
        BY <3>2
      <3> QED
        BY <3>1, <3>3
    <2>5. CASE k % 2 # 1
      <3>1. from(k) = base + 3 /\ size(k) = 1
        <4> HIDE DEF base
        <4> QED
          BY <2>2, <2>3, <2>5
      <3>2. piece(k) = <<first, second>>[2]
        BY <2>1, <2>5
      <3> HIDE DEF base, size, piece
      <3>3. piece(k) = second
        BY <3>2
      <3> QED
        BY <3>1, <3>3
    <2> QED
      BY <2>4, <2>5
  <1>5. \A k \in 1 .. (2 * n + 1) : from(k) \in Nat
    OBVIOUS
  <1>6. \A k \in 1 .. (2 * n) : size(k) \in Nat /\ from(k + 1) = from(k) + size(k)
    OBVIOUS
  <1>7. from(1) = 0 /\ from(2 * n + 1) = 4 * n
    OBVIOUS
  <1> HIDE DEF from, size, piece, len
  <1>8. \A k \in 1 .. (2 * n) : k \in 1 .. (2 * n + 1) /\ k + 1 \in 1 .. (2 * n + 1)
    OBVIOUS
  <1>9. at \in [1 .. (2 * n + 1) -> Nat]
    <2>1. \A k \in 1 .. (2 * n + 1) : 2 + from(k) \in Nat
      BY <1>5
    <2> QED
      BY <2>1
  <1>10. at[1] = 2 /\ at[2 * n + 1] = len
    <2>1. 1 \in 1 .. (2 * n + 1) /\ 2 * n + 1 \in 1 .. (2 * n + 1)
      BY <1>2
    <2>2. at[1] = 2 + from(1) /\ at[2 * n + 1] = 2 + from(2 * n + 1)
      BY <2>1
    <2> QED
      BY <1>7, <2>2 DEF len
  <1>11. ASSUME NEW k \in 1 .. (2 * n)
         PROVE  /\ piece(k) \in Pieces /\ piece(k).w = "data_writer" /\ Len(piece(k).words) = size(k)
                /\ \A j \in 1 .. size(k) : piece(k).words[j] = WordAt("ok", len, (2 + from(k)) + j)
    <2> DEFINE b == Body(from(k), size(k))
    <2>1. from(k) \in Nat /\ size(k) \in Nat
      BY <1>5, <1>6, <1>8
    <2>2. Piece("data_writer", b) \in Pieces /\ Len(b) = size(k)
      BY <2>1, BodyFacts
    <2>3. \A j \in 1 .. size(k) : b[j] = WordAt("ok", len, (2 + from(k)) + j)
      BY <2>1, BodyWords
    <2>4. piece(k) = Piece("data_writer", b)
      BY <1>4
    <2> HIDE DEF b
    <2>5. Piece("data_writer", b).w = "data_writer" /\ Piece("data_writer", b).words = b
      BY DEF Piece
    <2> QED
      BY <2>2, <2>3, <2>4, <2>5
  <1>12. entries \in [1 .. (2 * n) -> Pieces]
    BY <1>11
  <1>13. /\ entries \in Seq(Pieces) /\ Len(entries) = 2 * n
         /\ \A k \in 1 .. (2 * n) : entries[k] = piece(k)
    BY <1>2, <1>12
  <1>14. \A k \in 1 .. (2 * n) : at[k] = 2 + from(k) /\ at[k + 1] = 2 + from(k + 1)
    BY <1>8
  <1> HIDE DEF entries, at, head
  <1>15. ASSUME NEW k \in 1 .. (2 * n)
         PROVE  /\ entries[k].w = "data_writer" /\ at[k + 1] = at[k] + Len(entries[k].words)
                /\ \A j \in 1 .. Len(entries[k].words) : entries[k].words[j] = WordAt("ok", len, at[k] + j)
    <2>1. at[k + 1] = at[k] + size(k)
      <3>1. from(k) \in Nat /\ size(k) \in Nat /\ from(k + 1) = from(k) + size(k)
        BY <1>5, <1>6, <1>8
      <3>2. \A a, b \in Nat : 2 + (a + b) = (2 + a) + b
        OBVIOUS
      <3> QED
        BY <1>14, <3>1, <3>2
    <2> QED
      BY <1>11, <1>13, <1>14, <2>1
  <1>16. Continues(entries, "data_writer", 2, len, "ok", len)
    <2>1. /\ at \in [1 .. (Len(entries) + 1) -> Nat] /\ at[1] = 2 /\ at[Len(entries) + 1] = len
      BY <1>9, <1>10, <1>13
    <2>2. \A k \in 1 .. Len(entries) :
             /\ entries[k].w = "data_writer" /\ at[k + 1] = at[k] + Len(entries[k].words)
             /\ \A j \in 1 .. Len(entries[k].words) : entries[k].words[j] = WordAt("ok", len, at[k] + j)
      BY <1>13, <1>15
    <2> QED
      BY <2>1, <2>2 DEF Continues
  <1>17. ReplyListing(n) # <<>>
    BY ListingFacts DEF Listing
  <1> QED
    BY <1>1, <1>2, <1>3, <1>13, <1>16, <1>17 DEF Behind, len

\* What is left of such a reply once its first piece is written.
LEMMA BehindTail ==
    ASSUME NEW pieces, NEW from, NEW len \in Nat, Behind(pieces, from, len)
    PROVE  \/ from = len /\ Head(pieces) = Piece("w", Header("ok", len)) /\ Tail(pieces) = <<>>
           \/ /\ Head(pieces).w = "data_writer" /\ from \in Nat
              /\ \A j \in 1 .. Len(Head(pieces).words) : Head(pieces).words[j] = WordAt("ok", len, from + j)
              /\ Behind(Tail(pieces), from + Len(Head(pieces).words), len)
  <1> DEFINE last == Piece("w", Header("ok", len))
  <1>1. PICK body \in Seq(Pieces) : /\ pieces = body \o <<last>>
                                    /\ Continues(body, "data_writer", from, len, "ok", len)
    BY DEF Behind
  <1>2. last \in Pieces
    BY HeaderFacts
  <1> HIDE DEF last
  <1>3. CASE body = <<>>
    <2>1. pieces = <<last>>
      BY <1>1, <1>2, <1>3
    <2>2. from = len
      <3>1. PICK at \in [1 .. (Len(body) + 1) -> Nat] : at[1] = from /\ at[Len(body) + 1] = len
        BY <1>1 DEF Continues
      <3> QED
        BY <1>3, <3>1
    <2>3. Head(<<last>>) = last /\ Tail(<<last>>) = <<>>
      OBVIOUS
    <2> QED
      BY <2>1, <2>2, <2>3 DEF last
  <1>4. CASE body # <<>>
    <2>1. /\ Head(body).w = "data_writer" /\ from \in Nat
          /\ \A j \in 1 .. Len(Head(body).words) : Head(body).words[j] = WordAt("ok", len, from + j)
          /\ Continues(Tail(body), "data_writer", from + Len(Head(body).words), len, "ok", len)
      BY <1>1, <1>4, ContinuesTail
    <2>2. Tail(body) \in Seq(Pieces)
      BY <1>4, HeadTailProperties
    <2>3. Head(pieces) = Head(body) /\ Tail(pieces) = Tail(body) \o <<last>>
      <3> DEFINE one == <<last>>
      <3>1. one \in Seq(Pieces) /\ Len(one) = 1
        BY <1>2
      <3> HIDE DEF one
      <3>2. Len(body) \in Nat /\ Len(body) # 0
        BY <1>4
      <3>3. /\ Head(body) = body[1] /\ Len(Tail(body)) = Len(body) - 1
            /\ \A i \in 1 .. Len(Tail(body)) : Tail(body)[i] = body[i + 1]
        BY <1>4, HeadTailProperties
      <3> DEFINE joined == body \o one
                 short == Tail(body) \o one
      <3>4. /\ joined \in Seq(Pieces) /\ Len(joined) = Len(body) + 1
            /\ \A i \in 1 .. (Len(body) + 1) : joined[i] = IF i <= Len(body) THEN body[i] ELSE one[i - Len(body)]
        <4>1. /\ joined \in Seq(Pieces) /\ Len(joined) = Len(body) + Len(one)
              /\ \A i \in 1 .. (Len(body) + Len(one)) :
                   joined[i] = IF i <= Len(body) THEN body[i] ELSE one[i - Len(body)]
          BY <3>1, ConcatProperties
        <4> QED
          BY <3>1, <4>1
      <3>5. /\ short \in Seq(Pieces) /\ Len(short) = Len(body)
            /\ \A i \in 1 .. Len(body) :
                 short[i] = IF i <= Len(body) - 1 THEN Tail(body)[i] ELSE one[i - (Len(body) - 1)]
        <4>1. /\ short \in Seq(Pieces) /\ Len(short) = Len(Tail(body)) + Len(one)
              /\ \A i \in 1 .. (Len(Tail(body)) + Len(one)) :
                   short[i] = IF i <= Len(Tail(body)) THEN Tail(body)[i] ELSE one[i - Len(Tail(body))]
          BY <2>2, <3>1, ConcatProperties
        <4>2. Len(Tail(body)) + Len(one) = Len(body)
          BY <3>1, <3>2, <3>3
        <4> QED
          BY <3>3, <4>1, <4>2
      <3> HIDE DEF joined, short
      <3>6. joined # <<>>
        BY <3>2, <3>4
      <3>7. /\ Head(joined) = joined[1] /\ Tail(joined) \in Seq(Pieces) /\ Len(Tail(joined)) = Len(joined) - 1
            /\ \A i \in 1 .. Len(Tail(joined)) : Tail(joined)[i] = joined[i + 1]
        BY <3>4, <3>6, HeadTailProperties
      <3>8. Head(joined) = Head(body)
        <4>1. 1 \in 1 .. (Len(body) + 1) /\ 1 <= Len(body)
          BY <3>2
        <4> QED
          BY <3>3, <3>4, <3>7, <4>1
      <3>9. ASSUME NEW i \in 1 .. Len(body) PROVE Tail(joined)[i] = short[i]
        <4>1. Tail(joined)[i] = joined[i + 1] /\ i + 1 \in 1 .. (Len(body) + 1)
          BY <3>2, <3>4, <3>7
        <4>2. CASE i <= Len(body) - 1
          <5>1. i + 1 <= Len(body) /\ i \in 1 .. Len(Tail(body))
            BY <3>2, <3>3, <4>2
          <5> QED
            BY <3>3, <3>4, <3>5, <4>1, <4>2, <5>1
        <4>3. CASE ~(i <= Len(body) - 1)
          <5>1. ~(i + 1 <= Len(body)) /\ (i + 1) - Len(body) = i - (Len(body) - 1)
            BY <3>2, <4>3
          <5> QED
            BY <3>4, <3>5, <4>1, <4>3, <5>1
        <4> QED
          BY <4>2, <4>3
      <3>10. Len(Tail(joined)) = Len(body)
        BY <3>2, <3>4, <3>7
      <3>11. Tail(joined) = short
        BY <3>5, <3>7, <3>9, <3>10, SeqEqual
      <3> QED
        BY <1>1, <3>8, <3>11 DEF joined, short, one
    <2>4. Behind(Tail(pieces), from + Len(Head(pieces).words), len)
      BY <2>1, <2>2, <2>3 DEF Behind, last
    <2> QED
      BY <2>1, <2>3, <2>4
  <1> QED
    BY <1>3, <1>4

\* The writes of a handler.
LEMMA DataLands ==
    ASSUME ExchangeTypes, WriterInv, pc = "data", NEW data \in Seq(Data), WriteFromAt("data_writer", data)
    PROVE  Lands("data_writer", data)
  <1> DEFINE c == writers["data_writer"]
             all == chain.writable
  <1>1. DOMAIN writers = {"w", "data_writer"} /\ SplitOff /\ all \in Seq(Slices)
    BY DEF ExchangeTypes, SplitOff
  <1>2. c = Consumer(Part("data_writer")) /\ NoEmpty(all) /\ SizeOutHeader <= Total(all)
    BY <1>1 DEF WriterInv
  <1>3. c.buffers = Advance(all, SizeOutHeader)
    BY <1>2 DEF Part, Consumer
  <1>4. c.buffers \in Seq(Slices) /\ NoEmpty(c.buffers)
    BY <1>1, <1>2, <1>3, SplitTyped, NoEmptyKept DEF SizeOutHeader
  <1>5. Write("data_writer", data)
    BY <1>1, <1>4, WriteFromIsWrite
  <1> QED
    BY <1>1, <1>5, WriteLands

LEMMA PieceLands ==
    ASSUME ExchangeTypes, WriterInv, WritePiece
    PROVE  /\ Lands(Head(todo).w, Head(todo).words) /\ Head(todo).w \in DOMAIN writers
           /\ todo \in Seq(Pieces) /\ todo # <<>> /\ Len(Head(todo).words) \in Nat
  <1>1. pc = "reply" /\ todo # <<>> /\ Write(Head(todo).w, Head(todo).words)
    BY DEF WritePiece
  <1>2. todo \in Seq(Pieces) /\ \A i \in 1 .. Len(todo) : todo[i].w \in DOMAIN writers
    BY <1>1 DEF ExchangeTypes
  <1>3. Head(todo) = todo[1] /\ 1 \in 1 .. Len(todo) /\ todo[1] \in Pieces
    BY <1>1, <1>2
  <1>4. Head(todo).w \in DOMAIN writers /\ Head(todo).words \in Seq(Data)
    BY <1>2, <1>3 DEF Pieces
  <1>5. Lands(Head(todo).w, Head(todo).words)
    BY <1>1, <1>4, WriteLands
  <1> QED
    BY <1>1, <1>2, <1>4, <1>5

LEMMA LayoutWords ==
    ASSUME NEW n \in Nat, NEW lens \in Layouts(n)
    PROVE  lens \in Seq(Nat) /\ Sum(lens) <= n /\ \A i \in 1 .. Len(lens) : lens[i] > 0
  <1>1. CASE lens = <<>>
    <2>1. Len(lens) = 0 /\ lens \in Seq(Nat) /\ Sum(lens) = 0
      BY <1>1, SumNone
    <2> QED
      BY <2>1
  <1>2. ASSUME NEW k \in 1 .. n, lens = <<k>> PROVE lens \in Seq(Nat) /\ Sum(lens) <= n /\ \A i \in 1 .. Len(lens) : lens[i] > 0
    <2>1. Sum(<<k>>) = k
      BY SumOne
    <2> QED
      BY <1>2, <2>1
  <1>3. ASSUME NEW k \in 1 .. (n - 1), lens = <<k, n - k>>
        PROVE  lens \in Seq(Nat) /\ Sum(lens) <= n /\ \A i \in 1 .. Len(lens) : lens[i] > 0
    <2>1. k \in Nat /\ n - k \in Nat /\ k > 0 /\ n - k > 0
      OBVIOUS
    <2> DEFINE m == n - k
    <2>2. m \in Nat /\ m > 0 /\ k + m = n
      BY <2>1
    <2> HIDE DEF m
    <2>3. Sum(<<k>>) = k /\ Sum(<<m>>) = m
      BY <2>1, <2>2, SumOne
    <2>4. <<k>> \in Seq(Nat) /\ <<m>> \in Seq(Nat) /\ <<k, m>> = <<k>> \o <<m>>
      BY <2>1, <2>2
    <2>5. Sum(<<k>> \o <<m>>) = Sum(<<k>>) + Sum(<<m>>)
      BY <2>4, SumConcat
    <2>6. Sum(<<k, m>>) = n
      BY <2>2, <2>3, <2>4, <2>5
    <2>7. lens = <<k, m>>
      BY <1>3 DEF m
    <2> QED
      BY <2>1, <2>2, <2>6, <2>7
  <1>4. \/ lens = <<>> \/ (\E k \in 1 .. n : lens = <<k>>) \/ (\E k \in 1 .. (n - 1) : lens = <<k, n - k>>)
    <2>1. lens \in Slicings(n) => \/ lens = <<>> \/ (\E k \in 1 .. n : lens = <<k>>)
                                  \/ (\E k \in 1 .. (n - 1) : lens = <<k, n - k>>)
      <3>1. n # 0 => n \in 1 .. n
        OBVIOUS
      <3> QED
        BY <3>1 DEF Slicings
    <2>2. lens \notin Slicings(n) => lens = <<>> \/ (\E k \in 1 .. n : lens = <<k>>)
      BY DEF Layouts
    <2> QED
      BY <2>1, <2>2
  <1> QED
    BY <1>1, <1>2, <1>3, <1>4

LEMMA WriterStarts == ExchangeInit => WriterInv
  <1> SUFFICES ASSUME ExchangeInit PROVE WriterInv
    OBVIOUS
  <1> DEFINE all == chain.writable
             Sent(op, size, k) ==
               /\ request = [op |-> op, len |-> SizeInHeader + k[1], size |-> size]
               /\ \E readable \in Layouts(SizeInHeader + k[1]), writable \in Layouts(k[2]) :
                    ChainOf(readable, writable)
  <1>1. PICK op \in Opcodes \cup {"statfs"} :
          \E size \in IF op \in Sized THEN Sizes ELSE {0} : Sent(op, size, Kernel(op, size))
    BY DEF ExchangeInit
  <1>2. PICK size \in IF op \in Sized THEN Sizes ELSE {0} : Sent(op, size, Kernel(op, size))
    BY <1>1
  <1>3. size \in Nat /\ (op = "read" => size \in Sizes)
    BY ExchangeAssumption DEF Sized
  <1> DEFINE k == Kernel(op, size)
  <1>4. SizeInHeader + k[1] \in Nat /\ k[2] \in Nat
    BY <1>3, KernelNumbers DEF SizeInHeader
  <1>5. PICK readable \in Layouts(SizeInHeader + k[1]), writable \in Layouts(k[2]) :
          ChainOf(readable, writable)
    BY <1>2
  <1>6. request.op = op /\ request.size = size
    BY <1>2
  <1>7. /\ readable \in Seq(Nat) /\ writable \in Seq(Nat) /\ Sum(writable) <= k[2]
        /\ \A i \in 1 .. Len(writable) : writable[i] > 0
    BY <1>4, LayoutWords
  <1>8. Laidout(all) /\ Lens(all) = writable
    BY <1>5, <1>7, ChainLaid
  <1>9. writers = [w \in {"w"} |-> Consumer(all)]
    <2>1. \E ws : chain.writable = ws /\ writers = [w \in {"w"} |-> Consumer(ws)]
      BY <1>5 DEF ChainOf
    <2> QED
      BY <2>1
  <1>10. all \in Seq(Slices) /\ pc = "header"
    BY ExchangeStarts DEF ExchangeTypes, ExchangeInit
  <1> HIDE DEF all, k
  <1>11. Total(all) <= k[2]
    BY <1>7, <1>8 DEF Total
  <1>12. NoEmpty(all)
    <2>1. Len(Lens(all)) = Len(all) /\ \A i \in 1 .. Len(all) : Lens(all)[i] = all[i].len
      BY <1>10, LensFacts
    <2> QED
      BY <1>7, <1>8, <2>1 DEF NoEmpty
  <1>13. DOMAIN writers = {"w"} /\ writers["w"] = Consumer(all) /\ ~SplitOff
    BY <1>9 DEF SplitOff
  <1>14. Part("w") = all
    BY <1>13 DEF Part, all
  <1>15. PlacedIn(Consumer(all), all)
    BY <1>10, StartsPlaced
  <1> QED
    BY <1>3, <1>6, <1>8, <1>10, <1>11, <1>12, <1>13, <1>14, <1>15 DEF WriterInv, all, k

\* A write keeps the writers where their counts say.
LEMMA LandsKeeps ==
    ASSUME ExchangeTypes, WriterInv, NEW w \in DOMAIN writers, NEW data, Lands(w, data), request' = request,
           pc' \in {"reply", "dead"}
    PROVE  WriterInv'
  <1>1. /\ chain' = chain /\ DOMAIN writers' = DOMAIN writers /\ PlacedIn(writers'[w], Part(w))
        /\ Laidout(chain.writable)' /\ \A v \in DOMAIN writers \ {w} : writers'[v] = writers[v]
    BY DEF Lands
  <1>2. SplitOff' = SplitOff
    BY <1>1 DEF SplitOff
  <1>3. \A v : Part(v)' = Part(v)
    BY <1>1, <1>2 DEF Part
  <1>4. ASSUME NEW v \in DOMAIN writers PROVE PlacedIn(writers'[v], Part(v))
    <2>1. CASE v = w
      BY <1>1, <2>1
    <2>2. CASE v # w
      BY <1>1, <2>2 DEF WriterInv
    <2> QED
      BY <2>1, <2>2
  <1>5. \A v \in DOMAIN writers' : PlacedIn(writers[v], Part(v))'
    <2> SUFFICES ASSUME NEW v \in DOMAIN writers' PROVE PlacedIn(writers'[v], Part(v)')
      BY DEF PlacedIn
    <2>1. Part(v)' = Part(v)
      BY <1>3
    <2> QED
      BY <1>1, <1>4, <2>1
  <1> QED
    BY <1>1, <1>2, <1>5 DEF WriterInv

LEMMA WriterSteps ==
    ASSUME ExchangeTypes, WriterInv, [ExchangeNext]_xvars
    PROVE  WriterInv'
  <1> DEFINE Early == {"header", "args", "stored", "data", "list"}
  <1>1. ASSUME chain' = chain, mem' = mem, writers' = writers, request' = request,
               pc' \in Early => pc \in Early, pc' = "args" => request.op \in Opcodes
        PROVE  WriterInv'
    <2>1. SplitOff' = SplitOff /\ \A v : Part(v)' = Part(v)
      BY <1>1 DEF SplitOff, Part
    <2>2. Laidout(chain.writable)'
      BY <1>1 DEF Laidout, WriterInv
    <2>3. \A w \in DOMAIN writers' : PlacedIn(writers[w], Part(w))'
      <3> SUFFICES ASSUME NEW w \in DOMAIN writers PROVE PlacedIn(writers[w], Part(w))'
        BY <1>1
      <3>1. PlacedIn(writers[w], Part(w)) /\ Part(w)' = Part(w) /\ writers'[w] = writers[w]
        BY <1>1, <2>1 DEF WriterInv
      <3> QED
        BY <3>1 DEF PlacedIn
    <2>4. pc' \in Early => \A w \in DOMAIN writers' : writers'[w] = Consumer(Part(w))'
      <3> SUFFICES ASSUME pc' \in Early, NEW w \in DOMAIN writers PROVE writers'[w] = Consumer(Part(w))'
        BY <1>1
      <3>1. writers[w] = Consumer(Part(w)) /\ Part(w)' = Part(w) /\ writers'[w] = writers[w]
        BY <1>1, <2>1 DEF WriterInv
      <3> QED
        BY <3>1 DEF Consumer
    <2> QED
      BY <1>1, <2>1, <2>2, <2>3, <2>4 DEF WriterInv
  <1>2. CASE UNCHANGED xvars
    BY <1>1, <1>2 DEF xvars, dvars, evars, WriterInv
  <1>3. CASE ReadHeader
    <2>1. /\ pc = "header" /\ chain' = chain /\ mem' = mem /\ writers' = writers /\ request' = request
      BY <1>3 DEF ReadHeader, Read, Deliver
    <2>2. pc' = "args" => request.op \in Opcodes
      BY <1>3 DEF ReadHeader, Dies, Goto
    <2> QED
      BY <1>1, <2>1, <2>2
  <1>4. CASE ReadArgument \/ TakePayload
    <2>1. /\ pc = "args" /\ chain' = chain /\ mem' = mem /\ writers' = writers /\ request' = request
      BY <1>4 DEF ReadArgument, TakePayload, Read, ReadToAt, Deliver
    <2>2. request.op \in Opcodes
      BY <2>1 DEF WriterInv
    <2> QED
      BY <1>1, <2>1, <2>2
  <1>5. CASE Refused \/ Silent \/ Accepted \/ SendListing \/ Return
    <2>1. chain' = chain /\ mem' = mem /\ writers' = writers /\ request' = request
      BY <1>5 DEF Refused, Silent, Accepted, SendListing, Return, Step, dvars
    <2>2. pc' \in {"reply", "done"}
      BY <1>5 DEF Refused, Silent, Accepted, SendListing, Return, Step, Goto
    <2> QED
      BY <1>1, <2>1, <2>2
  <1>6. CASE Over
    BY <1>2, <1>6 DEF Over
  <1>7. CASE SplitHeader
    <2>1. pc = "args" /\ request' = request
      BY <1>7 DEF SplitHeader
    <2>2. CASE UNCHANGED dvars /\ Dies
      BY <1>1, <2>1, <2>2 DEF dvars, Dies, Goto
    <2>3. CASE SplitAt(SizeOutHeader) /\ Goto(IF request.op = "read" THEN "data" ELSE "list", <<>>)
      <3> DEFINE all == chain.writable
                 front == Kept(all, SizeOutHeader)
                 back == Advance(all, SizeOutHeader)
                 c == writers["w"]
      <3>1. DOMAIN writers = {"w"} /\ ~SplitOff
        BY <2>3 DEF SplitAt, SplitOff
      <3>2. c = Consumer(all)
        <4>1. c = Consumer(Part("w"))
          BY <2>1, <3>1 DEF WriterInv
        <4> QED
          BY <3>1, <4>1 DEF Part
      <3>3. c.buffers = all /\ SizeOutHeader <= Total(all)
        BY <2>3, <3>2 DEF SplitAt, CanSplit, Consumer
      <3>4. /\ chain' = chain /\ mem' = mem
            /\ writers' = [w \in {"w", "data_writer"} |->
                             IF w = "w" THEN [c EXCEPT !.buffers = Kept(@, SizeOutHeader)]
                             ELSE Consumer(Advance(c.buffers, SizeOutHeader))]
        BY <2>3 DEF SplitAt
      <3>5. [c EXCEPT !.buffers = Kept(@, SizeOutHeader)] = Consumer(front)
        BY <3>2 DEF Consumer
      <3> HIDE DEF c, front, back
      <3>6. /\ DOMAIN writers' = {"w", "data_writer"}
            /\ writers'["w"] = Consumer(front) /\ writers'["data_writer"] = Consumer(back)
        BY <3>3, <3>4, <3>5 DEF back
      <3>7. SplitOff' /\ Part("w")' = front /\ Part("data_writer")' = back
        BY <3>4, <3>6 DEF SplitOff, Part, front, back
      <3>8. front \in Seq(Slices) /\ back \in Seq(Slices) /\ all \in Seq(Slices)
        BY <3>3, SplitTyped DEF ExchangeTypes, front, back, SizeOutHeader
      <3>9. PlacedIn(Consumer(front), front) /\ PlacedIn(Consumer(back), back)
        BY <3>8, StartsPlaced
      <3>10. \A w \in DOMAIN writers' : writers'[w] = Consumer(Part(w)') /\ PlacedIn(writers'[w], Part(w)')
        BY <3>6, <3>7, <3>9
      <3>11. Laidout(chain.writable)' /\ pc' # "args"
        BY <2>3, <3>4 DEF Laidout, WriterInv, Goto
      <3>12. \A w \in DOMAIN writers' : PlacedIn(writers[w], Part(w))' /\ writers'[w] = Consumer(Part(w))'
        BY <3>10 DEF PlacedIn, Consumer
      <3> QED
        BY <2>1, <3>3, <3>4, <3>11, <3>12 DEF WriterInv
    <2> QED
      BY <1>7, <2>2, <2>3 DEF SplitHeader
  <1>8. CASE SendData
    <2>1. PICK rest \in Rests : /\ WriteFromAt("data_writer", Body(0, rest)) /\ pc' = "reply"
      BY <1>8 DEF SendData, Goto
    <2>2. /\ pc = "data" /\ request' = request /\ Body(0, rest) \in Seq(Data)
          /\ "data_writer" \in DOMAIN writers
      BY <1>8, BodyFacts, ExchangeAssumption DEF SendData, ExchangeTypes
    <2>3. Lands("data_writer", Body(0, rest))
      BY <2>1, <2>2, DataLands
    <2> QED
      BY <2>1, <2>2, <2>3, LandsKeeps
  <1>9. CASE WritePiece
    <2>1. Lands(Head(todo).w, Head(todo).words) /\ Head(todo).w \in DOMAIN writers
      BY <1>9, PieceLands
    <2>2. request' = request /\ pc' \in {"reply", "dead"}
      BY <1>9 DEF WritePiece, Goto, Dies
    <2> QED
      BY <2>1, <2>2, LandsKeeps
  <1> QED
    BY <1>2, <1>3, <1>4, <1>5, <1>6, <1>7, <1>8, <1>9 DEF ExchangeNext

-----------------------------------------------------------------------------
(* A reply in the making.                                                   *)

Written(lo, hi, kind, len) == \A k \in lo .. hi : Area[k] = WordAt(kind, len, k)

\* READs are answered in full: the room is what was asked for, the file not longer.
InRoom ==
    request.op = "read" =>
        /\ Total(chain.writable) = SizeOutHeader + request.size
        /\ \A rest \in Rests : rest <= request.size

\* In one piece: what is written and what is still to be written are one reply.
Plain ==
    /\ ~SplitOff
    /\ \E kind \in {"ok", "error"}, len \in Nat :
         /\ len >= 2 /\ (kind = "error" => len = 2)
         /\ kind = "ok" => len = Kernel(request.op, request.size)[2]
         /\ Continues(todo, "w", Reached("w"), len, kind, len)
         /\ Written(1, Reached("w"), kind, len)
\* Split: the header is still to be written, and before it what it announces.
Pending ==
    /\ SplitOff /\ writers["w"].bytes_consumed = 0
    /\ \/ todo = ReplyError
       \/ \E len \in Nat : /\ Behind(todo, Reached("data_writer"), len)
                           /\ Written(3, Reached("data_writer"), "ok", len)
\* Split, and the header is written.
Ended ==
    /\ SplitOff /\ todo = <<>> /\ writers["w"].bytes_consumed = 2
    /\ \E kind \in {"ok", "error"}, len \in 2 .. Total(chain.writable) :
         /\ kind = "error" => len = 2
         /\ Area[1] = <<kind, len>> /\ Written(3, len, kind, len)

ReplyInv ==
    /\ pc = "data" => request.op = "read"
    /\ SplitOff => request.op \in {"read", "readdir"}
    /\ InRoom /\ pc = "reply" => Plain \/ Pending \/ Ended

\* What is returned to the ring.
DoneInv ==
    InRoom /\ Replied =>
        /\ Area[1] \in {"ok", "error"} \X {returned}
        /\ returned \in 2 .. Len(Area)
        /\ \A k \in 3 .. returned : Area[k] = <<"body", k - 2>>
        /\ request.op \notin {"read", "readdir"} =>
             Area[1] = <<"error", SizeOutHeader>> \/ returned = Len(Area)

LEMMA RecordsFill ==
    ASSUME NEW op \in Opcodes \ {"read", "readdir", "forget", "destroy"}, NEW size \in Nat
    PROVE  /\ OutRecords(op) \in Seq(Nat) /\ Len(OutRecords(op)) <= 2
           /\ 2 + Sum(OutRecords(op)) = Kernel(op, size)[2]
  <1> DEFINE room == Kernel(op, size)[2]
  <1>1. OutRecords(op) \in Seq(Nat) /\ Len(OutRecords(op)) <= 2
    BY RecordsFit
  <1>2. CASE op = "create"
    <2>1. OutRecords(op) = <<16, 2>> /\ room = 20
      BY <1>2 DEF OutRecords, Kernel, SizeEntryOut, SizeAttr, SizeOpenOut
    <2> DEFINE a == <<16>>
               b == <<2>>
               both == <<16, 2>>
    <2>2. both = a \o b /\ a \in Seq(Nat) /\ b \in Seq(Nat)
      OBVIOUS
    <2>3. Sum(a) = 16 /\ Sum(b) = 2
      BY SumOne
    <2> HIDE DEF a, b, both
    <2>4. Sum(a \o b) = Sum(a) + Sum(b)
      BY <2>2, SumConcat
    <2>5. OutRecords(op) = both /\ Sum(both) = 18
      <3>1. OutRecords(op) = both
        BY <2>1 DEF both
      <3>2. Sum(both) = 18
        BY <2>2, <2>3, <2>4
      <3> QED
        BY <3>1, <3>2
    <2>6. 2 + Sum(OutRecords(op)) = room
      BY <2>1, <2>5
    <2> QED
      BY <1>1, <2>6
  <1>3. CASE op \in {"lookup", "mkdir", "getattr", "setattr", "open", "opendir", "init", "write"}
    <2>1. PICK n \in Nat : OutRecords(op) = <<n>> /\ 2 + n = room
      BY <1>3 DEF OutRecords, Kernel, SizeEntryOut, SizeAttr, SizeAttrOut, SizeOpenOut, SizeInitOut,
                  SizeWriteOut
    <2>2. Sum(<<n>>) = n
      BY SumOne
    <2> QED
      BY <1>1, <2>1, <2>2
  <1>4. CASE op \in {"unlink", "rmdir", "release", "flush", "releasedir", "fsyncdir"}
    <2>1. OutRecords(op) = <<>> /\ room = 2
      BY <1>4 DEF OutRecords, Kernel
    <2> QED
      BY <1>1, <2>1, SumNone
  <1>5. op \in {"create"} \cup {"lookup", "mkdir", "getattr", "setattr", "open", "opendir", "init", "write"}
               \cup {"unlink", "rmdir", "release", "flush", "releasedir", "fsyncdir"}
    BY DEF Opcodes
  <1> QED
    BY <1>2, <1>3, <1>4, <1>5

\* The beginning of a reply.
LEMMA ReplyBegins ==
    ASSUME ExchangeTypes, WriterInv, Refused \/ Accepted \/ SendListing \/ ReadHeader, pc' = "reply"
    PROVE  Plain' \/ Pending'
  <1>1. /\ chain' = chain /\ mem' = mem /\ writers' = writers /\ request' = request
        /\ pc \in {"header", "args", "stored", "list"}
    BY DEF Refused, Accepted, SendListing, ReadHeader, Step, Read, Deliver, dvars
  <1>2. \A w \in DOMAIN writers : writers[w].bytes_consumed = 0 /\ Reached(w) = PartStart(w)
    <2> SUFFICES ASSUME NEW w \in DOMAIN writers
                 PROVE  writers[w].bytes_consumed = 0 /\ Reached(w) = PartStart(w)
      OBVIOUS
    <2>1. writers[w].bytes_consumed = 0
      BY <1>1 DEF WriterInv, Consumer
    <2>2. PartStart(w) \in Nat
      BY DEF PartStart, SizeOutHeader
    <2> QED
      BY <2>1, <2>2 DEF Reached
  <1>3. SplitOff' = SplitOff /\ \A w : Reached(w)' = Reached(w)
    BY <1>1 DEF SplitOff, Reached, PartStart
  <1>4. "w" \in DOMAIN writers /\ Reached("w") = 0 /\ writers'["w"].bytes_consumed = 0
    BY <1>1, <1>2 DEF ExchangeTypes, PartStart
  <1>5. ASSUME NEW kind \in {"ok", "error"}, NEW len \in Nat, ~SplitOff, len >= 2, kind = "error" => len = 2,
               kind = "ok" => len = Kernel(request.op, request.size)[2],
               Continues(todo', "w", 0, len, kind, len)
        PROVE  Plain'
    <2>1. Reached("w")' = 0
      BY <1>3, <1>4
    <2>2. Continues(todo, "w", Reached("w"), len, kind, len)'
      BY <1>5, <2>1 DEF Continues, WordAt
    <2>3. Written(1, Reached("w"), kind, len)'
      BY <2>1 DEF Written
    <2> QED
      BY <1>1, <1>3, <1>5, <2>2, <2>3 DEF Plain
  <1>6. ASSUME todo' = ReplyError PROVE Plain' \/ Pending'
    <2>1. CASE SplitOff
      BY <1>3, <1>4, <1>6, <2>1 DEF Pending
    <2>2. CASE ~SplitOff
      BY <1>5, <1>6, <2>2, ErrorContinues
    <2> QED
      BY <2>1, <2>2
  <1>7. CASE Refused \/ ReadHeader
    BY <1>6, <1>7 DEF Refused, ReadHeader, Step, Goto, Dies
  <1>8. CASE Accepted
    <2> DEFINE op == request.op
               sizes == OutRecords(op)
    <2>1. /\ todo' = ReplyOk(sizes) /\ pc \in {"args", "stored"} /\ ~SplitOff
          /\ op \in Opcodes \ {"read", "readdir", "forget", "destroy"} /\ request.size \in Nat
      <3>1. todo' = ReplyOk(sizes)
        BY <1>8 DEF Accepted, Step, Goto
      <3>2. pc \in {"args", "stored"} /\ op \notin {"read", "readdir", "forget", "destroy"}
        BY <1>8 DEF Accepted, ExchangeTypes, Sized
      <3>3. op \in Opcodes
        <4>1. pc = "stored" => op = "write"
          BY DEF ExchangeTypes
        <4>2. pc = "args" => op \in Opcodes
          BY DEF WriterInv
        <4> QED
          BY <3>2, <4>1, <4>2 DEF Opcodes
      <3>4. ~SplitOff /\ request.size \in Nat
        BY <3>2 DEF ExchangeTypes, SplitOff
      <3> QED
        BY <3>1, <3>2, <3>3, <3>4
    <2> HIDE DEF op
    <2>2. /\ sizes \in Seq(Nat) /\ Len(sizes) <= 2 /\ 2 + Sum(sizes) = Kernel(op, request.size)[2]
      BY <2>1, RecordsFill
    <2> HIDE DEF sizes
    <2>3. Sum(sizes) \in Nat /\ Continues(ReplyOk(sizes), "w", 0, 2 + Sum(sizes), "ok", 2 + Sum(sizes))
      BY <2>2, OkContinues
    <2> DEFINE len == 2 + Sum(sizes)
    <2>4. len \in Nat /\ len >= 2 /\ len = Kernel(request.op, request.size)[2]
      BY <2>2, <2>3 DEF op
    <2> HIDE DEF len
    <2>5. Continues(todo', "w", 0, len, "ok", len)
      BY <2>1, <2>3 DEF len
    <2>6. Plain'
      BY <1>5, <2>1, <2>4, <2>5
    <2> QED
      BY <2>6
  <1>9. CASE SendListing
    <2>1. PICK n \in Counts \cup {0} : todo' = ReplyListing(n)
      BY <1>9 DEF SendListing, Step, Goto
    <2>2. n \in Nat /\ pc = "list"
      BY <1>9, ExchangeAssumption DEF SendListing
    <2> DEFINE len == 2 + 4 * n
    <2>3. len \in Nat /\ Behind(ReplyListing(n), 2, len)
      BY <2>2, ListingContinues
    <2>4. SplitOff /\ Reached("data_writer") = 2
      BY <1>2, <2>2 DEF ExchangeTypes, SplitOff, PartStart, SizeOutHeader
    <2> HIDE DEF len
    <2>5. Behind(todo, Reached("data_writer"), len)'
      <3>1. Behind(todo', Reached("data_writer")', len)
        BY <1>3, <2>1, <2>3, <2>4
      <3> QED
        BY <3>1 DEF Behind, Continues, WordAt, Piece, Header
    <2>6. Written(3, Reached("data_writer"), "ok", len)'
      <3>1. Reached("data_writer")' = 2
        BY <1>3, <2>4
      <3>2. 3 .. 2 = {}
        OBVIOUS
      <3> QED
        BY <3>1, <3>2 DEF Written
    <2>7. Pending'
      BY <1>3, <1>4, <2>3, <2>4, <2>5, <2>6 DEF Pending
    <2> QED
      BY <2>7
  <1> QED
    BY <1>7, <1>8, <1>9

\* A write of the words that come next.
LEMMA WrittenGrows ==
    ASSUME ExchangeTypes, NEW w \in DOMAIN writers, NEW data, Len(data) \in Nat, Lands(w, data),
           NEW lo \in Nat, 1 <= lo, NEW kind, NEW len, Written(lo, Reached(w), kind, len),
           \A j \in 1 .. Len(data) : data[j] = WordAt(kind, len, Reached(w) + j)
    PROVE  /\ result' \in Nat /\ result' <= Len(data) /\ Reached(w)' = Reached(w) + result'
           /\ \A k \in lo .. (Reached(w) + result') : Area'[k] = WordAt(kind, len, k)
  <1> DEFINE at == Reached(w)
             m == result'
             all == Total(chain.writable)
             room == Total(writers[w].buffers)
             words == Len(data)
  <1>1. /\ at \in Nat /\ m \in Nat /\ at + m <= all /\ m = Least(words, room)
        /\ writers'[w].bytes_consumed = writers[w].bytes_consumed + m
        /\ \A k \in 1 .. all : Area'[k] = Laidover(data, at, m, k, Area[k])
    BY DEF Lands
  <1>2. writers[w] \in Consumers /\ chain.writable \in Seq(Slices)
    BY DEF ExchangeTypes
  <1>3. room \in Nat /\ all \in Nat /\ writers[w].bytes_consumed \in Nat
    BY <1>2, TotalFacts DEF Consumers
  <1>4. PartStart(w) \in Nat
    BY DEF PartStart, SizeOutHeader
  <1>5. Reached(w)' = at + m
    BY <1>1, <1>3, <1>4 DEF Reached, PartStart
  <1>6. \A k \in lo .. at : Area[k] = WordAt(kind, len, k)
    BY DEF Written
  <1>7. words \in Nat /\ \A j \in 1 .. words : data[j] = WordAt(kind, len, at + j)
    OBVIOUS
  <1> HIDE DEF at, m, all, room, words
  <1>8. m <= words
    BY <1>1, <1>3, <1>7 DEF Least
  <1>9. ASSUME NEW k \in lo .. (at + m) PROVE Area'[k] = WordAt(kind, len, k)
    <2>1. k \in 1 .. all
      BY <1>1, <1>3
    <2>2. CASE k <= at
      <3>1. k - at \notin 1 .. m /\ k \in lo .. at
        BY <1>1, <2>2
      <3> QED
        BY <1>1, <1>6, <2>1, <3>1 DEF Laidover
    <2>3. CASE ~(k <= at)
      <3>1. k - at \in 1 .. m /\ k - at \in 1 .. words /\ at + (k - at) = k
        BY <1>1, <1>7, <1>8, <2>3
      <3>2. Area'[k] = data[k - at]
        BY <1>1, <2>1, <3>1 DEF Laidover
      <3> QED
        BY <1>7, <3>1, <3>2
    <2> QED
      BY <2>2, <2>3
  <1> QED
    BY <1>1, <1>5, <1>8, <1>9 DEF at, m, words

\* The header of a split area goes where it belongs and leaves what is behind it.
LEMMA HeaderEnds ==
    ASSUME ExchangeTypes, WriterInv, SplitOff, writers["w"].bytes_consumed = 0, NEW kind, NEW len,
           Lands("w", Header(kind, len))
    PROVE  /\ result' = 2 /\ writers'["w"].bytes_consumed = 2 /\ Area'[1] = <<kind, len>>
           /\ 2 <= Total(chain.writable)
           /\ \A k \in 3 .. Total(chain.writable) : Area'[k] = Area[k]
  <1> DEFINE head == Header(kind, len)
             all == Total(chain.writable)
             room == Total(writers["w"].buffers)
  <1>1. "w" \in DOMAIN writers /\ chain.writable \in Seq(Slices) /\ writers["w"] \in Consumers
    BY DEF ExchangeTypes
  <1>2. Len(head) = 2 /\ head[1] = <<kind, len>>
    BY DEF Header
  <1>3. Reached("w") = 0 /\ PartStart("w") = 0
    BY DEF Reached, PartStart
  <1>4. Total(Part("w")) = 2 /\ all \in Nat
    BY <1>1, PartFacts DEF SizeOutHeader
  <1>5. room \in Nat
    BY <1>1, TotalFacts DEF Consumers
  <1>6. /\ result' = Least(Len(head), room) /\ 0 + Total(Part("w")) = 0 + room /\ 0 + result' <= all
        /\ writers'["w"].bytes_consumed = 0 + result'
        /\ \A k \in 1 .. all : Area'[k] = Laidover(head, 0, result', k, Area[k])
    BY <1>3 DEF Lands
  <1> HIDE DEF head, all, room
  <1>7. result' = 2 /\ 2 <= all
    BY <1>2, <1>4, <1>5, <1>6 DEF Least
  <1>8. Area'[1] = <<kind, len>>
    <2>1. 1 \in 1 .. all /\ 1 - 0 \in 1 .. 2 /\ 1 - 0 = 1
      BY <1>4, <1>7
    <2> QED
      BY <1>2, <1>6, <1>7, <2>1 DEF Laidover
  <1>9. ASSUME NEW k \in 3 .. all PROVE Area'[k] = Area[k]
    <2>1. k \in 1 .. all /\ k - 0 \notin 1 .. 2
      BY <1>4
    <2> QED
      BY <1>6, <1>7, <2>1 DEF Laidover
  <1> QED
    BY <1>6, <1>7, <1>8, <1>9 DEF all

\* The pieces of a reply that is pending.
LEMMA PieceReplies ==
    ASSUME ExchangeTypes, WriterInv, Plain \/ Pending \/ Ended, WritePiece, pc' = "reply"
    PROVE  Plain' \/ Pending' \/ Ended'
  <1> DEFINE w == Head(todo).w
             words == Head(todo).words
             n == Len(words)
             all == Total(chain.writable)
  <1>1. /\ Lands(w, words) /\ w \in DOMAIN writers /\ todo \in Seq(Pieces) /\ todo # <<>> /\ n \in Nat
    BY PieceLands
  <1>2. /\ result' = n => todo' = Tail(todo)
        /\ result' # n => w = "data_writer" /\ todo' = ReplyError
        /\ request' = request
    BY DEF WritePiece, Goto, Dies
  <1>3. /\ chain' = chain /\ DOMAIN writers' = DOMAIN writers
        /\ \A v \in DOMAIN writers \ {w} : writers'[v] = writers[v]
    BY <1>1 DEF Lands
  <1>4. SplitOff' = SplitOff /\ "w" \in DOMAIN writers
    BY <1>3 DEF SplitOff, ExchangeTypes
  <1> HIDE DEF w, words, n
  <1>5. CASE Plain
    <2>1. PICK kind \in {"ok", "error"}, len \in Nat :
             /\ len >= 2 /\ (kind = "error" => len = 2)
             /\ kind = "ok" => len = Kernel(request.op, request.size)[2]
             /\ Continues(todo, "w", Reached("w"), len, kind, len)
             /\ Written(1, Reached("w"), kind, len)
      BY <1>5 DEF Plain
    <2>2. /\ w = "w" /\ \A j \in 1 .. n : words[j] = WordAt(kind, len, Reached("w") + j)
          /\ Continues(Tail(todo), "w", Reached("w") + n, len, kind, len)
      BY <1>1, <2>1, ContinuesTail DEF w, words, n
    <2>3. result' = n /\ todo' = Tail(todo)
      BY <1>2, <2>2
    <2>4. /\ Reached("w")' = Reached("w") + n
          /\ \A k \in 1 .. (Reached("w") + n) : Area'[k] = WordAt(kind, len, k)
      BY <1>1, <2>1, <2>2, <2>3, WrittenGrows DEF n
    <2>5. Continues(todo, "w", Reached("w"), len, kind, len)'
      <3>1. Continues(todo', "w", Reached("w")', len, kind, len)
        BY <2>2, <2>3, <2>4
      <3> QED
        BY <3>1 DEF Continues, WordAt
    <2>6. Written(1, Reached("w"), kind, len)'
      BY <2>4 DEF Written, WordAt
    <2>7. ~SplitOff'
      BY <1>4, <1>5 DEF Plain
    <2>8. Plain'
      BY <1>2, <2>1, <2>5, <2>6, <2>7 DEF Plain
    <2> QED
      BY <2>8
  <1>6. CASE Pending /\ todo = ReplyError
    <2>1. Head(todo) = Piece("w", Header("error", 2)) /\ Tail(todo) = <<>>
      BY <1>6 DEF ReplyError, SizeOutHeader
    <2>2. w = "w" /\ words = Header("error", 2)
      BY <2>1 DEF w, words, Piece
    <2>3. SplitOff /\ writers["w"].bytes_consumed = 0
      BY <1>6 DEF Pending
    <2>4. writers'["w"].bytes_consumed = 2 /\ Area'[1] = <<"error", 2>> /\ 2 <= all
      BY <1>1, <2>2, <2>3, HeaderEnds
    <2>5. todo' = <<>>
      BY <1>2, <2>1, <2>2
    <2>6. 2 \in 2 .. Total(chain.writable)'
      <3>1. all \in Nat
        BY <1>1, PartFacts
      <3> QED
        BY <1>3, <2>4, <3>1
    <2>7. Written(3, 2, "error", 2)'
      BY DEF Written
    <2>8. Ended'
      BY <1>4, <2>3, <2>4, <2>5, <2>6, <2>7 DEF Ended
    <2> QED
      BY <2>8
  <1>7. ASSUME Pending, NEW len \in Nat, Behind(todo, Reached("data_writer"), len),
               Written(3, Reached("data_writer"), "ok", len)
        PROVE  Plain' \/ Pending' \/ Ended'
    <2> DEFINE at == Reached("data_writer")
    <2>1. SplitOff /\ "data_writer" \in DOMAIN writers /\ writers["w"].bytes_consumed = 0
      BY <1>7 DEF Pending, SplitOff
    <2>2. CASE at = len /\ Head(todo) = Piece("w", Header("ok", len)) /\ Tail(todo) = <<>>
      <3>1. w = "w" /\ words = Header("ok", len)
        BY <2>2 DEF w, words, Piece
      <3>2. /\ writers'["w"].bytes_consumed = 2 /\ Area'[1] = <<"ok", len>>
            /\ \A k \in 3 .. all : Area'[k] = Area[k]
        BY <1>1, <2>1, <3>1, HeaderEnds
      <3>3. todo' = <<>>
        BY <1>2, <2>2, <3>1
      <3>4. len \in 2 .. all /\ all \in Nat
        <4>1. /\ PlacedIn(writers["data_writer"], Part("data_writer"))
              /\ writers["data_writer"] \in Consumers /\ PartStart("data_writer") = 2
          BY <2>1 DEF WriterInv, ExchangeTypes, PartStart, SizeOutHeader
        <4>2. /\ Part("data_writer") \in Seq(Slices) /\ Total(Part("data_writer")) \in Nat /\ all \in Nat
              /\ 2 + Total(Part("data_writer")) <= all
          BY <2>1, <4>1, PartFacts
        <4>3. /\ writers["data_writer"].bytes_consumed \in Nat
              /\ writers["data_writer"].bytes_consumed <= Total(Part("data_writer"))
          <5>1. writers["data_writer"].bytes_consumed \in Nat /\ writers["data_writer"].buffers \in Seq(Slices)
            BY <4>1 DEF Consumers
          <5>2. Total(writers["data_writer"].buffers) \in Nat
            BY <5>1, TotalFacts
          <5> QED
            BY <4>1, <4>2, <5>1, <5>2 DEF PlacedIn
        <4>4. len = 2 + writers["data_writer"].bytes_consumed
          BY <2>2, <4>1 DEF Reached
        <4> QED
          BY <4>2, <4>3, <4>4
      <3>5. Written(3, len, "ok", len)'
        <4>1. \A k \in 3 .. len : k \in 3 .. all /\ Area[k] = WordAt("ok", len, k)
          BY <1>7, <2>2, <3>4 DEF Written
        <4>2. \A k \in 3 .. len : Area'[k] = WordAt("ok", len, k)
          BY <3>2, <4>1
        <4> QED
          BY <4>2 DEF Written, WordAt
      <3>6. len \in 2 .. Total(chain.writable)'
        BY <1>3, <3>4
      <3>7. Ended'
        BY <1>4, <2>1, <3>2, <3>3, <3>5, <3>6 DEF Ended
      <3> QED
        BY <3>7
    <2>3. CASE /\ Head(todo).w = "data_writer" /\ at \in Nat
               /\ \A j \in 1 .. Len(Head(todo).words) : Head(todo).words[j] = WordAt("ok", len, at + j)
               /\ Behind(Tail(todo), at + Len(Head(todo).words), len)
      <3>1. /\ w = "data_writer" /\ \A j \in 1 .. n : words[j] = WordAt("ok", len, at + j)
            /\ Behind(Tail(todo), at + n, len)
        BY <2>3 DEF w, words, n
      <3>2. writers'["w"].bytes_consumed = 0
        BY <1>3, <1>4, <2>1, <3>1
      <3>3. CASE result' # n
        <4>1. todo' = ReplyError
          BY <1>2, <3>3
        <4>2. Pending'
          BY <1>4, <2>1, <3>2, <4>1 DEF Pending, ReplyError, Piece, Header
        <4> QED
          BY <4>2
      <3>4. CASE result' = n
        <4>1. todo' = Tail(todo)
          BY <1>2, <3>4
        <4>2. /\ Reached("data_writer")' = at + n
              /\ \A k \in 3 .. (at + n) : Area'[k] = WordAt("ok", len, k)
          BY <1>1, <1>7, <3>1, <3>4, WrittenGrows DEF n
        <4>3. Behind(todo, Reached("data_writer"), len)'
          <5>1. Behind(todo', Reached("data_writer")', len)
            BY <3>1, <4>1, <4>2
          <5> QED
            BY <5>1 DEF Behind, Continues, WordAt, Piece, Header
        <4>4. Written(3, Reached("data_writer"), "ok", len)'
          BY <4>2 DEF Written, WordAt
        <4>5. Pending'
          BY <1>4, <2>1, <3>2, <4>3, <4>4 DEF Pending
        <4> QED
          BY <4>5
      <3> QED
        BY <3>3, <3>4
    <2> QED
      BY <1>7, <2>2, <2>3, BehindTail
  <1>8. CASE Ended
    BY <1>1, <1>8 DEF Ended
  <1> QED
    BY <1>5, <1>6, <1>7, <1>8 DEF Pending

\* The data of a READ, which comes before its header.
LEMMA DataReplies ==
    ASSUME ExchangeTypes, WriterInv, ReplyInv, InRoom, SendData
    PROVE  Pending'
  <1>1. PICK rest \in Rests : /\ WriteFromAt("data_writer", Body(0, rest))
                              /\ todo' = <<Piece("w", Header("ok", SizeOutHeader + rest))>>
    BY DEF SendData, Goto
  <1> DEFINE c == writers["data_writer"]
             data == Body(0, rest)
             all == Total(chain.writable)
             len == 2 + rest
  <1>2. /\ pc = "data" /\ request.op = "read" /\ rest \in Nat /\ rest <= request.size /\ request.size \in Nat
        /\ all = 2 + request.size
    <2>1. pc = "data"
      BY DEF SendData
    <2>2. request.op = "read"
      BY <2>1 DEF ReplyInv
    <2>3. rest \in Nat
      BY ExchangeAssumption
    <2> QED
      BY <2>1, <2>2, <2>3 DEF InRoom, SizeOutHeader, ExchangeTypes
  <1>3. data \in Seq(Data) /\ Len(data) = rest
    BY <1>2, BodyFacts
  <1>4. DOMAIN writers = {"w", "data_writer"} /\ SplitOff
    BY <1>2 DEF ExchangeTypes, SplitOff
  <1>5. Lands("data_writer", data)
    BY <1>1, <1>2, <1>3, DataLands
  <1>6. c.bytes_consumed = 0 /\ writers["w"].bytes_consumed = 0
    BY <1>2, <1>4 DEF WriterInv, Consumer
  <1>7. Reached("data_writer") = 2 /\ PartStart("data_writer") = 2
    BY <1>6 DEF Reached, PartStart, SizeOutHeader
  <1>8. Total(Part("data_writer")) = all - 2 /\ c \in Consumers
    BY <1>4, PartFacts DEF SizeOutHeader
  <1>9. Total(c.buffers) \in Nat
    BY <1>8, TotalFacts DEF Consumers
  <1>10. result' = rest /\ DOMAIN writers' = DOMAIN writers /\ writers'["w"] = writers["w"]
    <2>1. result' = Least(Len(data), Total(c.buffers)) /\ 2 + Total(Part("data_writer")) = 2 + Total(c.buffers)
      BY <1>5, <1>7 DEF Lands
    <2> HIDE DEF c, data, all
    <2>2. rest <= Total(c.buffers)
      BY <1>2, <1>8, <1>9, <2>1
    <2>3. result' = rest
      BY <1>2, <1>3, <1>9, <2>1, <2>2 DEF Least
    <2>4. DOMAIN writers' = DOMAIN writers /\ writers'["w"] = writers["w"]
      BY <1>4, <1>5 DEF Lands, data
    <2> QED
      BY <2>3, <2>4
  <1>11. len \in Nat
    BY <1>2
  <1>12. \A j \in 1 .. Len(data) : data[j] = WordAt("ok", len, Reached("data_writer") + j)
    <2> SUFFICES ASSUME NEW j \in 1 .. rest PROVE data[j] = WordAt("ok", len, 2 + j)
      BY <1>3, <1>7
    <2>1. data[j] = WordAt("ok", len, (2 + 0) + j)
      BY <1>2, BodyWords
    <2>2. 2 + 0 = 2
      OBVIOUS
    <2> QED
      BY <2>1, <2>2
  <1> HIDE DEF data, len, c, all
  <1>13. Written(3, Reached("data_writer"), "ok", len)
    <2>1. 3 .. 2 = {}
      OBVIOUS
    <2> QED
      BY <1>7, <2>1 DEF Written
  <1>14. /\ Reached("data_writer")' = 2 + rest
         /\ \A k \in 3 .. (2 + rest) : Area'[k] = WordAt("ok", len, k)
    <2>1. "data_writer" \in DOMAIN writers /\ Len(data) \in Nat /\ 3 \in Nat /\ 1 <= 3
      BY <1>2, <1>3, <1>4
    <2> QED
      BY <1>5, <1>7, <1>10, <1>12, <1>13, <2>1, WrittenGrows
  <1>15. Behind(todo', Reached("data_writer")', len)
    <2> DEFINE none == <<>>
               last == <<Piece("w", Header("ok", len))>>
    <2>1. todo' = last
      BY <1>1 DEF SizeOutHeader, len
    <2>2. Reached("data_writer")' = len
      BY <1>14 DEF len
    <2>3. Continues(none, "data_writer", len, len, "ok", len)
      BY <1>11, ContinuesNone
    <2>4. none \in Seq(Pieces) /\ last = none \o last
      OBVIOUS
    <2> HIDE DEF none
    <2> QED
      BY <2>1, <2>2, <2>3, <2>4 DEF Behind
  <1>16. Behind(todo, Reached("data_writer"), len)'
    BY <1>15 DEF Behind, Continues, WordAt, Piece, Header
  <1>17. Written(3, Reached("data_writer"), "ok", len)'
    BY <1>14 DEF Written, WordAt
  <1>18. SplitOff' /\ writers'["w"].bytes_consumed = 0
    BY <1>4, <1>6, <1>10 DEF SplitOff
  <1> QED
    BY <1>11, <1>16, <1>17, <1>18 DEF Pending

\* A reply without pending pieces is whole.
LEMMA ReplyReturns ==
    ASSUME ExchangeTypes, WriterInv, Plain \/ Pending \/ Ended, Return
    PROVE  /\ Area[1] \in {"ok", "error"} \X {returned'}
           /\ returned' \in 2 .. Len(Area)
           /\ \A k \in 3 .. returned' : Area[k] = <<"body", k - 2>>
           /\ ~SplitOff => Area[1] = <<"error", SizeOutHeader>> \/ returned' = Len(Area)
  <1> DEFINE all == Total(chain.writable)
             back == writers["w"].bytes_consumed
  <1>1. /\ pc = "reply" /\ todo = <<>>
        /\ returned' = IF SplitOff /\ Area[1][1] = "ok" THEN Area[1][2] ELSE back
    BY DEF Return, SplitOff
  <1>2. Len(Area) = all /\ all \in Nat
    BY ContentsFacts DEF Area, ExchangeTypes
  <1>3. "w" \in DOMAIN writers /\ writers["w"] \in Consumers
    BY DEF ExchangeTypes
  <1>4. back \in Nat /\ Reached("w") = back
    BY <1>3 DEF Consumers, Reached, PartStart
  <1>5. \A kind, len : \A k \in 3 .. len : WordAt(kind, len, k) = <<"body", k - 2>>
    BY DEF WordAt
  <1> HIDE DEF back, all
  <1>6. CASE Plain
    <2>1. PICK kind \in {"ok", "error"}, len \in Nat :
             /\ len >= 2 /\ (kind = "error" => len = 2)
             /\ kind = "ok" => len = Kernel(request.op, request.size)[2]
             /\ Continues(todo, "w", Reached("w"), len, kind, len)
             /\ Written(1, Reached("w"), kind, len)
      BY <1>6 DEF Plain
    <2>2. back = len
      BY <1>1, <1>4, <2>1, ContinuesNone
    <2>3. ~SplitOff /\ returned' = len
      BY <1>1, <1>6, <2>2 DEF Plain
    <2>4. len <= all
      <3>1. Part("w") = chain.writable /\ PlacedIn(writers["w"], Part("w"))
        BY <1>3, <2>3 DEF Part, WriterInv
      <3>2. Total(writers["w"].buffers) \in Nat
        BY <1>3, TotalFacts DEF Consumers
      <3> QED
        BY <1>2, <1>4, <2>2, <3>1, <3>2 DEF PlacedIn, back, all
    <2>5. \A k \in 1 .. len : Area[k] = WordAt(kind, len, k)
      BY <1>4, <2>1, <2>2 DEF Written
    <2>6. Area[1] = <<kind, len>> /\ \A k \in 3 .. len : Area[k] = <<"body", k - 2>>
      <3>1. 1 \in 1 .. len /\ \A k \in 3 .. len : k \in 1 .. len
        BY <2>1
      <3>2. WordAt(kind, len, 1) = <<kind, len>>
        BY DEF WordAt
      <3> QED
        BY <1>5, <2>5, <3>1, <3>2
    <2>7. kind = "ok" => len = all
      <3>1. all <= Kernel(request.op, request.size)[2]
        BY DEF WriterInv, all
      <3> QED
        BY <1>2, <2>1, <2>4, <3>1
    <2>8. Area[1] = <<"error", SizeOutHeader>> \/ returned' = Len(Area)
      BY <1>2, <2>1, <2>3, <2>6, <2>7 DEF SizeOutHeader
    <2>9. returned' \in 2 .. Len(Area)
      BY <1>2, <2>1, <2>3, <2>4
    <2>10. Area[1] \in {"ok", "error"} \X {returned'}
      BY <2>1, <2>3, <2>6
    <2> QED
      BY <2>3, <2>6, <2>8, <2>9, <2>10
  <1>7. CASE Pending
    <2>1. todo # ReplyError
      BY <1>1 DEF ReplyError
    <2>2. PICK len \in Nat : Behind(todo, Reached("data_writer"), len)
      BY <1>7, <2>1 DEF Pending
    <2> DEFINE last == Piece("w", Header("ok", len))
    <2>3. PICK body \in Seq(Pieces) : todo = body \o <<last>>
      BY <2>2 DEF Behind
    <2> HIDE DEF last
    <2>4. Len(body \o <<last>>) = Len(body) + 1 /\ Len(body) \in Nat
      OBVIOUS
    <2> QED
      BY <1>1, <2>3, <2>4
  <1>8. CASE Ended
    <2>1. PICK kind \in {"ok", "error"}, len \in 2 .. Total(chain.writable) :
             /\ kind = "error" => len = 2
             /\ Area[1] = <<kind, len>> /\ Written(3, len, kind, len)
      BY <1>8 DEF Ended
    <2>2. SplitOff /\ back = 2
      BY <1>8 DEF Ended, back
    <2>3. returned' = len
      BY <1>1, <2>1, <2>2
    <2>4. \A k \in 3 .. len : Area[k] = <<"body", k - 2>>
      BY <1>5, <2>1 DEF Written
    <2>5. Area[1] \in {"ok", "error"} \X {returned'}
      BY <2>1, <2>3
    <2>6. returned' \in 2 .. Len(Area)
      BY <1>2, <2>1, <2>3 DEF all
    <2> QED
      BY <2>2, <2>3, <2>4, <2>5, <2>6
  <1> QED
    BY <1>6, <1>7, <1>8

LEMMA ReplyStarts == ExchangeInit => ReplyInv /\ DoneInv
  <1> SUFFICES ASSUME ExchangeInit PROVE ReplyInv /\ DoneInv
    OBVIOUS
  <1>1. pc = "header" /\ DOMAIN writers = {"w"}
    BY DEF ExchangeInit, ChainOf
  <1> QED
    BY <1>1 DEF ReplyInv, DoneInv, Replied, SplitOff

LEMMA ReplySteps ==
    ASSUME ExchangeTypes, WriterInv, ReplyInv, DoneInv, [ExchangeNext]_xvars
    PROVE  ReplyInv' /\ DoneInv'
  <1>1. ASSUME pc' \notin {"reply", "done"}, request' = request, pc' = "data" => request.op = "read",
               DOMAIN writers' = DOMAIN writers \/ request.op \in {"read", "readdir"}
        PROVE  ReplyInv' /\ DoneInv'
    <2>1. SplitOff' => request.op \in {"read", "readdir"}
      BY <1>1 DEF SplitOff, ReplyInv
    <2> QED
      BY <1>1, <2>1 DEF ReplyInv, DoneInv, Replied
  <1>2. ASSUME pc' = "reply", chain' = chain, request' = request, DOMAIN writers' = DOMAIN writers,
               InRoom => Plain' \/ Pending' \/ Ended'
        PROVE  ReplyInv' /\ DoneInv'
    <2>1. InRoom' = InRoom /\ SplitOff' = SplitOff
      BY <1>2 DEF InRoom, SplitOff
    <2> QED
      BY <1>2, <2>1 DEF ReplyInv, DoneInv, Replied
  <1>3. CASE UNCHANGED xvars
    <2>1. /\ chain' = chain /\ mem' = mem /\ writers' = writers /\ request' = request /\ pc' = pc
          /\ todo' = todo /\ returned' = returned
      BY <1>3 DEF xvars, dvars, evars
    <2>2. InRoom' = InRoom /\ SplitOff' = SplitOff /\ Area' = Area /\ Replied' = Replied
      BY <2>1 DEF InRoom, SplitOff, Area, Contents, Replied
    <2>3. \A w : Reached(w)' = Reached(w)
      BY <2>1 DEF Reached, PartStart
    <2>4. Plain => Plain'
      <3> SUFFICES ASSUME Plain PROVE Plain'
        OBVIOUS
      <3>1. PICK kind \in {"ok", "error"}, len \in Nat :
               /\ len >= 2 /\ (kind = "error" => len = 2)
               /\ kind = "ok" => len = Kernel(request.op, request.size)[2]
               /\ Continues(todo, "w", Reached("w"), len, kind, len)
               /\ Written(1, Reached("w"), kind, len)
        BY DEF Plain
      <3>2. Continues(todo, "w", Reached("w"), len, kind, len)'
        BY <2>1, <2>3, <3>1 DEF Continues, WordAt
      <3>3. Written(1, Reached("w"), kind, len)'
        BY <2>2, <2>3, <3>1 DEF Written, WordAt
      <3> QED
        BY <2>1, <2>2, <3>1, <3>2, <3>3 DEF Plain
    <2>5. Pending' = Pending
      BY <2>1, <2>2, <2>3 DEF Pending, Behind, Continues, Written, WordAt
    <2>6. Ended' = Ended
      BY <2>1, <2>2 DEF Ended, Written, WordAt
    <2>7. ReplyInv'
      BY <2>1, <2>2, <2>4, <2>5, <2>6 DEF ReplyInv
    <2>8. DoneInv'
      BY <2>1, <2>2 DEF DoneInv
    <2> QED
      BY <2>7, <2>8
  <1>4. CASE ReadHeader
    <2>1. /\ chain' = chain /\ request' = request /\ writers' = writers
          /\ pc' \in {"dead", "reply", "args"}
      BY <1>4 DEF ReadHeader, Read, Deliver, Dies, Goto
    <2>2. CASE pc' = "reply"
      BY <1>2, <1>4, <2>1, <2>2, ReplyBegins
    <2>3. CASE pc' # "reply"
      BY <1>1, <2>1, <2>3
    <2> QED
      BY <2>2, <2>3
  <1>5. CASE ReadArgument \/ TakePayload
    <2>1. /\ request' = request /\ writers' = writers /\ pc' \in {"args", "stored", "dead"}
      BY <1>5 DEF ReadArgument, TakePayload, Read, ReadToAt, Deliver, Dies, Goto
    <2> QED
      BY <1>1, <2>1
  <1>6. CASE Refused \/ Accepted \/ SendListing
    <2>1. chain' = chain /\ request' = request /\ writers' = writers /\ pc' = "reply"
      BY <1>6 DEF Refused, Accepted, SendListing, Step, Goto, dvars
    <2> QED
      BY <1>2, <1>6, <2>1, ReplyBegins
  <1>7. CASE Silent
    <2>1. request' = request /\ writers' = writers /\ pc' = "done" /\ request.op \in {"forget", "destroy"}
      BY <1>7 DEF Silent, Step, Goto, dvars
    <2> QED
      BY <2>1 DEF ReplyInv, DoneInv, Replied, SplitOff
  <1>8. CASE SplitHeader
    <2>1. /\ request' = request /\ request.op \in {"read", "readdir"} /\ pc' \in {"data", "list", "dead"}
          /\ pc' = "data" => request.op = "read"
      BY <1>8 DEF SplitHeader, Goto, Dies
    <2> QED
      BY <1>1, <2>1
  <1>9. CASE SendData
    <2>1. pc' = "reply" /\ request' = request /\ chain' = chain /\ DOMAIN writers' = DOMAIN writers
      BY <1>9 DEF SendData, Goto, WriteFromAt, Place
    <2> QED
      BY <1>2, <1>9, <2>1, DataReplies
  <1>10. CASE WritePiece
    <2>1. /\ request' = request /\ chain' = chain /\ DOMAIN writers' = DOMAIN writers
          /\ pc' \in {"reply", "dead"} /\ pc = "reply"
      BY <1>10 DEF WritePiece, Goto, Dies, Write, Place
    <2>2. CASE pc' = "reply"
      BY <1>2, <1>10, <2>1, <2>2, PieceReplies DEF ReplyInv
    <2>3. CASE pc' # "reply"
      BY <1>1, <2>1, <2>3
    <2> QED
      BY <2>2, <2>3
  <1>11. CASE Return
    <2>1. /\ chain' = chain /\ mem' = mem /\ writers' = writers /\ request' = request /\ pc = "reply"
          /\ pc' = "done"
      BY <1>11 DEF Return, Goto, dvars
    <2>2. InRoom' = InRoom /\ SplitOff' = SplitOff /\ Area' = Area
      BY <2>1 DEF InRoom, SplitOff, Area, Contents
    <2>3. ReplyInv'
      BY <2>1, <2>2 DEF ReplyInv
    <2>4. DoneInv'
      <3> SUFFICES ASSUME InRoom
                   PROVE  /\ Area[1] \in {"ok", "error"} \X {returned'}
                          /\ returned' \in 2 .. Len(Area)
                          /\ \A k \in 3 .. returned' : Area[k] = <<"body", k - 2>>
                          /\ request.op \notin {"read", "readdir"} =>
                               Area[1] = <<"error", SizeOutHeader>> \/ returned' = Len(Area)
        BY <2>1, <2>2 DEF DoneInv, SizeOutHeader
      <3>1. Plain \/ Pending \/ Ended
        BY <2>1 DEF ReplyInv
      <3>2. request.op \notin {"read", "readdir"} => ~SplitOff
        BY DEF ReplyInv
      <3> QED
        BY <1>11, <3>1, <3>2, ReplyReturns
    <2> QED
      BY <2>3, <2>4
  <1>12. CASE Over
    BY <1>3, <1>12 DEF Over
  <1> QED
    BY <1>3, <1>4, <1>5, <1>6, <1>7, <1>8, <1>9, <1>10, <1>11, <1>12 DEF ExchangeNext

LEMMA RepliesInvariant ==
    ExchangeSpec => [](ExchangeTypes /\ RoomInv /\ WriterInv /\ ReplyInv /\ DoneInv)
  <1>1. ExchangeInit => ExchangeTypes /\ RoomInv /\ WriterInv /\ ReplyInv /\ DoneInv
    BY ExchangeStarts, WriterStarts, ReplyStarts
  <1>2. ExchangeTypes /\ RoomInv /\ WriterInv /\ ReplyInv /\ DoneInv /\ [ExchangeNext]_xvars
          => (ExchangeTypes /\ RoomInv /\ WriterInv /\ ReplyInv /\ DoneInv)'
    BY ExchangeSteps, WriterSteps, ReplySteps
  <1> QED
    BY <1>1, <1>2, PTL DEF ExchangeSpec

(* A successful reply of a fixed size fills the room the kernel made for it and an
   error is a header only, wherever the chain is cut, one too short for the request
   or its reply included. *)
THEOREM ReplyIsComplete == ExchangeSpec => []ReplyComplete
  <1>1. ExchangeTypes /\ RoomInv /\ WriterInv /\ ReplyInv /\ DoneInv => ReplyComplete
    BY DEF DoneInv, ReplyComplete, InRoom
  <1> QED
    BY <1>1, RepliesInvariant, PTL

(* What goes back to the ring is a whole reply: the header first, with the length
   that add_used reports, and behind it all the words it announces, in order and
   inside the area, although the data of READ and READDIR is written before the
   header and by another writer.  Files hold no more behind an offset than a READ
   asks for; what a longer one does is shown by a run. *)
THEOREM ReplyIsInPlace ==
    ASSUME \A rest \in Rests, size \in Sizes : rest <= size
    PROVE  ExchangeSpec => []ReplyInPlace
  <1>1. ExchangeTypes /\ RoomInv /\ WriterInv /\ ReplyInv /\ DoneInv => ReplyInPlace
    <2> SUFFICES ASSUME WriterInv, DoneInv, Replied,
                        request.op = "read" => Total(chain.writable) = SizeOutHeader + request.size
                 PROVE  /\ Area[1] \in {"ok", "error"} \X {returned}
                        /\ returned \in 2 .. Len(Area)
                        /\ \A k \in 3 .. returned : Area[k] = <<"body", k - 2>>
      BY DEF ReplyInPlace
    <2>1. request.op = "read" => \A rest \in Rests : rest <= request.size
      BY DEF WriterInv
    <2>2. InRoom
      BY <2>1 DEF InRoom
    <2> QED
      BY <2>2 DEF DoneInv
  <1> QED
    BY <1>1, RepliesInvariant, PTL

=============================================================================
