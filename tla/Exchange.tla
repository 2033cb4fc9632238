------------------------------ MODULE Exchange ------------------------------
(***************************************************************************)
(* One request and its reply on the wire: handle_message and the handlers  *)
(* of src/src/filesystem.rs as the calls they make on the Reader and the   *)
(* Writer of a descriptor chain, with the record sizes of                  *)
(* src/src/filesystem_message.rs.  What a handler does to the server's     *)
(* tables is module Filesystem; here only its outcome is chosen.           *)
(*                                                                         *)
(* Sizes are in words of 8 bytes, the alignment of every record; a name    *)
(* with its terminator or padding is one word.  The contents of a request  *)
(* are the variable request; its words in memory are numbered.             *)
(***************************************************************************)
EXTENDS DescriptorChain

CONSTANTS
    MaxLen,      \* the longest request accepted, in words
    Truncated,   \* TRUE: chains may be shorter than the request's header says
    Sizes,       \* the sizes READ, READDIR and WRITE ask for
    Rests,       \* how much of a file may lie behind a READ's offset
    Counts       \* how many entries a directory may have

ASSUME ExchangeAssumption ==
    Truncated \in BOOLEAN /\ MaxLen \in Nat /\ Sizes \cup Rests \cup Counts \subseteq Nat

VARIABLES
    request,   \* opcode and size of the request
    pc,        \* what the handler does next
    todo,      \* the reads, and later the writes, still to be made
    handed,    \* the words passed to do_write
    returned   \* the length handle_message returns, for add_used

evars == <<request, pc, todo, handed, returned>>
xvars == <<dvars, evars>>

-----------------------------------------------------------------------------
(* Sizes of the records.                                                   *)

SizeAttr == 11
SizeInHeader == 5
SizeOutHeader == 2
SizeInitIn == 2
SizeInitOut == 8
SizeAttrOut == 2 + SizeAttr
SizeEntryOut == 5 + SizeAttr
SizeDirEntryOut == 3
SizeCreateIn == 2
SizeMkdirIn == 1
SizeOpenIn == 1
SizeOpenOut == 2
SizeWriteIn_Short == 4
SizeWriteIn == 5
SizeWriteOut == 1
SizeReadIn == 5
SizeName == 1

Opcodes == {"lookup", "forget", "getattr", "setattr", "mkdir", "unlink", "rmdir", "open",
            "read", "write", "release", "flush", "init", "opendir", "readdir", "releasedir",
            "fsyncdir", "create", "destroy"}

-----------------------------------------------------------------------------
(* The guest kernel: what it sends after the header, and the room it gives *)
(* the reply.  statfs stands for the opcodes the server does not know.     *)

Kernel(op, size) ==
    CASE op \in {"lookup"}               -> <<SizeName, 2 + 16>>
      [] op \in {"unlink", "rmdir"}      -> <<SizeName, 2>>
      [] op = "forget"                   -> <<1, 0>>
      [] op = "getattr"                  -> <<2, 2 + 13>>
      [] op = "setattr"                  -> <<11, 2 + 13>>
      [] op = "mkdir"                    -> <<1 + SizeName, 2 + 16>>
      [] op = "create"                   -> <<2 + SizeName, 2 + 16 + 2>>
      [] op \in {"open", "opendir"}      -> <<1, 2 + 2>>
      [] op \in {"read", "readdir"}      -> <<5, 2 + size>>
      [] op = "write"                    -> <<5 + size, 2 + 1>>
      [] op \in {"release", "releasedir", "flush"} -> <<3, 2>>
      [] op = "fsyncdir"                 -> <<2, 2>>
      [] op = "init"                     -> <<8, 2 + 8>>
      [] op = "destroy"                  -> <<0, 2>>
      [] op = "statfs"                   -> <<0, 2 + 10>>

Sized == {"read", "readdir", "write"}

\* The ways to lay n words out: one slice, or cut in two anywhere.
Slicings(n) == IF n = 0 THEN {<<>>} ELSE {<<n>>} \cup {<<k, n - k>> : k \in 1 .. (n - 1)}
Layouts(n) == Slicings(n) \cup IF Truncated THEN {<<>>} \cup {<<k>> : k \in 1 .. n} ELSE {}

ExchangeInit ==
    /\ \E op \in Opcodes \cup {"statfs"} : \E size \in IF op \in Sized THEN Sizes ELSE {0} :
         LET k == Kernel(op, size)
         IN  /\ request = [op |-> op, len |-> SizeInHeader + k[1], size |-> size]
             /\ \E readable \in Layouts(SizeInHeader + k[1]), writable \in Layouts(k[2]) :
                  ChainOf(readable, writable)
    /\ pc = "header" /\ todo = <<>> /\ handed = <<>> /\ returned = 0

-----------------------------------------------------------------------------
(* Replies: what is still to be written, and by which writer.  Words of a  *)
(* reply's body are numbered.                                              *)

Header(kind, len) == <<<<kind, len>>, <<"unique", 0>>>>
Body(from, n) == [k \in 1 .. n |-> <<"body", from + k>>]
Piece(w, words) == [w |-> w, words |-> words]

ReplyError == <<Piece("w", Header("error", SizeOutHeader))>>
\* reply_ok of records of the given sizes.
ReplyOk(sizes) ==
    <<Piece("w", Header("ok", SizeOutHeader + Sum(sizes)))>>
    \o [i \in DOMAIN sizes |-> Piece("w", Body(Sum(SubSeq(sizes, 1, i - 1)), sizes[i]))]

\* The records of a successful reply.
OutRecords_NoOpenOut(op) ==
    CASE op \in {"lookup", "mkdir", "create"} -> <<SizeEntryOut>>
      [] op \in {"getattr", "setattr"} -> <<SizeAttrOut>>
      [] op \in {"open", "opendir"} -> <<SizeOpenOut>>
      [] op = "init" -> <<SizeInitOut>>
      [] op = "write" -> <<SizeWriteOut>>
      [] OTHER -> <<>>
OutRecords(op) ==
    CASE op \in {"lookup", "mkdir"} -> <<SizeEntryOut>>
      [] op = "create" -> <<SizeEntryOut, SizeOpenOut>>
      [] op \in {"getattr", "setattr"} -> <<SizeAttrOut>>
      [] op \in {"open", "opendir"} -> <<SizeOpenOut>>
      [] op = "init" -> <<SizeInitOut>>
      [] op = "write" -> <<SizeWriteOut>>
      [] OTHER -> <<>>

\* readdir's entries, record and name, and then its header.
Entry(i) ==
    LET at == (i - 1) * (SizeDirEntryOut + SizeName)
    IN  <<Piece("data_writer", Body(at, SizeDirEntryOut)),
          Piece("data_writer", Body(at + SizeDirEntryOut, SizeName))>>
ReplyListing(n) ==
    [k \in 1 .. (2 * n) |-> Entry((k + 1) \div 2)[IF k % 2 = 1 THEN 1 ELSE 2]]
    \o <<Piece("w", Header("ok", SizeOutHeader + n * (SizeDirEntryOut + SizeName)))>>

-----------------------------------------------------------------------------
(* handle_message.                                                         *)

Goto(label, steps) == pc' = label /\ todo' = steps
Dies == Goto("dead", <<>>)

\* What a handler reads: its record and the name behind it.
NameLen_NoFixed(fixed) == request.len - SizeInHeader
NameLen(fixed) == request.len - SizeInHeader - fixed
Reads(op) ==
    CASE op \in {"lookup", "unlink", "rmdir"} -> <<NameLen(0)>>
      [] op = "create" -> <<SizeCreateIn, NameLen(SizeCreateIn)>>
      [] op = "mkdir" -> <<SizeMkdirIn, NameLen(SizeMkdirIn)>>
      [] op = "init" -> <<SizeInitIn>>
      [] op = "open" -> <<SizeOpenIn>>
      [] op \in {"read", "readdir"} -> <<SizeReadIn>>
      [] op = "write" -> <<SizeWriteIn>>
      [] OTHER -> <<>>

\* A request too short for its header, an oversized or unknown one, or a handler.
ReadHeader ==
    /\ pc = "header"
    /\ Read(SizeInHeader)
    /\ IF result' < SizeInHeader THEN Dies
       ELSE IF request.len > MaxLen \/ request.op \notin Opcodes THEN Goto("reply", ReplyError)
       ELSE Goto("args", Reads(request.op))
    /\ UNCHANGED <<request, handed, returned>>

\* read_obj and read_exact: too few words are an error, which ends the worker.
ReadArgument ==
    /\ pc = "args" /\ todo # <<>>
    /\ Read(Head(todo))
    /\ IF result' < Head(todo) THEN Dies ELSE Goto("args", Tail(todo))
    /\ UNCHANGED <<request, handed, returned>>

Step(label, steps) == Goto(label, steps) /\ UNCHANGED <<dvars, request, handed, returned>>

\* An unresolved nodeid, a malformed name, a wrong version or a failing service.
\* readdir looks the nodeid up before it reads its argument.
Refused ==
    \/ /\ pc = "args" /\ (todo = <<>>) = (request.op # "readdir")
       /\ request.op \notin {"forget", "destroy"}
       /\ Step("reply", ReplyError)
    \/ /\ pc \in {"stored", "list"}
       /\ Step("reply", ReplyError)

\* forget and destroy return at once.
Silent ==
    /\ pc = "args" /\ request.op \in {"forget", "destroy"}
    /\ Step("done", <<>>)

Accepted ==
    /\ \/ pc = "args" /\ todo = <<>> /\ request.op \notin Sized \cup {"forget", "destroy"}
       \/ pc = "stored"
    /\ Step("reply", ReplyOk(OutRecords(request.op)))

\* write: the payload goes to do_write, whose length is what the request said.
TakePayload ==
    /\ pc = "args" /\ todo = <<>> /\ request.op = "write"
    /\ ReadToAt(request.size)
    /\ handed' = SubSeq(taken', Len(taken) + 1, Len(taken'))
    /\ Goto("stored", <<>>)
    /\ UNCHANGED <<request, returned>>

\* read and readdir: the header's place is split off; unwrap.
SplitHeader ==
    /\ pc = "args" /\ todo = <<>> /\ request.op \in {"read", "readdir"}
    /\ \/ SplitAt(SizeOutHeader) /\ Goto(IF request.op = "read" THEN "data" ELSE "list", <<>>)
       \/ ~CanSplit(writers["w"], SizeOutHeader) /\ Dies /\ UNCHANGED dvars
    /\ UNCHANGED <<request, handed, returned>>

\* read: all the data there is, as far as it fits, and a header for all of it.
SendData ==
    /\ pc = "data"
    /\ \E rest \in Rests :
         /\ WriteFromAt("data_writer", Body(0, rest))
         /\ Goto("reply", <<Piece("w", Header("ok", SizeOutHeader + rest))>>)
    /\ UNCHANGED <<request, handed, returned>>

\* readdir: nothing from the end of the listing on, everything before.
SendListing ==
    /\ pc = "list"
    /\ \E n \in Counts \cup {0} : Step("reply", ReplyListing(n))

\* write_all; an entry that does not fit turns the reply into an error.
WritePiece_SkipsEntry ==
    /\ pc = "reply" /\ todo # <<>>
    /\ LET piece == Head(todo)
       IN  /\ Write(piece.w, piece.words)
           /\ IF result' = Len(piece.words) \/ piece.w = "data_writer"
              THEN Goto("reply", Tail(todo)) ELSE Dies
    /\ UNCHANGED <<request, handed, returned>>
WritePiece ==
    /\ pc = "reply" /\ todo # <<>>
    /\ LET piece == Head(todo)
       IN  /\ Write(piece.w, piece.words)
           /\ IF result' = Len(piece.words) THEN Goto("reply", Tail(todo))
              ELSE IF piece.w = "data_writer" THEN Goto("reply", ReplyError)
              ELSE Dies
    /\ UNCHANGED <<request, handed, returned>>

\* The length returned: what the writer wrote or, once split, what the header says.
Area == Contents(chain.writable)
Return ==
    /\ pc = "reply" /\ todo = <<>>
    /\ returned' = IF "data_writer" \in DOMAIN writers /\ Area[1][1] = "ok" THEN Area[1][2]
                   ELSE writers["w"].bytes_consumed
    /\ Goto("done", <<>>)
    /\ UNCHANGED <<dvars, request, handed>>

\* The chain goes back to the guest, or the worker is gone.
Over == pc \in {"done", "dead"} /\ UNCHANGED xvars

ExchangeNext ==
    \/ ReadHeader \/ ReadArgument \/ Refused \/ Silent \/ Accepted \/ TakePayload
    \/ SplitHeader \/ SendData \/ SendListing \/ WritePiece \/ Return \/ Over

ExchangeSpec == ExchangeInit /\ [][ExchangeNext]_xvars

-----------------------------------------------------------------------------

Replied == pc = "done" /\ request.op \notin {"forget", "destroy"}

(* The worker survives every request that is all there, with room for its reply, and
   so every request of the guest kernel: no record the server reads is longer than
   what was sent, no reply longer than the room, an overlong listing included,
   wherever the chain is cut. *)
Survives ==
    pc = "dead" =>
        \/ Total(chain.readable) < request.len
        \/ Total(chain.writable) < Kernel(request.op, request.size)[2]

(* What is returned to the ring is a whole reply: its header stands first, says the
   length that add_used reports, and all the words it announces lie behind it, in
   order and inside the area; data was written before the header was known.  (A READ
   whose chain lacks the room for the size it asks for is outside this.) *)
ReplyInPlace ==
    Replied /\ (request.op = "read" => Total(chain.writable) = SizeOutHeader + request.size) =>
        /\ Area[1] \in {"ok", "error"} \X {returned}
        /\ returned \in 2 .. Len(Area)
        /\ \A k \in 3 .. returned : Area[k] = <<"body", k - 2>>

(* A successful reply of a fixed size is exactly as long as the room the kernel made
   for it, an error is a header only. *)
ReplyComplete ==
    Replied =>
        \/ Area[1] = <<"error", SizeOutHeader>>
        \/ request.op \in {"read", "readdir"}
        \/ returned = Len(Area)

(* The words do_write gets are the size the reply acknowledges: all of the payload,
   nothing before and nothing behind it, although consume takes whole slices.  (A
   chain that ends before its payload is outside this.) *)
PayloadExact ==
    pc = "stored" /\ Total(chain.readable) = request.len =>
        handed = SubSeq(Contents(chain.readable), SizeInHeader + 6, SizeInHeader + 5 + request.size)

=============================================================================
