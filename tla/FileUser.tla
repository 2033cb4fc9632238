------------------------------ MODULE FileUser ------------------------------
(***************************************************************************)
(* One process that uses one file through open(2), write(2), read(2),      *)
(* ftruncate(2), close(2) and unlink(2), again and again, and the contents *)
(* POSIX says the file has.  The guest kernel (external) turns each call   *)
(* into the requests below: it looks the name up before it opens it,       *)
(* creates it if the answer is ENOENT, keeps O_TRUNC to itself and sends a *)
(* setattr instead, and flushes before it releases.                        *)
(*                                                                         *)
(* Nobody else uses the file: what Guest shows about sharing is left out,  *)
(* what a session leaves to the next one is the subject here.              *)
(***************************************************************************)
EXTENDS Filesystem

CONSTANTS
    Modes,         \* how the process opens the file: "r", "w", "a", "r+"
    MayTruncate,   \* TRUE: it also calls ftruncate
    Name,          \* the name of the file
    MaxOpens       \* bound: sessions

ASSUME UserAssumption ==
    /\ Modes \subseteq {"r", "w", "a", "r+"} /\ MayTruncate \in BOOLEAN
    /\ Name \in Names /\ MaxOpens \in Nat

VARIABLES
    node,      \* the nodeid the lookup gave, NoNode if there is no such file
    phase,     \* where the process is between two system calls
    mode,      \* of the open file
    expected,  \* what the file contains if every call did what POSIX says
    sure,      \* no call has failed since the file was last made anew or removed
    opens      \* sessions so far

uvars == <<opened_files, opened_files_map, opened_files_writer, store, reply,
           node, phase, mode, expected, sure, opens>>

NoNode == 0
Object == <<Name>>

UserInit ==
    /\ opened_files = RootEntries
    /\ opened_files_map = [p \in {RootPath} |-> RootInode]
    /\ opened_files_writer = <<>>
    /\ store = [o \in {<<>>} |-> Dir]
    /\ reply = Ack
    /\ node = NoNode /\ phase = "closed" /\ mode = "r"
    /\ expected = <<>> /\ sure = TRUE /\ opens = 0

-----------------------------------------------------------------------------

Flags(m) ==
    CASE m = "r"  -> {}
      [] m = "w"  -> {"O_WRONLY"}
      [] m = "a"  -> {"O_WRONLY", "O_APPEND"}
      [] m = "r+" -> {"O_RDWR"}

\* A failed call leaves the contents in doubt, until a call that succeeds leaves
\* an empty file, or none, whatever there was: anew.
Note(anew) == sure' = ((sure \/ anew) /\ reply'.error = "OK")

\* open(2), first half: the name is looked up.
UserLookup(m, up) ==
    /\ phase = "closed" /\ opens < MaxOpens
    /\ Lookup(RootInode, Name, up)
    /\ node' = IF reply'.error = "OK" THEN reply'.ino ELSE NoNode
    /\ phase' = "looked" /\ mode' = m /\ opens' = opens + 1
    /\ sure' = (sure /\ up)
    /\ UNCHANGED expected

\* ... second half, for a file that is there.  "w" still has to truncate it.
UserOpen(fault) ==
    /\ phase = "looked" /\ node # NoNode
    /\ Open(node, Flags(mode), fault)
    /\ phase' = IF reply'.error # "OK" THEN "closed"
                ELSE IF mode = "w" THEN "emptying" ELSE "open"
    /\ Note(FALSE)
    /\ UNCHANGED <<node, mode, expected, opens>>

\* ... and for one that is not: only "w" and "a" make it.
UserCreate(fault) ==
    /\ phase = "looked" /\ node = NoNode
    /\ \/ /\ mode \in {"w", "a"}
          /\ Create(RootInode, Name, Flags(mode) \cup {"O_CREAT"}, fault)
          /\ node' = IF reply'.error = "OK" THEN reply'.ino ELSE NoNode
          /\ phase' = IF reply'.error = "OK" THEN "open" ELSE "closed"
          /\ expected' = <<>>
          /\ Note(mode = "w")
       \/ /\ mode \in {"r", "r+"}
          /\ phase' = "closed"
          /\ UNCHANGED <<vars, node, expected, sure>>
    /\ UNCHANGED <<mode, opens>>

\* A file cut to size, or extended by zeros.
Resized(data, size) == [k \in 1 .. size |-> IF k <= Len(data) THEN data[k] ELSE 0]

\* The kernel's truncation for "w", and ftruncate.
UserTruncate(size, up) ==
    /\ \/ phase = "emptying" /\ size = 0
       \/ phase = "open" /\ MayTruncate /\ mode # "r"
    /\ Setattr(node, up)
    /\ phase' = "open"
    /\ expected' = Resized(expected, size)
    /\ Note(phase = "emptying")
    /\ UNCHANGED <<node, mode, opens>>

\* write(2) at the end of what this session knows of the file.
UserWrite(chunk, up) ==
    /\ phase = "open" /\ mode # "r"
    /\ Len(expected) + Len(chunk) <= MaxSize
    /\ Write(node, Len(expected), chunk, up)
    /\ expected' = expected \o chunk
    /\ Note(FALSE)
    /\ UNCHANGED <<node, phase, mode, opens>>

UserRead(up) ==
    /\ phase = "open" /\ mode = "r"
    /\ Read(node, 0, MaxSize, up)
    /\ phase' = "read"
    /\ Note(FALSE)
    /\ UNCHANGED <<node, mode, expected, opens>>

UserFlush ==
    /\ phase \in {"open", "read"}
    /\ Flush(node)
    /\ phase' = "flushed"
    /\ Note(FALSE)
    /\ UNCHANGED <<node, mode, expected, opens>>

\* The result of a release is not seen; a reader's is always EIO.
UserRelease(up) ==
    /\ phase = "flushed"
    /\ Release(node, up)
    /\ phase' = "closed"
    /\ sure' = (sure /\ up)
    /\ UNCHANGED <<node, mode, expected, opens>>

UserUnlink(up) ==
    /\ phase = "closed"
    /\ Unlink(RootInode, Name, up)
    /\ expected' = <<>>
    /\ Note(TRUE)
    /\ UNCHANGED <<node, phase, mode, opens>>

\* Nobody else replaces the file.
OwnFaults == Faults \ {"overtaken"}

UserNext ==
    \/ \E up \in BOOLEAN :
         \/ \E m \in Modes : UserLookup(m, up)
         \/ \E size \in Offsets : UserTruncate(size, up)
         \/ \E chunk \in Chunks : UserWrite(chunk, up)
         \/ UserRead(up) \/ UserRelease(up) \/ UserUnlink(up)
    \/ \E fault \in OwnFaults : UserOpen(fault) \/ UserCreate(fault)
    \/ UserFlush

UserSpec == UserInit /\ [][UserNext]_uvars

-----------------------------------------------------------------------------

(* Between two sessions the stored file is the one POSIX describes: what earlier
   sessions wrote is still there, appended data follows it, and nothing of a file
   that was truncated or removed comes back through a nodeid or a writer that is
   left over.  A failed call leaves the contents in doubt until the file is made
   anew or removed with success; from then on nothing of the failure is left. *)
StoredAsPosix ==
    phase = "closed" /\ sure =>
        IF IsFile(Object) THEN store[Object].data = expected ELSE expected = <<>>

(* A process that reads its file again, in a session of its own, gets exactly what
   the sessions before it were acknowledged to have written since the file was last
   made anew, whatever failed before that. *)
ReadsBack == phase = "read" /\ sure => reply.data = expected

=============================================================================
