--------------------------- MODULE DirectoryStream ---------------------------
(***************************************************************************)
(* A process that lists the root directory (opendir, getdents, ...) while  *)
(* other processes and other users of the service change it.               *)
(*                                                                         *)
(* The guest kernel (external) asks READDIR for the entries behind its     *)
(* position, gives the process as many as the process's buffer holds, and  *)
(* takes the offset of the last one given as its new position; the listing *)
(* ends with an empty answer.  The server's side is module Filesystem.     *)
(***************************************************************************)
EXTENDS Filesystem

CONSTANTS
    Capacity,    \* bound: entries a process's buffer holds
    MaxChanges   \* bound: changes others make

ASSUME StreamAssumption == Capacity \in Nat \ {0} /\ MaxChanges \in Nat

VARIABLES
    stream,      \* "closed", "open", "ended" or "failed"
    buffer,      \* entries the buffer of the process that lists holds
    asked,       \* parity of the READDIRs sent, so that a repeated answer is a step
    pos,         \* the kernel's position: the offset of the last entry given
    given,       \* name |-> how often it was given to the process: 0, 1, or 2 for more
    always,      \* the names that were there all the time since opendir ...
    ever,        \* ... and those that were there at some time
    grew,        \* a name was added since opendir
    changes      \* changes made by others so far

svars == <<opened_files, opened_files_map, opened_files_writer, store, reply,
           stream, buffer, asked, pos, given, always, ever, grew, changes>>

Listed == Children(<<>>)

StreamInit ==
    /\ opened_files = RootEntries
    /\ opened_files_map = [p \in {RootPath} |-> RootInode]
    /\ opened_files_writer = <<>>
    /\ \E old \in SUBSET Names :
         store = [o \in {<<>>} \cup {<<name>> : name \in old} |-> IF o = <<>> THEN Dir ELSE File(<<>>)]
    /\ reply = Ack
    /\ stream = "closed" /\ buffer = 1 /\ asked = 0 /\ pos = 0 /\ given = [name \in Names |-> 0]
    /\ always = {} /\ ever = {} /\ grew = FALSE /\ changes = 0

-----------------------------------------------------------------------------

OpenStream ==
    /\ stream = "closed"
    /\ Opendir(RootInode)
    /\ buffer' \in 1 .. Capacity
    /\ stream' = "open" /\ pos' = 0 /\ given' = [name \in Names |-> 0]
    /\ always' = Listed /\ ever' = Listed /\ grew' = FALSE
    /\ UNCHANGED <<asked, changes>>

\* The entries of the reply in the service's order; the i-th has the offset i.
Take(entries) ==
    \E order \in Orders(entries) :
        LET n == Smaller(buffer, Cardinality(entries))
        IN  /\ given' = [name \in Names |->
                  IF \E i \in 1 .. n : order[i].obj = <<name>> THEN Smaller(given[name] + 1, 2)
                  ELSE given[name]]
            /\ pos' = n

GetDents(room, up) ==
    /\ stream = "open"
    /\ Readdir(RootInode, pos, room, up)
    /\ asked' = 1 - asked
    /\ IF reply'.error = "OK" /\ reply'.entries # {}
       THEN Take(reply'.entries) /\ UNCHANGED stream
       ELSE /\ stream' = IF reply'.error = "OK" THEN "ended" ELSE "failed"
            /\ UNCHANGED <<pos, given>>
    /\ UNCHANGED <<buffer, always, ever, grew, changes>>

CloseStream ==
    /\ stream \in {"ended", "failed"}
    /\ Releasedir(RootInode)
    /\ stream' = "closed"
    /\ UNCHANGED <<buffer, asked, pos, given, always, ever, grew, changes>>

\* Another process makes or removes an entry, or another user of the service.
OthersChange ==
    /\ changes < MaxChanges /\ changes' = changes + 1
    /\ \E name \in Names :
         \/ Create(RootInode, name, {"O_WRONLY", "O_CREAT"}, "none")
         \/ Mkdir(RootInode, name, TRUE)
         \/ Unlink(RootInode, name, TRUE)
         \/ ExternalPut(<<name>>, <<>>)
         \/ ExternalDelete(<<name>>)
    /\ always' = always \cap Listed'
    /\ ever' = ever \cup Listed'
    /\ grew' = (grew \/ Listed' \ Listed # {})
    /\ UNCHANGED <<stream, buffer, asked, pos, given>>

StreamNext ==
    \/ OpenStream \/ CloseStream \/ OthersChange
    \/ \E room \in Places, up \in BOOLEAN : GetDents(room, up)

\* A process that has opened a directory reads on, and the service answers.
StreamSpec ==
    /\ StreamInit /\ [][StreamNext]_svars
    /\ WF_svars(\E room \in Places, up \in BOOLEAN : GetDents(room, up))

-----------------------------------------------------------------------------

\* The buffer holds all the names seen since opendir.
Fits == Cardinality(ever) <= buffer

(* A listing that ends is complete and real: it has every name that was there all
   the time, if all names seen meanwhile fit the buffer, and none that never was,
   although each answer is a new listing of the service and the kernel's position
   counts entries of an older one.  (A listing that has to be resumed starts again,
   and may end without names that were there when others go.) *)
ListsAll ==
    stream = "ended" =>
        /\ Fits => \A name \in always : given[name] > 0
        /\ \A name \in Names \ ever : given[name] = 0

(* No name of a directory that fits the buffer is given twice unless one was added
   meanwhile: a position at or past the end of the listing is the end. *)
ListsOnce ==
    ~grew /\ Fits => \A name \in Names : given[name] <= 1

(* A listing ends once the directory fits the buffer and goes on doing so, whatever
   the position was by then and however the directory changes: the process is not
   kept for ever.  As long as the directory holds more, every answer starts with
   its first entries again, and the listing need not end. *)
ListingEnds ==
    (stream = "open" /\ [](Cardinality(Listed) <= buffer)) ~> stream # "open"

=============================================================================
