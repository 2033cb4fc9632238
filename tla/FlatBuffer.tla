----------------------------- MODULE FlatBuffer -----------------------------
(***************************************************************************)
(* What a Reader and a Writer promise a handler: the request is one run of *)
(* words, the reply area another, and a reply area split at an offset is   *)
(* two of them.  No descriptor is visible here.                            *)
(***************************************************************************)
EXTENDS Integers, Sequences

CONSTANT MaxCall   \* bound: words a call asks for

VARIABLES
    input,      \* the words of the request
    taken,      \* the words handed out so far
    output,     \* the words of the reply area
    ends,       \* writer |-> the first cell, the next one and the end of its part
    stalls,     \* TRUE: write_from_at may stop before the area is full
    result      \* the words the last call moved

fvars == <<input, taken, output, ends, stalls, result>>

AtMost(m, n) == IF m <= n THEN m ELSE n

Init ==
    /\ taken = <<>>
    /\ ends = [w \in {"w"} |-> [start |-> 0, pos |-> 0, limit |-> Len(output)]]
    /\ result = 0

\* The next n words of the request leave it.
Hand(n) ==
    /\ result' = n
    /\ taken' = taken \o SubSeq(input, Len(taken) + 1, Len(taken) + n)
    /\ UNCHANGED <<input, output, ends, stalls>>

Rest == Len(input) - Len(taken)

Take(n) == Hand(AtMost(n, Rest))
\* All that was asked for, and perhaps more.
TakeAtLeast(n) == \E m \in AtMost(n, Rest) .. Rest : Hand(m)

\* The next n words of writer w enter its part.
Enter(w, n) ==
    LET e == ends[w]
    IN  /\ result' = n
        /\ ends' = [ends EXCEPT ![w].pos = @ + n]
        /\ output' = [k \in 1 .. Len(output) |->
                        IF k \in (e.pos + 1) .. (e.pos + n) THEN <<w, k - e.start>> ELSE output[k]]
        /\ UNCHANGED <<input, taken, stalls>>

Room(w) == ends[w].limit - ends[w].pos

Put(w, n) == Enter(w, AtMost(n, Room(w)))
PutFrom(w, n) ==
    \E m \in 0 .. AtMost(n, Room(w)) : (stalls \/ m = AtMost(n, Room(w))) /\ Enter(w, m)

\* Writer w keeps n words; data_writer gets the rest.
Split(n) ==
    /\ DOMAIN ends = {"w"} /\ n <= Room("w")
    /\ LET e == ends["w"]
           cut == e.pos + n
       IN  ends' = [w \in {"w", "data_writer"} |->
                      IF w = "w" THEN [e EXCEPT !.limit = cut]
                      ELSE [start |-> cut, pos |-> cut, limit |-> e.limit]]
    /\ UNCHANGED <<input, taken, output, stalls, result>>

Next ==
    \E n \in 1 .. MaxCall :
        \/ Take(n) \/ TakeAtLeast(n) \/ Split(n)
        \/ \E w \in DOMAIN ends : Put(w, n) \/ PutFrom(w, n)

Spec == Init /\ [][Next]_fvars

=============================================================================
