----------------------------- MODULE ChainCalls -----------------------------
(***************************************************************************)
(* Every sequence of calls on a Reader and a Writer, over chains of any    *)
(* slicing: whatever a handler does, a chain acts as two contiguous        *)
(* buffers (module FlatBuffer).  A call for no words returns at once.      *)
(***************************************************************************)
EXTENDS DescriptorChain

CONSTANTS
    Readable, Writable,  \* the chains: sequences of the lengths of their slices
    MaxCall              \* bound: words a call asks for

ASSUME ChainAssumption == Readable \cup Writable \subseteq Seq(Nat) /\ MaxCall \in Nat

ChainInit == \E readable \in Readable, writable \in Writable : ChainOf(readable, writable)

\* The k-th word a handler ever gives writer w is <<w, k>>.
Words(w, n) == [k \in 1 .. n |-> <<w, writers[w].bytes_consumed + k>>]

ChainNext ==
    \E n \in 1 .. MaxCall :
        \/ Read(n) \/ ReadToAt(n) \/ SplitAt(n)
        \/ \E w \in DOMAIN writers : Write(w, Words(w, n)) \/ WriteFromAt(w, Words(w, n))

ChainSpec == ChainInit /\ [][ChainNext]_dvars

-----------------------------------------------------------------------------

End(w) ==
    LET c == writers[w]
        left == Total(c.buffers)
        limit == IF w = "w" /\ DOMAIN writers # {"w"} THEN c.bytes_consumed + left
                 ELSE Total(chain.writable)
        pos == limit - left
    IN  [start |-> pos - c.bytes_consumed, pos |-> pos, limit |-> limit]

Flat == INSTANCE FlatBuffer WITH
    input <- Contents(chain.readable), output <- Contents(chain.writable),
    ends <- [w \in DOMAIN writers |-> End(w)],
    stalls <- \E i \in DOMAIN chain.writable : chain.writable[i].len = 0

(* For every sequence of calls a chain acts as two contiguous runs of words:
   nothing is skipped, repeated or put elsewhere at the border of two slices or at
   a split, no call moves less than it could, except write_from_at in an area with
   an empty slice, and results and bytes_consumed count exactly what moved. *)
ActsAsFlat == Flat!Spec

=============================================================================
