------------------------------ MODULE PBufQueue ------------------------------
(***************************************************************************)
(* utl::PBufQueue (src/src/util/PBufQueue.{h,cpp}): a queue of bytes held  *)
(* in a chain of lwIP pbufs, with a read offset inside the first pbuf.     *)
(*                                                                         *)
(* A pbuf keeps its len, its tot_len (its own length plus that of every    *)
(* pbuf behind it, which lwIP maintains pbuf by pbuf) and whether          *)
(* PBUF_FLAG_PUSH is set.  Its payload is abstracted to the position, in   *)
(* the stream of all bytes offered to the queue, of its first byte: this   *)
(* is what lets order, loss and duplication be stated.                     *)
(*                                                                         *)
(* A queue is the record of the two fields of the class that change.       *)
(***************************************************************************)
EXTENDS Integers, Sequences

CONSTANT Capacity              \* _capacity, in bytes

ASSUME CapacityAssumption == Capacity \in 1..65535

\* remaining_space() computes in an unsigned type.  The width is scaled down
\* to 16 bits; what matters is that a negative difference becomes a very
\* large number, which it does for every width.
SizeMod == 65536

Pbuf == [first : Nat, len : Nat, tot : Nat, push : BOOLEAN]
Queue == [chain : Seq(Pbuf), offset : Nat]

EmptyQueue == [chain |-> <<>>, offset |-> 0]

is_empty(q) == q.chain = <<>>
size(q) == IF is_empty(q) THEN 0 ELSE q.chain[1].tot
remaining_space(q) == (Capacity - size(q)) % SizeMod
is_full(q) == remaining_space(q) = 0

clear(q) == EmptyQueue

(***************************************************************************)
(* push(buffer), buffer being a chain of one or more pbufs.  Only a        *)
(* non-empty queue checks its capacity.  pbuf_chain adds the total length  *)
(* of the new tail to every pbuf already queued.                           *)
(***************************************************************************)
can_push_Strict(q, buffer) ==                     \* mutant: no exception
    /\ buffer[1].tot > 0
    /\ ~is_full(q)
    /\ size(q) + buffer[1].tot <= Capacity

can_push_FullOnly(q, buffer) ==                   \* mutant: trusts is_full()
    buffer[1].tot > 0 /\ ~is_full(q)

can_push(q, buffer) ==
    /\ buffer[1].tot > 0
    /\ ~is_full(q)
    /\ is_empty(q) \/ size(q) + buffer[1].tot <= Capacity

\* Mutant: forgets that pbuf_chain updates the total lengths of the whole chain.
pbuf_chain_HeadOnly(chain, tail) ==
    [chain EXCEPT ![1].tot = @ + tail[1].tot] \o tail

\* Mutant: puts the new buffer in front.
pbuf_chain_Front(chain, tail) == tail \o chain

pbuf_chain(chain, tail) ==
    [i \in 1..Len(chain) |-> [chain[i] EXCEPT !.tot = @ + tail[1].tot]] \o tail

push(q, buffer) ==
    IF is_empty(q) THEN [chain |-> buffer, offset |-> 0]
    ELSE [q EXCEPT !.chain = pbuf_chain(q.chain, buffer)]

\* Mutant: keeps the offset of the pbuf that was removed.
pop_KeepOffset(q) == [q EXCEPT !.chain = Tail(q.chain)]

\* pop() followed by the pbuf_free of its result.
pop(q) == [chain |-> Tail(q.chain), offset |-> 0]

(***************************************************************************)
(* get_cblock(len): the contiguous block at the read position.  The code   *)
(* tests "flags && PBUF_FLAG_PUSH", which is "some flag is set".           *)
(***************************************************************************)
available(q) == q.chain[1].len - q.offset

more_data(q, len) ==
    \/ len < available(q)
    \/ /\ ~q.chain[1].push
       /\ Len(q.chain) > 1
       /\ ~q.chain[2].push

get_cblock_NoLimit(q, len) ==                     \* mutant: ignores len
    [first |-> q.chain[1].first + q.offset, len |-> available(q), more |-> FALSE]

get_cblock(q, len) ==
    [first |-> q.chain[1].first + q.offset,
     len   |-> IF len < available(q) THEN len ELSE available(q),
     more  |-> more_data(q, len)]

\* move(len): refused when it would pass the end of the first pbuf.
can_move(q, len) == ~is_empty(q) /\ q.offset + len <= q.chain[1].len

move(q, len) ==
    IF q.offset + len = q.chain[1].len
    THEN pop(q)
    ELSE [q EXCEPT !.offset = @ + len]
=============================================================================
