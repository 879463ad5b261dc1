----------------------------- MODULE Reassembly -----------------------------
(***************************************************************************)
(* Reassembly of a stream at the receiver (frames.c:865-965).  The queue   *)
(* stream_data holds blocks of bytes that arrived ahead of their turn,     *)
(* in the order of their offsets.  A block is a record with its offset and *)
(* its bytes.  Crypto streams use the same code.  The loops are given by   *)
(* the number of blocks that they pass: the least for which the condition  *)
(* of the loop fails.                                                      *)
(***************************************************************************)
EXTENDS Integers, Sequences, FiniteSetsExt

End(block) == block.offset + Len(block.bytes)

-----------------------------------------------------------------------------
(* picoquic_queue_network_input.                                           *)

(* The bytes of the frame, from its start, that were consumed already.     *)
Consumed(offset, length, consumed_offset) ==
    IF offset > consumed_offset THEN 0
    ELSE IF offset + length <= consumed_offset THEN length
    ELSE consumed_offset - offset

(* `start` after the loop passed n blocks: the last of them that ends      *)
(* beyond the start of the frame has set it.                               *)
StartAfter(stream_data, offset, length, consumed_offset, n) ==
    LET touched == {i \in 1..n : offset < End(stream_data[i])}
    IN  IF touched = {} THEN Consumed(offset, length, consumed_offset)
        ELSE Min({length, End(stream_data[Max(touched)]) - offset})

(* The blocks that the loop passes.                                        *)
Passed(stream_data, offset, length, consumed_offset) ==
    LET start(n) == StartAfter(stream_data, offset, length, consumed_offset, n)
    IN  Min({n \in 0..Len(stream_data) :
                \/ n = Len(stream_data)
                \/ start(n) >= length
                \/ stream_data[n + 1].offset > offset + start(n)})

(* Faulty variant: the whole rest of the frame is stored, also what the    *)
(* next block already holds.                                               *)
KeptWhole(offset, length, start, rest) == length - start

(* How many bytes are stored: up to the next block, whatever follows it.   *)
Kept(offset, length, start, rest) ==
    IF rest # <<>> /\ rest[1].offset < offset + length
    THEN rest[1].offset - (offset + start)
    ELSE length - start

(* The queue with the new bytes.                                           *)
picoquic_queue_network_input(stream_data, offset, bytes, consumed_offset) ==
    LET length == Len(bytes)
        passed == Passed(stream_data, offset, length, consumed_offset)
        start  == StartAfter(stream_data, offset, length, consumed_offset, passed)
        rest   == SubSeq(stream_data, passed + 1, Len(stream_data))
        kept   == Kept(offset, length, start, rest)
    IN  IF start < length /\ kept > 0
        THEN SubSeq(stream_data, 1, passed)
               \o <<[offset |-> offset + start,
                     bytes  |-> SubSeq(bytes, start + 1, start + kept)]>>
               \o rest
        ELSE stream_data

-----------------------------------------------------------------------------
(* picoquic_stream_data_callback: the blocks whose turn has come go to the *)
(* application, without the bytes it has already.                          *)

ConsumedAfter(stream_data, consumed_offset, n) ==
    IF n = 0 THEN consumed_offset ELSE End(stream_data[n])

(* The blocks whose turn has come.                                         *)
Due(stream_data, consumed_offset) ==
    Min({n \in 0..Len(stream_data) :
            \/ n = Len(stream_data)
            \/ stream_data[n + 1].offset
                 > ConsumedAfter(stream_data, consumed_offset, n)})

Deliver(stream_data, consumed_offset) ==
    LET due == Due(stream_data, consumed_offset)
        end == ConsumedAfter(stream_data, consumed_offset, due)
        block(at) == stream_data[Min({i \in 1..due : at < End(stream_data[i])})]
        byte(at)  == block(at).bytes[at - block(at).offset + 1]
    IN  [consumed_offset |-> end,
         bytes       |-> [k \in 1..(end - consumed_offset) |->
                             byte(consumed_offset + k - 1)],
         stream_data |-> SubSeq(stream_data, due + 1, Len(stream_data))]

(* A queue as the code keeps it: blocks that are not empty, do not overlap *)
(* and start at consumed_offset or later, and byte number i is i.          *)
Block == [offset : Nat, bytes : Seq(Nat)]
Numbered(offset, bytes) == \A k \in 1..Len(bytes) : bytes[k] = offset + k - 1
InOrder(stream_data, consumed_offset) ==
    /\ stream_data \in Seq(Block)
    /\ \A i \in 1..Len(stream_data) :
         /\ consumed_offset <= stream_data[i].offset
         /\ Len(stream_data[i].bytes) > 0
         /\ Numbered(stream_data[i].offset, stream_data[i].bytes)
    /\ \A i, j \in 1..Len(stream_data) :
         i < j => End(stream_data[i]) <= stream_data[j].offset

(* Nothing in the queue is due.                                            *)
Ahead(stream_data, consumed_offset) ==
    \A i \in 1..Len(stream_data) : consumed_offset < stream_data[i].offset

(* The offsets that the receiver holds or has delivered.                   *)
Held(stream_data, consumed_offset) ==
    (0..(consumed_offset - 1)) \cup
    UNION {stream_data[i].offset..(End(stream_data[i]) - 1) : i \in DOMAIN stream_data}
=============================================================================
