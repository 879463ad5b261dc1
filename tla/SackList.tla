------------------------------ MODULE SackList ------------------------------
(***************************************************************************)
(* The list of SACK ranges of sacks.c, and its pruning by the              *)
(* acknowledgement of ACK frames (frames.c:2126-2247).                     *)
(*                                                                         *)
(* The list is a sequence of ranges in list order, first_sack_item first,  *)
(* highest numbers first.  The marker "nothing received yet"               *)
(* (start_of_sack_range = 2^64-1) is the empty sequence.  The same list    *)
(* serves a packet number space, where packets are recorded one by one and *)
(* ACK frames prune it, and a stream, where ranges of acknowledged bytes   *)
(* are added.                                                              *)
(*                                                                         *)
(* picoquic_update_sack_list walks the list with a cursor, rewriting it as *)
(* it goes.  The walk is modelled one iteration per step: `at` is the      *)
(* position of `sack` (0 when no call is in progress) and `previous` is    *)
(* the item before it, which is what the code's `previous` always is: it   *)
(* is assigned only together with the advance of `sack`.                   *)
(***************************************************************************)
EXTENDS Integers, Sequences

CONSTANTS Uses,       \* what lists are for: "packets", "stream", or both
          Numbers,    \* the packet numbers, or byte offsets, in use
          MaxAcks     \* bound on the ACK frames kept for acknowledgement

ASSUME UsesAssumption == Uses \subseteq {"packets", "stream"}
ASSUME NumbersAssumption == Numbers \subseteq Nat
ASSUME MaxAcksAssumption == MaxAcks \in Nat

VARIABLES
  sacks,      \* the list
  use,        \* "packets" or "stream"
  at,         \* cursor of the call in progress, 0 when there is none
  pn64_min,   \* arguments of the call in progress; pn64_max shrinks as
  pn64_max,   \*   the top of the range is accounted for
  ret,        \* 1 duplicate, 0 updated, -1 memory failure
  stamped,    \* whose arrival set time_stamp_largest_received, -1 if none
  acks,       \* the ACK frames sent and not acknowledged, oldest first
  pruning,    \* the ranges still to process of an acknowledged ACK frame
  before,     \* history: the numbers listed when the call started
  asked,      \* history: the numbers the call was asked to add
  recorded,   \* history: every number ever added
  failed,     \* history: memory failure kept a number out of the list
  confirmed   \* history: every number of an acknowledged ACK frame

call    == <<pn64_min, pn64_max, before, asked>>
acking  == <<acks, pruning, confirmed>>
history == <<recorded, failed>>
vars    == <<sacks, use, at, ret, stamped, call, acking, history>>

Range == [start : Nat, end : Nat]
Covered(list) == UNION {list[k].start .. list[k].end : k \in DOMAIN list}

-----------------------------------------------------------------------------
(* Rewritings of the list.                                                 *)

SetStart(list, i, n) == [list EXCEPT ![i].start = n]
SetEnd(list, i, n)   == [list EXCEPT ![i].end = n]

Remove(list, i) ==
    [k \in 1 .. Len(list) - 1 |-> IF k < i THEN list[k] ELSE list[k + 1]]

Insert(list, i, range) ==
    [k \in 1 .. Len(list) + 1 |-> IF k < i THEN list[k]
                                  ELSE IF k = i THEN range
                                  ELSE list[k - 1]]

-----------------------------------------------------------------------------
(* Lookups, which scan from the head to the first range that starts at or  *)
(* below the number.                                                       *)

FirstReached(list, n) ==
    {k \in DOMAIN list : /\ n >= list[k].start
                         /\ \A j \in 1 .. k - 1 : n < list[j].start}

(* Faulty variant: the end of a range taken as exclusive.                  *)
IsPnAlreadyReceivedExclusive(list, pn) ==
    \E k \in FirstReached(list, pn) : pn < list[k].end

IsPnAlreadyReceived(list, pn) ==
    \E k \in FirstReached(list, pn) : pn <= list[k].end

(* TRUE for the code's -1, "complete overlap": the range fills no hole.    *)
CheckSackList(list, min, max) ==
    \E k \in FirstReached(list, max) : /\ max <= list[k].end
                                       /\ min >= list[k].start

-----------------------------------------------------------------------------
Idle == at = 0 /\ pruning = <<>>

NoCall == pn64_min = 0 /\ pn64_max = 0 /\ before = {} /\ asked = {}

(* A packet number space starts with the marker (quicctx.c:1833), a stream *)
(* with the zeroed item [0, 0] (quicctx.c:1636).                           *)
Init ==
    /\ use \in Uses
    /\ \/ use = "packets" /\ sacks = <<>>
       \/ use = "stream"  /\ sacks = <<[start |-> 0, end |-> 0]>>
    /\ at = 0 /\ NoCall /\ ret = 0
    /\ stamped = -1
    /\ acks = <<>> /\ pruning = <<>> /\ confirmed = {}
    /\ recorded = Covered(sacks) /\ failed = FALSE

(* picoquic_update_sack_list(sack, min, max), up to its loop.              *)
UpdateSackList(min, max) ==
    /\ Idle
    /\ \/ /\ sacks = <<>>
          /\ sacks' = <<[start |-> min, end |-> max]>>
          /\ ret' = 0
          /\ recorded' = recorded \cup (min .. max)
          /\ UNCHANGED <<at, call>>
       \/ /\ sacks # <<>>
          /\ at' = 1
          /\ pn64_min' = min
          /\ pn64_max' = max
          /\ ret' = 1
          /\ before' = Covered(sacks)
          /\ asked' = min .. max
          /\ UNCHANGED <<sacks, recorded>>
    /\ UNCHANGED <<use, acking, failed>>

(* Faulty variant: every arrival sets the time stamp.                      *)
RecordPnReceivedAlwaysStamps(pn) ==
    /\ use = "packets"
    /\ UpdateSackList(pn, pn)
    /\ stamped' = pn

RecordPnReceived(pn) ==
    /\ use = "packets"
    /\ UpdateSackList(pn, pn)
    /\ stamped' = IF sacks = <<>> \/ pn > sacks[1].end THEN pn ELSE stamped

(* frames.c:2418, the acknowledgement of a stream frame.                   *)
ProcessAckOfStreamFrame(min, max) ==
    /\ use = "stream"
    /\ UpdateSackList(min, max)
    /\ UNCHANGED stamped

-----------------------------------------------------------------------------
(* The loop.                                                               *)

Return(value) ==
    /\ at' = 0
    /\ pn64_min' = 0 /\ pn64_max' = 0 /\ before' = {} /\ asked' = {}
    /\ ret' = value
    /\ recorded' = IF value = -1 THEN recorded ELSE recorded \cup asked
    /\ failed' = (failed \/ value = -1)
    /\ UNCHANGED <<use, stamped, acking>>

(* Go on at item i with the numbers up to max.                             *)
GoOn(i, max, value) ==
    /\ at' = i
    /\ pn64_max' = max
    /\ ret' = value
    /\ UNCHANGED <<use, stamped, acking, history, pn64_min, before, asked>>

(* Faulty variant: the remainder of the range is not followed up.          *)
ContinueBelowDropsRest(list, i) ==
    /\ pn64_min \in Nat
    /\ sacks' = list
    /\ Return(0)

(* The top of the range is in item i of the list: stop, stretch the last   *)
(* item down, or go on with the remainder.                                 *)
ContinueBelow(list, i) ==
    \/ /\ pn64_min >= list[i].start
       /\ sacks' = list
       /\ Return(0)
    \/ /\ pn64_min < list[i].start
       /\ i = Len(list)
       /\ sacks' = SetStart(list, i, pn64_min)
       /\ Return(0)
    \/ /\ pn64_min < list[i].start
       /\ i < Len(list)
       /\ sacks' = list
       /\ GoOn(i + 1, list[i].start - 1, 0)

ReachesPrevious == at > 1 /\ pn64_max + 1 >= sacks[at - 1].start

(* The range touches the item from above: stretch the item up or, when the *)
(* hole is filled, merge it into the previous one.                         *)
JoinRange ==
    /\ at > 0
    /\ pn64_max > sacks[at].end
    /\ pn64_min <= sacks[at].end + 1
    /\ IF ReachesPrevious
       THEN ContinueBelow(Remove(SetStart(sacks, at - 1, sacks[at].start), at),
                          at - 1)
       ELSE ContinueBelow(SetEnd(sacks, at, pn64_max), at)

ExtendPrevious ==
    /\ at > 0
    /\ pn64_min > sacks[at].end + 1
    /\ pn64_max > sacks[at].end
    /\ ReachesPrevious
    /\ sacks' = SetStart(sacks, at - 1, pn64_min)
    /\ Return(0)

(* malloc may fail, here and at the tail of the list.                      *)
NewHole ==
    /\ at > 0
    /\ pn64_min > sacks[at].end + 1
    /\ pn64_max > sacks[at].end
    /\ ~ReachesPrevious
    /\ \/ /\ sacks' = Insert(sacks, at, [start |-> pn64_min, end |-> pn64_max])
          /\ Return(0)
       \/ /\ UNCHANGED sacks
          /\ Return(-1)

MaxInside ==
    /\ at > 0
    /\ pn64_max \in sacks[at].start .. sacks[at].end
    /\ \/ /\ pn64_min >= sacks[at].start
          /\ UNCHANGED sacks
          /\ Return(ret)
       \/ /\ pn64_min < sacks[at].start
          /\ ContinueBelow(sacks, at)

BelowLast ==
    /\ at > 0
    /\ pn64_max < sacks[at].start
    /\ at = Len(sacks)
    /\ \/ /\ pn64_max + 1 = sacks[at].start
          /\ sacks' = SetStart(sacks, at, pn64_min)
          /\ Return(0)
       \/ /\ pn64_max + 1 # sacks[at].start
          /\ sacks' = Insert(sacks, at + 1,
                             [start |-> pn64_min, end |-> pn64_max])
          /\ Return(0)
       \/ /\ pn64_max + 1 # sacks[at].start
          /\ UNCHANGED sacks
          /\ Return(-1)

(* Faulty variant: the cursor stays.                                       *)
AdvanceNowhere ==
    /\ at > 0
    /\ pn64_max < sacks[at].start
    /\ at < Len(sacks)
    /\ UNCHANGED vars

Advance ==
    /\ at > 0
    /\ pn64_max < sacks[at].start
    /\ at < Len(sacks)
    /\ UNCHANGED sacks
    /\ GoOn(at + 1, pn64_max, ret)

-----------------------------------------------------------------------------
(* ACK frames.                                                             *)

(* picoquic_prepare_ack_frame lists the ranges from the top, as many as    *)
(* fit in the packet, the first one always.                                *)
PrepareAckFrame ==
    /\ use = "packets"
    /\ Idle
    /\ sacks # <<>>
    /\ Len(acks) < MaxAcks
    /\ \E n \in 1 .. Len(sacks) : acks' = Append(acks, SubSeq(sacks, 1, n))
    /\ UNCHANGED <<sacks, use, at, ret, stamped, call, pruning, confirmed, history>>

(* Faulty variant: an item that grew since the ACK was sent matches too.   *)
MatchingByStart(list, range) ==
    {k \in 2 .. Len(list) : list[k].start = range.start}

(* The later item that matches the range exactly, if there is one.  The    *)
(* scan stops at the first item that ends at or below the range.           *)
Matching(list, range) ==
    {k \in 2 .. Len(list) : /\ list[k] = range
                            /\ \A j \in 2 .. k - 1 : list[j].end > range.end}

ProcessAckOfAckRange(list, range) ==
    IF list[1].start = range.start
    THEN SetStart(list, 1, IF range.end < list[1].end THEN range.end + 1
                                                      ELSE list[1].end)
    ELSE IF Matching(list, range) = {} THEN list
    ELSE Remove(list, CHOOSE k \in Matching(list, range) : TRUE)

(* The packet that carried the frame was acknowledged, or is known lost    *)
(* and gives up the frame.  Frames may be acknowledged in any order.       *)
ProcessAckOfAckFrame(a) ==
    /\ Idle
    /\ acks' = Remove(acks, a)
    /\ \/ /\ pruning' = acks[a]
          /\ confirmed' = confirmed \cup Covered(acks[a])
       \/ UNCHANGED <<pruning, confirmed>>
    /\ UNCHANGED <<sacks, use, at, ret, stamped, call, history>>

(* One turn of its loop.                                                   *)
PruneRange ==
    /\ pruning # <<>>
    /\ sacks' = ProcessAckOfAckRange(sacks, Head(pruning))
    /\ pruning' = Tail(pruning)
    /\ UNCHANGED <<use, at, ret, stamped, call, acks, confirmed, history>>

-----------------------------------------------------------------------------
Step == \/ JoinRange
        \/ ExtendPrevious
        \/ NewHole
        \/ MaxInside
        \/ BelowLast
        \/ Advance
        \/ PruneRange

Next == \/ \E pn \in Numbers : RecordPnReceived(pn)
        \/ \E min, max \in Numbers : /\ min <= max
                                     /\ ProcessAckOfStreamFrame(min, max)
        \/ Step
        \/ PrepareAckFrame
        \/ \E a \in DOMAIN acks : ProcessAckOfAckFrame(a)

Spec == Init /\ [][Next]_vars /\ WF_vars(Step)

-----------------------------------------------------------------------------
(* Properties.                                                             *)

(* Every variable has its type, and the cursor is inside the list.         *)
TypeOK ==
    /\ sacks \in Seq(Range)
    /\ use \in {"packets", "stream"}
    /\ at \in 0 .. Len(sacks)
    /\ pn64_min \in Nat /\ pn64_max \in Nat
    /\ ret \in {-1, 0, 1}
    /\ stamped \in Nat \cup {-1}
    /\ acks \in Seq(Seq(Range)) /\ pruning \in Seq(Range)
    /\ before \subseteq Nat /\ asked \subseteq Nat
    /\ recorded \subseteq Nat /\ failed \in BOOLEAN
    /\ confirmed \subseteq Nat

Descending(list) ==
    /\ \A k \in DOMAIN list : list[k].start <= list[k].end
    /\ \A i, j \in DOMAIN list : i < j => list[j].end + 1 < list[i].start

(* At every iteration of the walk, and whatever was pruned, the list is in *)
(* descending order with a hole between any two items: what                *)
(* picoquic_prepare_ack_frame needs to encode gaps (frames.c:2735) and the *)
(* lookups to stop early (sacks.c:45, 214).                                *)
NormalForm == Descending(sacks)

(* The two lookups of sacks.c, which stop at the first item that is not    *)
(* above the number, answer for the whole list.                            *)
LookupsExact ==
    Idle =>
      /\ \A pn \in Numbers :
           IsPnAlreadyReceived(sacks, pn) <=> pn \in Covered(sacks)
      /\ \A min, max \in Numbers :
           min <= max => (CheckSackList(sacks, min, max)
                            <=> min .. max \subseteq Covered(sacks))

(* Pruning never loses the largest number received, which                  *)
(* picoquic_get_packet_number64 (packet.c:506) expands the next one from.  *)
LargestKept ==
    Idle => \A n \in recorded : sacks # <<>> /\ n <= sacks[1].end

(* A number leaves the list only when an ACK frame that listed it was      *)
(* acknowledged (frames.c:2126): until then every ACK repeats it.          *)
ForgottenWereConfirmed ==
    Idle => recorded \ Covered(sacks) \subseteq confirmed

(* The two together: what acknowledged ACK frames prune is never missed.   *)
PruningLosesNothing == LargestKept /\ ForgottenWereConfirmed

(* time_stamp_largest_received (sacks.c:189) belongs to the largest packet *)
(* received, so that the ACK delay computed from it is that packet's; or   *)
(* to a larger one that memory failure kept out of the list.               *)
StampOfLargest ==
    (Idle /\ use = "packets" /\ sacks # <<>>) =>
      \/ stamped = sacks[1].end
      \/ stamped > sacks[1].end /\ failed

(* The value that picoquic_update_sack_list returns is right: 1 exactly    *)
(* when every number was there already, and then, or on memory failure,    *)
(* the list is as it was found.                                            *)
ReturnExact ==
    [][(at > 0 /\ at' = 0) =>
          /\ ret' = 1 <=> asked \subseteq before
          /\ ret' \in {1, -1} => Covered(sacks') = before
          /\ ret' = 0 => Covered(sacks') = before \cup asked]_vars

(* The list implements a set of numbers to which ranges are added whole.   *)
Abstract == INSTANCE SackSet
              WITH numbers <- IF at = 0 THEN Covered(sacks) ELSE before,
                   request <- asked

ImplementsSet == Abstract!Spec

(* Every call of picoquic_update_sack_list returns: the loop makes         *)
(* progress although it moves the cursor back when it merges two items.    *)
CallsReturn == [](at > 0 => <>(at = 0))

(* The inductive invariant behind these properties.  While a call walks    *)
(* the list, the numbers listed and the remainder of the range are the     *)
(* numbers found and the numbers asked for; the remainder is below         *)
(* `previous`; and once the list was changed the remainder touches         *)
(* `previous`, so that nothing can be left to allocate, nor to fail, at    *)
(* sacks.c:113 and 154.                                                    *)
CallInv ==
    at > 0 =>
      /\ pruning = <<>>
      /\ pn64_min <= pn64_max
      /\ at > 1 => pn64_max < sacks[at - 1].start
      /\ Covered(sacks) \cup (pn64_min .. pn64_max) = before \cup asked
      /\ \E min, max \in Numbers : min <= max /\ asked = min .. max
      /\ \/ /\ ret = 1
            /\ Covered(sacks) = before
            /\ pn64_min .. pn64_max = asked
         \/ /\ ret = 0
            /\ at > 1
            /\ pn64_max + 1 = sacks[at - 1].start
            /\ ~(asked \subseteq before)
      /\ recorded \ before \subseteq confirmed

AtRest == at = 0 => asked = {}

WellFormed(list) == \A k \in DOMAIN list : list[k].start <= list[k].end

AckInv ==
    /\ \A a \in DOMAIN acks : WellFormed(acks[a])
    /\ WellFormed(pruning)
    /\ Covered(pruning) \subseteq confirmed
    /\ (acks # <<>> \/ pruning # <<>>) => sacks # <<>>
    /\ at = 0 => recorded \ Covered(sacks) \subseteq confirmed
    /\ \A n \in recorded : sacks # <<>> /\ n <= sacks[1].end

(* The walk invariant and the history of the ACK frames, together.         *)
Inductive == TypeOK /\ NormalForm /\ AtRest /\ CallInv /\ AckInv

(* The numbers that are listed, or are about to be.                        *)
Listed == (IF at = 0 THEN Covered(sacks) ELSE before) \cup asked

(* What StampOfLargest rests on: while the walk goes on, the stamp is      *)
(* already that of the largest number the list is going to hold.           *)
StampInv ==
    use = "packets" =>
      /\ \A n \in Listed : n <= stamped
      /\ Listed # {} => stamped \in Listed \/ failed
=============================================================================
