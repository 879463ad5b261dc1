------------------------------ MODULE SackSet ------------------------------
(***************************************************************************)
(* What a SACK list promises to its users: it is a set of numbers.         *)
(*                                                                         *)
(* The same list type keeps the packet numbers received in a packet number *)
(* space (sacks.c) and the bytes acknowledged on a stream (frames.c:2418). *)
(* A caller sees three things: a range is added whole, or not at all when  *)
(* memory runs out; nothing is added that was not asked for; and the       *)
(* acknowledgement of ACK frames may forget numbers that those frames      *)
(* listed, but never the largest number, which packet number decoding      *)
(* depends on (packet.c:506).  SackList.tla is the list itself and         *)
(* implements this.                                                        *)
(***************************************************************************)
EXTENDS Naturals

CONSTANT Numbers      \* the packet numbers, or byte offsets, in use
VARIABLES numbers,    \* the numbers the list stands for
          request,    \* the range a call is adding, {} when there is none
          confirmed   \* the numbers of the acknowledged ACK frames

(* No packet received; or, on a stream, the zeroed item (quicctx.c:1636),  *)
(* which already counts byte 0.                                            *)
Init == /\ numbers \in {{}, {0}}
        /\ request = {}
        /\ confirmed = {}

Ranges == {lo .. hi : lo, hi \in Numbers} \ {{}}

Ask == /\ request = {}
       /\ request' \in Ranges
       /\ UNCHANGED <<numbers, confirmed>>

(* The call returns.  Memory failure adds nothing.                         *)
Answer == /\ request # {}
          /\ request' = {}
          /\ numbers' \in {numbers, numbers \cup request}
          /\ UNCHANGED confirmed

(* The first range of all needs no call to answer.                         *)
First == /\ numbers = {}
         /\ numbers' \in Ranges
         /\ UNCHANGED <<request, confirmed>>

(* An ACK frame was acknowledged.                                          *)
Confirm == /\ confirmed \subseteq confirmed'
           /\ UNCHANGED <<numbers, request>>

(* Pruning.                                                                *)
Forget == /\ numbers' \subseteq numbers
          /\ numbers \ numbers' \subseteq confirmed
          /\ \A n \in numbers : \E m \in numbers' : n <= m
          /\ UNCHANGED <<request, confirmed>>

Next == Ask \/ Answer \/ First \/ Confirm \/ Forget

Spec == Init /\ [][Next]_<<numbers, request, confirmed>>
=============================================================================
