---------------------------- MODULE PacketNumber ----------------------------
(***************************************************************************)
(* Recovery of full packet numbers from the truncated ones of the packet   *)
(* header (packet.c:419-442, 484-512).  The header holds the number modulo *)
(* a window; the receiver completes it from the highest number received so *)
(* far.  A number completed wrongly is a wrong nonce, so the packet is not *)
(* decrypted and is dropped.                                               *)
(***************************************************************************)
EXTENDS Integers

CONSTANTS HalfWindow,   \* half of 2^8, 2^16, 2^24 or 2^32
          MaxPn         \* bound on the numbers used

VARIABLES send_sequence,     \* next number of the sender
          end_of_sack_range  \* highest number received

vars == <<send_sequence, end_of_sack_range>>

(* What the theorems assume of the window.                                 *)
WindowSize == HalfWindow \in Nat \ {0}

(* not_mask_plus_one, and the part of a number that the mask keeps.        *)
Window == 2 * HalfWindow
Masked(n) == n - (n % Window)

(* The header carries the low bytes (sender.c:385-388).                    *)
Truncate(n) == n % Window

(* Faulty variant: a number is never moved to the previous window.         *)
picoquic_get_packet_number64_forward(highest, pn) ==
    LET expected == highest + 1
        pn64     == Masked(expected) + pn
    IN  IF pn64 < expected THEN pn64 + Window ELSE pn64

picoquic_get_packet_number64(highest, pn) ==
    LET expected == highest + 1
        pn64     == Masked(expected) + pn
        delta1   == IF pn64 < expected THEN expected - pn64 ELSE pn64 - expected
        delta2   == Window - delta1
    IN  IF pn64 < expected
        THEN IF delta2 < delta1 THEN pn64 + Window ELSE pn64
        ELSE IF delta2 <= delta1 /\ Masked(pn64) > 0 THEN pn64 - Window ELSE pn64

Init == send_sequence = 0 /\ end_of_sack_range = 0

(* The flight stays within half a window of what was received.             *)
Send ==
    /\ send_sequence <= end_of_sack_range + HalfWindow
    /\ send_sequence < MaxPn
    /\ send_sequence' = send_sequence + 1
    /\ UNCHANGED end_of_sack_range

(* Any packet sent so far arrives, again or for the first time.            *)
Incoming ==
    \E pn64 \in 0..(send_sequence - 1) :
        /\ picoquic_get_packet_number64(end_of_sack_range, Truncate(pn64)) = pn64
        /\ end_of_sack_range' =
             IF end_of_sack_range < pn64 THEN pn64 ELSE end_of_sack_range
        /\ UNCHANGED send_sequence

Next == Send \/ Incoming

Spec == Init /\ [][Next]_vars

(* What is under way is never beyond the numbers the receiver can tell     *)
(* apart.                                                                  *)
TypeOK ==
    /\ send_sequence \in Nat
    /\ end_of_sack_range \in Nat
    /\ end_of_sack_range < send_sequence \/ end_of_sack_range = 0
    /\ send_sequence <= end_of_sack_range + HalfWindow + 1

(* Every packet that is at most half a window late gets its number back,   *)
(* whatever was received before it, at the start of the number space and   *)
(* at every border between windows (packet.c:419).                         *)
NumbersRecovered ==
    \A pn64 \in 0..(send_sequence - 1) :
        pn64 + HalfWindow > end_of_sack_range
            => picoquic_get_packet_number64(end_of_sack_range, Truncate(pn64)) = pn64
=============================================================================
