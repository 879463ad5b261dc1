------------------------ MODULE PacketNumber_proofs ------------------------
(***************************************************************************)
(* Packet numbers are recovered for windows of any size.                   *)
(***************************************************************************)
EXTENDS PacketNumber, TLAPS

(* Two multiples of the window are equal, or a window or more apart.       *)
LEMMA Multiples ==
  ASSUME NEW w \in Nat \ {0}, NEW q \in Int, NEW p \in Int,
         w * q - w * p < 2 * w, w * p - w * q < 2 * w
  PROVE  \/ w * q = w * p
         \/ w * q = w * p + w
         \/ w * q = w * p - w
<1> DEFINE d == q - p
<1>1. d \in Int /\ w * q - w * p = w * d
  BY SMT
<1>2. CASE d >= 2
  <2>1. w * d >= w * 2
    BY <1>1, <1>2
  <2>. QED
    BY <1>1, <2>1
<1>3. CASE d <= -2
  <2>1. w * d <= w * (-2)
    BY <1>1, <1>3
  <2>. QED
    BY <1>1, <2>1
<1>4. CASE d \in {-1, 0, 1}
  BY <1>1, <1>4
<1>. QED
  BY <1>1, <1>2, <1>3, <1>4

(* Masking the low bits, as division with remainder.                       *)
LEMMA Division ==
  ASSUME WindowSize, NEW n \in Nat
  PROVE  \E q \in Nat : /\ Masked(n) = Window * q
                        /\ n % Window \in 0..(Window - 1)
                        /\ n = Masked(n) + (n % Window)
                        /\ q > 0 => Window * q >= Window
                        /\ Window \in Nat \ {0}
<1>1. Window \in Nat \ {0}
  BY DEF WindowSize, Window
<1> DEFINE W == Window
<1> HIDE DEF W
<1>2. W \in Nat \ {0}
  BY <1>1 DEF W
<1>3. n = W * (n \div W) + (n % W) /\ n \div W \in Nat /\ n % W \in 0..(W - 1)
  <2>1. n % W \in 0..(W - 1)
    BY <1>2
  <2>2. n \div W \in Int /\ n = W * (n \div W) + (n % W)
    BY <1>2
  <2>3. n \div W \in Nat
    BY <1>2, <2>1, <2>2
  <2>. QED
    BY <2>1, <2>2, <2>3
<1>4. n \div W > 0 => W * (n \div W) >= W
  BY <1>2, <1>3
<1>5. n - (n % W) = W * (n \div W) /\ W * (n \div W) \in Nat
  BY <1>2, <1>3
<1>6. /\ Masked(n) = Window * (n \div W)
      /\ n % Window \in 0..(Window - 1)
      /\ n = Masked(n) + (n % Window)
      /\ n \div W > 0 => Window * (n \div W) >= Window
  BY <1>2, <1>3, <1>4, <1>5 DEF Masked, W
<1>7. n \div W \in Nat
  BY <1>3
<1> WITNESS n \div W \in Nat
<1>. QED
  BY <1>1, <1>6

(* The completed number is the one that was truncated, when that one lies  *)
(* at most half a window from the expected one (packet.c:419-442).         *)
THEOREM Completed ==
  ASSUME WindowSize, NEW highest \in Nat, NEW pn64 \in Nat,
         pn64 + HalfWindow > highest, pn64 <= highest + HalfWindow
  PROVE  picoquic_get_packet_number64(highest, Truncate(pn64)) = pn64
<1> DEFINE e == highest + 1
           pn == Truncate(pn64)
           guess == Masked(e) + pn
<1> SUFFICES picoquic_get_packet_number64(highest, pn) = pn64
  OBVIOUS
<1>0. e \in Nat
  OBVIOUS
<1>1. PICK p \in Nat : /\ Masked(e) = Window * p
                       /\ e % Window \in 0..(Window - 1)
                       /\ e = Masked(e) + (e % Window)
                       /\ p > 0 => Window * p >= Window
                       /\ Window \in Nat \ {0}
  BY <1>0, Division, Zenon
<1>2. PICK q \in Nat : /\ Masked(pn64) = Window * q
                       /\ pn64 % Window \in 0..(Window - 1)
                       /\ pn64 = Masked(pn64) + (pn64 % Window)
                       /\ q > 0 => Window * q >= Window
  BY Division, Zenon
<1>3. Window = 2 * HalfWindow /\ HalfWindow \in Nat \ {0} /\ e = highest + 1
  BY DEF WindowSize, Window
<1>4. /\ Masked(e) \in Nat /\ Masked(pn64) \in Nat
      /\ pn \in 0..(Window - 1) /\ pn64 = Masked(pn64) + pn
  BY <1>1, <1>2 DEF Truncate
<1>5. \/ Masked(pn64) = Masked(e)
      \/ Masked(pn64) = Masked(e) + Window
      \/ Masked(pn64) = Masked(e) - Window
  <2>1. /\ Window * q - Window * p < 2 * Window
        /\ Window * p - Window * q < 2 * Window
    BY <1>1, <1>2, <1>3, <1>4
  <2>. QED
    BY <1>1, <1>2, <2>1, Multiples
<1> HIDE DEF e, pn
<1>6. \/ guess = pn64
      \/ guess = pn64 - Window
      \/ guess = pn64 + Window
  BY <1>1, <1>4, <1>5
<1>7. guess = pn64 + Window => Masked(guess) > 0
  <2>1. PICK r \in Nat : /\ Masked(guess) = Window * r
                         /\ guess % Window \in 0..(Window - 1)
                         /\ guess = Masked(guess) + (guess % Window)
                         /\ r > 0 => Window * r >= Window
    <3>1. guess \in Nat
      BY <1>3, <1>4
    <3>. QED
      BY <3>1, Division, Zenon
  <2>. QED
    BY <1>3, <2>1
<1>8. picoquic_get_packet_number64(highest, pn) =
        IF guess < e
        THEN IF Window - (e - guess) < e - guess THEN guess + Window ELSE guess
        ELSE IF Window - (guess - e) <= guess - e /\ Masked(guess) > 0
             THEN guess - Window ELSE guess
  BY DEF picoquic_get_packet_number64, e
<1> HIDE DEF guess
<1>9. guess \in Int
  BY <1>3, <1>6
<1>10. CASE guess = pn64
  BY <1>3, <1>4, <1>8, <1>9, <1>10, SMTT(20)
<1>11. CASE guess = pn64 - Window
  BY <1>3, <1>8, <1>11
<1>12. CASE guess = pn64 + Window
  BY <1>3, <1>7, <1>8, <1>12
<1>. QED
  BY <1>6, <1>10, <1>11, <1>12

(* The type invariant is inductive.                                        *)
LEMMA Inductive == ASSUME WindowSize PROVE Spec => []TypeOK
<1>1. Init => TypeOK
  BY DEF WindowSize, Init, TypeOK
<1>2. ASSUME TypeOK, [Next]_vars PROVE TypeOK'
  <2>1. CASE Send
    BY <1>2, <2>1 DEF WindowSize, Send, TypeOK
  <2>2. CASE Incoming
    BY <1>2, <2>2 DEF WindowSize, Incoming, TypeOK
  <2>3. CASE UNCHANGED vars
    BY <1>2, <2>3 DEF TypeOK, vars
  <2>. QED
    BY <1>2, <2>1, <2>2, <2>3 DEF Next
<1>. QED
  BY <1>1, <1>2, PTL DEF Spec

(* Whatever was lost, repeated or reordered before, a packet at most half  *)
(* a window late gets its own number back, for every size of the window.   *)
THEOREM Recovered == ASSUME WindowSize PROVE Spec => []NumbersRecovered
<1>1. ASSUME TypeOK PROVE NumbersRecovered
  <2>1. SUFFICES ASSUME NEW pn64 \in 0..(send_sequence - 1),
                        pn64 + HalfWindow > end_of_sack_range
                 PROVE  picoquic_get_packet_number64(end_of_sack_range,
                                                     Truncate(pn64)) = pn64
    BY DEF NumbersRecovered
  <2>2. /\ pn64 \in Nat /\ end_of_sack_range \in Nat
        /\ pn64 <= end_of_sack_range + HalfWindow
    BY <1>1 DEF WindowSize, TypeOK
  <2>. QED
    BY <2>1, <2>2, Completed
<1>. QED
  BY <1>1, Inductive, PTL
=============================================================================
