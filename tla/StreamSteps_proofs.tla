-------------------------- MODULE StreamSteps_proofs --------------------------
(***************************************************************************)
(* What each step of StreamTransfer preserves, for any number of streams,  *)
(* bytes, packets and losses.  Most actions change nothing that the        *)
(* invariants are about: they are Still.  The others are a packet that     *)
(* leaves (fresh, repeated, cut in two or from the list of frames that     *)
(* wait), a frame that is given up or acknowledged, and a frame that       *)
(* arrives, for which StreamTransfer_proofs shows that it is an ArriveStep.*)
(***************************************************************************)
EXTENDS StreamTransfer, TLAPS

-----------------------------------------------------------------------------
(* The inductive invariant.                                                *)

(* The sender's side of a stream: what was sent is what was written until  *)
(* the stream ends, and only bytes that were sent are acknowledged, but    *)
(* for byte 0, which is so from the start, and a stream that is empty.     *)
Sending(h) ==
    /\ h.sent_offset <= h.written /\ h.written <= MaxBytes
    /\ h.fin_sent => h.written = h.sent_offset
    /\ h.reset_sent => h.fin_sent /\ h.reset_requested
    /\ h.fin_sent => h.reset_sent \/ h.fin_requested
    /\ ~h.fin_sent => h.sent_offset = 0 \/ MinFirst <= h.sent_offset
    /\ \/ h.fin_sent /\ h.sent_offset = 0
       \/ \A i \in h.sacks : i = 0 \/ i < h.sent_offset

(* A frame that was sent, of a stream h.                                   *)
Proper(f, h) ==
    /\ Numbered(f.offset, f.bytes)
    /\ End(f) <= h.sent_offset
    /\ f.fin => h.fin_sent /\ End(f) = h.sent_offset /\ f.type = "stream"
    /\ f.type = "reset" => h.reset_sent /\ f.offset = h.sent_offset /\ f.bytes = <<>>
    /\ f.type = "stream" =>
         /\ f.fin \/ Len(f.bytes) > 0
         /\ f.offset = 0 => f.fin \/ MinFirst <= Len(f.bytes)
         /\ f.offset = 0 \/ MinFirst <= f.offset

Misc == 1..Len(first_misc_frame)

(* A packet number is used once.                                           *)
SenderInv ==
    /\ \A s \in Streams : Sending(snd[s])
    /\ \A p \in retransmit \cup net : /\ Proper(p.frame, snd[p.frame.stream])
                                      /\ p.pn < send_sequence
    /\ \A p \in retransmit : \A m \in retransmit \cup net : p.pn = m.pn => p = m
    /\ \A k \in Misc : Proper(first_misc_frame[k], snd[first_misc_frame[k].stream])
    /\ \A n \in received : n < send_sequence

(* The receiver's side of a stream.                                        *)
HeldOf(h) == Held(h.stream_data, h.consumed_offset)
Receiving(h, from, read) ==
    /\ InOrder(h.stream_data, h.consumed_offset)
    /\ Ahead(h.stream_data, h.consumed_offset)
    /\ \A i \in HeldOf(h) : i < h.fin_offset
    /\ read = [i \in 1..h.consumed_offset |-> i - 1]
    /\ h.fin_offset <= from.sent_offset
    /\ h.fin_received => from.fin_sent /\ h.fin_offset = from.sent_offset
    /\ h.reset_received => from.reset_sent /\ h.fin_offset = from.sent_offset
    /\ h.fin_signalled => h.fin_received /\ h.consumed_offset = h.fin_offset
    /\ h.deleted => Notified(h)
ReceiverInv == \A s \in Streams : Receiving(rcv[s], snd[s], delivered[s])

Base == TypeOK /\ SenderInv /\ ReceiverInv

(* Arithmetic, apart from the contexts it is used in.                      *)
LEMMA LessDiffers ==
  ASSUME NEW m \in Nat, NEW n \in Nat, m < n
  PROVE  m # n
OBVIOUS

LEMMA InInterval ==
  ASSUME NEW i \in Nat, NEW x \in Nat, NEW y \in Nat, NEW o \in Nat, NEW l \in Nat,
         o <= x, x <= i, i < y, y <= o + l
  PROVE  i \in o..(o + l - 1) /\ l # 0
OBVIOUS

(* The list of frames that wait.                                           *)
LEMMA Prepend ==
  ASSUME NEW q \in Seq(Frame), NEW g \in Frame, NEW r, r = <<g>> \o q
  PROVE  /\ r \in Seq(Frame) /\ Len(r) = Len(q) + 1 /\ 1 \in 1..Len(r) /\ r[1] = g
         /\ \A k \in 1..Len(r) : k # 1 => k - 1 \in 1..Len(q) /\ r[k] = q[k - 1]
         /\ \A j \in 1..Len(q) : j + 1 \in 1..Len(r) /\ j + 1 # 1 /\ r[j + 1] = q[j]
<1>1. <<g>> \in Seq(Frame) /\ Len(<<g>>) = 1 /\ <<g>>[1] = g /\ Len(q) \in Nat
  OBVIOUS
<1> DEFINE a == <<g>>
<1>2. a \in Seq(Frame) /\ Len(a) = 1 /\ a[1] = g /\ r = a \o q
  BY <1>1
<1>. HIDE DEF a
<1>3. /\ r \in Seq(Frame) /\ Len(r) = 1 + Len(q)
      /\ \A k \in 1..Len(r) : r[k] = IF k <= 1 THEN a[k] ELSE q[k - 1]
  BY <1>1, <1>2
<1>. QED
  BY <1>1, <1>2, <1>3

LEMMA TakeFirst ==
  ASSUME NEW q \in Seq(Frame), q # <<>>
  PROVE  /\ Tail(q) \in Seq(Frame) /\ Head(q) \in Frame /\ 1 \in 1..Len(q) /\ q[1] = Head(q)
         /\ \A k \in 1..Len(Tail(q)) :
              k + 1 \in 1..Len(q) /\ k + 1 # 1 /\ Tail(q)[k] = q[k + 1]
         /\ \A j \in 1..Len(q) :
              j # 1 => j - 1 \in 1..Len(Tail(q)) /\ Tail(q)[j - 1] = q[j]
<1>1. /\ Tail(q) \in Seq(Frame) /\ Len(q) \in Nat /\ Len(q) > 0
      /\ Len(Tail(q)) = Len(q) - 1 /\ Head(q) = q[1]
      /\ \A k \in 1..(Len(q) - 1) : Tail(q)[k] = q[k + 1]
  OBVIOUS
<1>2. 1 \in 1..Len(q) /\ q[1] \in Frame
  BY <1>1
<1> DEFINE t == Tail(q)
<1>3. /\ \A k \in 1..Len(t) : t[k] = q[k + 1]
      /\ Len(t) = Len(q) - 1
  BY <1>1
<1>. HIDE DEF t
<1>4. \A k \in 1..Len(t) : k + 1 \in 1..Len(q) /\ k + 1 # 1 /\ t[k] = q[k + 1]
  BY <1>1, <1>3
<1>5. ASSUME NEW j \in 1..Len(q), j # 1 PROVE j - 1 \in 1..Len(t) /\ t[j - 1] = q[j]
  <2>1. j - 1 \in 1..Len(t) /\ (j - 1) + 1 = j
    BY <1>1, <1>3, <1>5
  <2>2. t[j - 1] = q[(j - 1) + 1]
    BY <1>3, <2>1
  <2>. QED
    BY <2>1, <2>2
<1>. QED
  BY <1>1, <1>2, <1>4, <1>5 DEF t

LEMMA MaxOfTwo ==
  ASSUME NEW a \in Nat, NEW b \in Nat
  PROVE  Max({a, b}) = IF a <= b THEN b ELSE a
<1> DEFINE T == {a, b}
<1>1. \E x \in T : \A y \in T : x >= y
  OBVIOUS
<1>2. Max(T) \in T /\ \A y \in T : Max(T) >= y
  <2>. HIDE DEF T
  <2>. QED
    BY Zenon, <1>1 DEF Max
<1>. QED
  BY <1>2

LEMMA MinOfTwo ==
  ASSUME NEW a \in Int, NEW b \in Int
  PROVE  Min({a, b}) = IF a <= b THEN a ELSE b
<1> DEFINE T == {a, b}
<1>1. \E x \in T : \A y \in T : x <= y
  OBVIOUS
<1>2. Min(T) \in T /\ \A y \in T : Min(T) <= y
  <2>. HIDE DEF T
  <2>. QED
    BY Zenon, <1>1 DEF Min
<1>. QED
  BY <1>2

(* The fields of a frame.                                                  *)
LEMMA FrameFields ==
  ASSUME NEW f \in Frame
  PROVE  /\ f.stream \in Streams /\ f.type \in {"stream", "reset"} /\ f.fin \in BOOLEAN
         /\ f.offset \in Nat /\ f.bytes \in Seq(Nat) /\ Len(f.bytes) \in Nat
         /\ End(f) = f.offset + Len(f.bytes)
BY DEF Frame, End

-----------------------------------------------------------------------------
(* Steps.                                                                  *)

(* How a stream may change at the sender.                                  *)
Grows(h, k) ==
    /\ h.sent_offset <= k.sent_offset
    /\ h.fin_sent => k.fin_sent /\ k.sent_offset = h.sent_offset
    /\ h.reset_sent => k.reset_sent
Same(h, k) ==
    /\ k.sent_offset = h.sent_offset /\ k.sacks = h.sacks
    /\ k.fin_sent = h.fin_sent /\ k.reset_sent = h.reset_sent
(* How it may change at the receiver when nothing arrives for it.          *)
Calm(h, k) ==
    /\ k.stream_data = h.stream_data /\ k.consumed_offset = h.consumed_offset
    /\ k.fin_offset = h.fin_offset /\ k.fin_received = h.fin_received
    /\ k.fin_signalled = h.fin_signalled /\ k.reset_received = h.reset_received
    /\ h.deleted => k.deleted
    /\ k.deleted => h.deleted \/ Notified(h)

SndStill ==
    /\ snd' \in [Streams -> SndStream]
    /\ \A x \in Streams : Sending(snd'[x]) /\ Same(snd[x], snd'[x])
    /\ UNCHANGED <<retransmit, first_misc_frame, send_sequence>>
RcvStill ==
    /\ rcv' \in [Streams -> RcvStream]
    /\ \A x \in Streams : Calm(rcv[x], rcv'[x])
    /\ UNCHANGED <<received, delivered>>
Still == SndStill /\ RcvStill /\ net' \subseteq net

(* Deletion changes nothing but the mark.                                  *)
LEMMA Closing1 ==
  ASSUME NEW h \in SndStream, NEW k, k = DeleteIfClosed(h)
  PROVE  /\ k \in SndStream /\ Same(h, k)
         /\ k.written = h.written /\ k.fin_requested = h.fin_requested
         /\ k.reset_requested = h.reset_requested
         /\ k.maxdata_remote = h.maxdata_remote
         /\ k.is_output_stream = h.is_output_stream /\ k.other_done = h.other_done
         /\ h.deleted => k.deleted
<1> DEFINE d == h.deleted \/ (~h.is_output_stream /\ SendFinished(h) /\ h.other_done)
<1>1. d \in BOOLEAN /\ (h.deleted => d)
  BY DEF SndStream
<1>2. k = [h EXCEPT !.deleted = d]
  BY DEF DeleteIfClosed
<1>. HIDE DEF d
<1>. QED
  BY <1>1, <1>2 DEF SndStream, Same

(* What holds of the sender's side of a stream holds after it.             *)
LEMMA SendingSame ==
  ASSUME NEW h \in SndStream, Sending(h), NEW k \in SndStream, Same(h, k),
         k.written = h.written, k.fin_requested = h.fin_requested,
         k.reset_requested = h.reset_requested
  PROVE  Sending(k)
BY DEF Sending, Same, SndStream

LEMMA SameGrows ==
  ASSUME NEW h \in SndStream, NEW k \in SndStream, Same(h, k)
  PROVE  Grows(h, k)
BY DEF Same, Grows, SndStream

(* One stream changes.                                                     *)
LEMMA OneStream ==
  ASSUME TypeOK, NEW s \in Streams, NEW k \in SndStream, snd' = [snd EXCEPT ![s] = k]
  PROVE  /\ snd' \in [Streams -> SndStream] /\ snd'[s] = k
         /\ \A x \in Streams : x # s => snd'[x] = snd[x]
BY DEF TypeOK

LEMMA OneStill ==
  ASSUME TypeOK, SenderInv, NEW s \in Streams, NEW k \in SndStream,
         snd' = [snd EXCEPT ![s] = k], Sending(k), Same(snd[s], k),
         UNCHANGED <<retransmit, first_misc_frame, send_sequence>>
  PROVE  SndStill
<1>1. /\ snd' \in [Streams -> SndStream] /\ snd'[s] = k
      /\ \A x \in Streams : x # s => snd'[x] = snd[x]
  BY Zenon, OneStream
<1>2. \A x \in Streams : Sending(snd'[x]) /\ Same(snd[x], snd'[x])
  BY <1>1 DEF SenderInv, Same
<1>. QED
  BY <1>1, <1>2 DEF SndStill

LEMMA SndUnchanged ==
  ASSUME TypeOK, SenderInv, UNCHANGED <<snd, retransmit, first_misc_frame, send_sequence>>
  PROVE  SndStill
BY DEF SndStill, TypeOK, SenderInv, Same

LEMMA RcvUnchanged ==
  ASSUME TypeOK, UNCHANGED <<rcv, received, delivered>>
  PROVE  RcvStill
BY DEF RcvStill, TypeOK, Calm

(* picoquic_add_to_stream.                                                 *)
LEMMA AddIsStill ==
  ASSUME TypeOK, SenderInv, NEW s \in Streams, AddToStream(s)
  PROVE  SndStill
<1>1. PICK length \in 0..(MaxBytes - snd[s].written), set_fin \in BOOLEAN :
        snd' = [snd EXCEPT ![s].fin_requested = set_fin,
                           ![s].written = IF snd[s].reset_sent THEN @ ELSE @ + length]
  BY Zenon DEF AddToStream
<1> DEFINE h == snd[s]
           w == IF h.reset_sent THEN h.written ELSE h.written + length
           k == [h EXCEPT !.fin_requested = set_fin, !.written = w]
<1>2. h \in SndStream /\ Sending(h) /\ ~h.fin_requested
  BY DEF TypeOK, SenderInv, AddToStream
<1>3. snd' = [snd EXCEPT ![s] = k]
  BY Zenon, <1>1 DEF TypeOK, SndStream
<1>4. w \in Nat /\ h.written <= w /\ w <= MaxBytes /\ (h.reset_sent => w = h.written)
  BY <1>2, SizesAssumption DEF SndStream, Sending
<1>. HIDE DEF h, w
<1>5. /\ k \in SndStream /\ Same(h, k) /\ k.written = w
      /\ k.reset_requested = h.reset_requested
  BY Zenon, <1>2, <1>4 DEF SndStream, Same
<1>6. Sending(k)
  BY <1>2, <1>4, <1>5 DEF Sending, Same, SndStream
<1>. HIDE DEF k
<1>. QED
  BY Zenon, <1>3, <1>5, <1>6, OneStill DEF AddToStream, h

(* picoquic_reset_stream.                                                  *)
LEMMA ResetIsStill ==
  ASSUME TypeOK, SenderInv, NEW s \in Streams, ResetStream(s)
  PROVE  SndStill
<1> DEFINE h == snd[s]
           k == [h EXCEPT !.reset_requested = TRUE]
<1>1. h \in SndStream /\ Sending(h)
  BY DEF TypeOK, SenderInv
<1>2. snd' = [snd EXCEPT ![s] = k]
  BY DEF ResetStream, TypeOK, SndStream
<1>. HIDE DEF h
<1>3. /\ k \in SndStream /\ Same(h, k) /\ k.written = h.written
      /\ k.fin_requested = h.fin_requested /\ k.reset_requested
  BY Zenon, <1>1 DEF SndStream, Same
<1>4. Sending(k)
  BY <1>1, <1>3 DEF Sending, Same, SndStream
<1>. HIDE DEF k
<1>. QED
  BY Zenon, <1>2, <1>3, <1>4, OneStill DEF ResetStream, h

(* A mark of the stream changes, and the stream may be deleted.            *)
LEMMA MarkIsStill ==
  ASSUME TypeOK, SenderInv, NEW s \in Streams,
         LeaveOutput(s) \/ OtherDirectionReceived(s)
  PROVE  SndStill
<1> DEFINE h == snd[s]
<1>1. h \in SndStream /\ Sending(h)
  BY DEF TypeOK, SenderInv
<1>2. PICK m \in SndStream :
        /\ Same(h, m) /\ m.written = h.written /\ m.fin_requested = h.fin_requested
        /\ m.reset_requested = h.reset_requested
        /\ snd' = [snd EXCEPT ![s] = DeleteIfClosed(m)]
  <2>1. CASE LeaveOutput(s)
    <3> DEFINE m == [h EXCEPT !.is_output_stream = FALSE]
    <3>1. /\ m \in SndStream /\ Same(h, m) /\ m.written = h.written
          /\ m.fin_requested = h.fin_requested /\ m.reset_requested = h.reset_requested
      BY Zenon, <1>1 DEF SndStream, Same
    <3>2. snd' = [snd EXCEPT ![s] = DeleteIfClosed(m)]
      BY <2>1 DEF LeaveOutput
    <3>. QED
      BY Zenon, <3>1, <3>2
  <2>2. CASE OtherDirectionReceived(s)
    <3> DEFINE m == [h EXCEPT !.other_done = TRUE]
    <3>1. /\ m \in SndStream /\ Same(h, m) /\ m.written = h.written
          /\ m.fin_requested = h.fin_requested /\ m.reset_requested = h.reset_requested
      BY Zenon, <1>1 DEF SndStream, Same
    <3>2. snd' = [snd EXCEPT ![s] = DeleteIfClosed(m)]
      BY <2>2 DEF OtherDirectionReceived
    <3>. QED
      BY Zenon, <3>1, <3>2
  <2>. QED
    BY <2>1, <2>2
<1> DEFINE k == DeleteIfClosed(m)
<1>. HIDE DEF h
<1>3. /\ k \in SndStream /\ Same(m, k) /\ k.written = m.written
      /\ k.fin_requested = m.fin_requested /\ k.reset_requested = m.reset_requested
  BY Closing1
<1>. HIDE DEF k
<1>4. /\ Same(h, k) /\ k.written = h.written /\ k.fin_requested = h.fin_requested
      /\ k.reset_requested = h.reset_requested
  BY <1>2, <1>3 DEF Same
<1>5. Sending(k)
  BY <1>1, <1>3, <1>4, SendingSame
<1>6. UNCHANGED <<retransmit, first_misc_frame, send_sequence>>
  BY DEF LeaveOutput, OtherDirectionReceived
<1>7. snd' = [snd EXCEPT ![s] = k] /\ Same(snd[s], k)
  BY <1>2, <1>4 DEF k, h
<1>. QED
  BY Zenon, <1>3, <1>5, <1>6, <1>7, OneStill

(* picoquic_decode_max_data_frame, picoquic_decode_max_stream_data_frame.  *)
LEMMA CreditIsStill ==
  ASSUME TypeOK, SenderInv, DecodeCredit
  PROVE  SndStill /\ maxdata_remote' \in Nat
<1>1. PICK c \in credit_net :
        IF c.type = "max_data"
        THEN /\ maxdata_remote' = Max({maxdata_remote, c.maxdata})
             /\ UNCHANGED snd
        ELSE /\ snd' = IF snd[c.stream].deleted THEN snd
                       ELSE [snd EXCEPT ![c.stream].maxdata_remote =
                               Max({@, c.maxdata})]
             /\ UNCHANGED maxdata_remote
  BY Zenon DEF DecodeCredit
<1>2. UNCHANGED <<retransmit, first_misc_frame, send_sequence>> /\ maxdata_remote \in Nat
  BY DEF DecodeCredit, TypeOK
<1>3. c \in Credit
  BY DEF TypeOK
<1>4. CASE c.type = "max_data"
  <2>1. c.maxdata \in Nat /\ UNCHANGED snd
    BY <1>1, <1>3, <1>4 DEF Credit
  <2>2. maxdata_remote' \in Nat
    BY <1>1, <1>2, <1>4, <2>1, MaxOfTwo
  <2>. QED
    BY <1>2, <2>1, <2>2, SndUnchanged
<1>5. CASE c.type # "max_data" /\ snd[c.stream].deleted
  <2>1. UNCHANGED <<snd, maxdata_remote>>
    BY <1>1, <1>5
  <2>. QED
    BY <1>2, <2>1, SndUnchanged
<1>6. CASE c.type # "max_data" /\ ~snd[c.stream].deleted
  <2> DEFINE s == c.stream
             h == snd[s]
             w == Max({h.maxdata_remote, c.maxdata})
             k == [h EXCEPT !.maxdata_remote = w]
  <2>1. s \in Streams /\ c.maxdata \in Nat
    BY <1>3, <1>6 DEF Credit
  <2>2. h \in SndStream /\ Sending(h) /\ h.maxdata_remote \in Nat
    BY <2>1 DEF TypeOK, SenderInv, SndStream
  <2>3. w \in Nat
    BY <2>1, <2>2, MaxOfTwo
  <2>4. snd' = [snd EXCEPT ![s] = k] /\ UNCHANGED maxdata_remote
    BY <1>1, <1>6
  <2>. HIDE DEF h, w
  <2>5. /\ k \in SndStream /\ Same(h, k) /\ k.written = h.written
        /\ k.fin_requested = h.fin_requested /\ k.reset_requested = h.reset_requested
    BY <2>2, <2>3 DEF SndStream, Same
  <2>. HIDE DEF k
  <2>6. Sending(k)
    BY <2>2, <2>5, SendingSame
  <2>. QED
    BY Zenon, <1>2, <2>1, <2>4, <2>5, <2>6, OneStill DEF h
<1>. QED
  BY <1>4, <1>5, <1>6

(* The other direction of the stream is complete at the receiver.          *)
LEMMA OtherSentIsStill ==
  ASSUME TypeOK, ReceiverInv, NEW s \in Streams, OtherDirectionSent(s)
  PROVE  RcvStill
<1> DEFINE h == rcv[s]
           n == Notified(h)
           k == [h EXCEPT !.other_done = TRUE, !.deleted = n]
<1>1. h \in RcvStream /\ (h.deleted => n)
  BY DEF TypeOK, ReceiverInv, Receiving
<1>2. n \in BOOLEAN
  BY <1>1 DEF Notified, RcvStream
<1>3. rcv' = [rcv EXCEPT ![s] = k]
  BY Zenon DEF OtherDirectionSent, TypeOK, RcvStream
<1>4. k \in RcvStream /\ Calm(h, k)
  <2>. HIDE DEF n, h
  <2>1. k \in RcvStream /\ k.deleted = n
    BY Zenon, <1>1, <1>2 DEF RcvStream
  <2>2. /\ k.stream_data = h.stream_data /\ k.consumed_offset = h.consumed_offset
        /\ k.fin_offset = h.fin_offset /\ k.fin_received = h.fin_received
        /\ k.fin_signalled = h.fin_signalled /\ k.reset_received = h.reset_received
    BY <1>1 DEF RcvStream
  <2>. QED
    BY <1>1, <2>1, <2>2 DEF Calm, n
<1>. HIDE DEF k
<1>5. /\ rcv' \in [Streams -> RcvStream]
      /\ \A x \in Streams : rcv'[x] = IF x = s THEN k ELSE rcv[x]
  BY <1>3, <1>4 DEF TypeOK
<1>6. \A x \in Streams : Calm(rcv[x], rcv'[x])
  BY <1>4, <1>5 DEF Calm
<1>. QED
  BY <1>5, <1>6 DEF RcvStill, OtherDirectionSent

(* picoquic_prepare_required_max_stream_data_frames.                       *)
LEMMA LimitsAreStill ==
  ASSUME TypeOK, PrepareMaxStreamData
  PROVE  /\ RcvStill /\ credits' \subseteq Credit /\ credit_net' \subseteq Credit
         /\ \A s \in Streams : rcv[s].maxdata_local <= rcv'[s].maxdata_local
<1> DEFINE needed == {s \in Streams : NeedsCredit(rcv[s])}
           frames == {[type |-> "max_stream_data", stream |-> s,
                       maxdata |-> NewLimit(rcv[s])] : s \in needed}
<1>1. \A s \in Streams : rcv[s] \in RcvStream
  BY DEF TypeOK
<1>2. \A s \in Streams : NewLimit(rcv[s]) \in Nat /\ rcv[s].maxdata_local <= NewLimit(rcv[s])
  BY <1>1 DEF NewLimit, RcvStream
<1>3. \A c \in frames : c \in Credit
  BY <1>2 DEF Credit
<1>4. credits' = credits \cup frames /\ credit_net' = credit_net \cup frames
  BY DEF PrepareMaxStreamData
<1>5. rcv' = [s \in Streams |-> IF s \in needed
                  THEN [rcv[s] EXCEPT !.maxdata_local = NewLimit(rcv[s])]
                  ELSE rcv[s]]
  BY DEF PrepareMaxStreamData
<1>. HIDE DEF needed, frames
<1>6. ASSUME NEW s \in Streams
      PROVE  /\ rcv'[s] \in RcvStream /\ Calm(rcv[s], rcv'[s])
             /\ rcv[s].maxdata_local <= rcv'[s].maxdata_local
  <2>1. CASE s \notin needed
    <3>1. rcv'[s] = rcv[s]
      BY <1>5, <2>1
    <3>. QED
      BY <1>1, <3>1 DEF Calm, RcvStream
  <2>2. CASE s \in needed
    <3>1. rcv'[s] = [rcv[s] EXCEPT !.maxdata_local = NewLimit(rcv[s])]
      BY <1>5, <2>2
    <3>. QED
      BY <1>1, <1>2, <3>1 DEF Calm, RcvStream
  <2>. QED
    BY <2>1, <2>2
<1>7. rcv' \in [Streams -> RcvStream]
  BY <1>5, <1>6
<1>8. UNCHANGED <<received, delivered>> /\ credits \subseteq Credit /\ credit_net \subseteq Credit
  BY DEF PrepareMaxStreamData, TypeOK
<1>. QED
  BY <1>3, <1>4, <1>6, <1>7, <1>8 DEF RcvStill

-----------------------------------------------------------------------------
(* The types, and what holds of the sender and of the receiver, after a    *)
(* step that is Still.                                                     *)
Numbers ==
    /\ data_sent \in Nat /\ maxdata_remote \in Nat
    /\ data_received \in Nat /\ maxdata_local \in Nat
    /\ credits \subseteq Credit /\ credit_net \subseteq Credit
StillAction ==
    \/ \E s \in Streams : \/ AddToStream(s) \/ ResetStream(s) \/ LeaveOutput(s)
                          \/ OtherDirectionReceived(s) \/ OtherDirectionSent(s)
    \/ DecodeCredit \/ Lose
    \/ PrepareMaxData \/ PrepareMaxStreamData \/ RepeatCredit
    \/ UNCHANGED vars

LEMMA StillSteps ==
  ASSUME Base, StillAction
  PROVE  Still /\ Numbers'
<1>1. TypeOK /\ SenderInv /\ ReceiverInv /\ Numbers
  BY DEF Base, TypeOK, Numbers
<1>2. ASSUME NEW s \in Streams,
             \/ AddToStream(s) \/ ResetStream(s) \/ LeaveOutput(s)
             \/ OtherDirectionReceived(s)
      PROVE  Still /\ Numbers'
  <2>1. SndStill
    BY <1>1, <1>2, AddIsStill, ResetIsStill, MarkIsStill
  <2>2. UNCHANGED <<net, receiverVars, creditVars, data_sent, maxdata_remote>>
    BY <1>2 DEF AddToStream, ResetStream, LeaveOutput, OtherDirectionReceived
  <2>3. RcvStill
    BY <1>1, <2>2, RcvUnchanged DEF receiverVars
  <2>4. net' \subseteq net
    BY <2>2
  <2>5. Numbers'
    BY <1>1, <2>2 DEF Numbers, receiverVars, creditVars
  <2>. QED
    BY <2>1, <2>3, <2>4, <2>5 DEF Still
<1>3. ASSUME NEW s \in Streams, OtherDirectionSent(s)
      PROVE  Still /\ Numbers'
  <2>1. RcvStill
    BY <1>1, <1>3, OtherSentIsStill
  <2>2. UNCHANGED <<senderVars, net, data_received, maxdata_local, creditVars>>
    BY <1>3 DEF OtherDirectionSent
  <2>3. SndStill
    BY <1>1, <2>2, SndUnchanged DEF senderVars
  <2>4. net' \subseteq net
    BY <2>2
  <2>5. Numbers'
    BY <1>1, <2>2 DEF Numbers, senderVars, creditVars
  <2>. QED
    BY <2>1, <2>3, <2>4, <2>5 DEF Still
<1>4. CASE DecodeCredit
  <2>1. SndStill /\ maxdata_remote' \in Nat
    BY <1>1, <1>4, CreditIsStill
  <2>2. /\ UNCHANGED <<net, receiverVars, data_sent>>
        /\ credits' \subseteq credits /\ credit_net' \subseteq credit_net
    BY <1>4 DEF DecodeCredit
  <2>3. RcvStill
    BY <1>1, <2>2, RcvUnchanged DEF receiverVars
  <2>4. net' \subseteq net
    BY <2>2
  <2>5. Numbers'
    BY <1>1, <2>1, <2>2 DEF Numbers, receiverVars
  <2>. QED
    BY <2>1, <2>3, <2>4, <2>5 DEF Still
<1>5. CASE Lose
  <2>1. /\ UNCHANGED <<senderVars, receiverVars, credits>>
        /\ net' \subseteq net /\ credit_net' \subseteq credit_net
    BY <1>5 DEF Lose
  <2>2. RcvStill
    BY <1>1, <2>1, RcvUnchanged DEF receiverVars
  <2>3. SndStill
    BY <1>1, <2>1, SndUnchanged DEF senderVars
  <2>4. Numbers'
    BY <1>1, <2>1 DEF Numbers, receiverVars, senderVars
  <2>. QED
    BY <2>1, <2>2, <2>3, <2>4 DEF Still
<1>6. CASE PrepareMaxData \/ RepeatCredit \/ UNCHANGED vars
  <2>1. UNCHANGED <<senderVars, net, rcv, received, delivered, data_received>>
    BY <1>6 DEF PrepareMaxData, RepeatCredit, receiverVars, vars
  <2>2. RcvStill
    BY <1>1, <2>1, RcvUnchanged
  <2>3. SndStill /\ net' \subseteq net
    BY <1>1, <2>1, SndUnchanged DEF senderVars
  <2>4. /\ maxdata_local' \in Nat
        /\ credits' \subseteq Credit /\ credit_net' \subseteq Credit
    <3>1. CASE PrepareMaxData
      <4> DEFINE c == [type |-> "max_data", maxdata |-> maxdata_local + 2 * data_received]
      <4>1. c \in Credit /\ c.maxdata \in Nat
        BY <1>1 DEF Credit, Numbers
      <4>2. /\ maxdata_local' = c.maxdata /\ credits' = credits \cup {c}
            /\ credit_net' = credit_net \cup {c}
        BY <3>1 DEF PrepareMaxData
      <4>. QED
        BY <1>1, <4>1, <4>2 DEF Numbers
    <3>2. CASE RepeatCredit
      <4>1. UNCHANGED maxdata_local
        BY <3>2 DEF RepeatCredit, receiverVars
      <4>2. credits' \subseteq credits /\ credit_net' \subseteq credit_net \cup credits
        BY <3>2 DEF RepeatCredit
      <4>. QED
        BY <1>1, <4>1, <4>2 DEF Numbers
    <3>3. CASE UNCHANGED vars
      BY <1>1, <3>3 DEF Numbers, vars, receiverVars, creditVars
    <3>. QED
      BY <1>6, <3>1, <3>2, <3>3
  <2>5. Numbers'
    BY <1>1, <2>1, <2>4 DEF Numbers, senderVars
  <2>. QED
    BY <2>2, <2>3, <2>5 DEF Still
<1>7. CASE PrepareMaxStreamData
  <2>1. RcvStill /\ credits' \subseteq Credit /\ credit_net' \subseteq Credit
    BY <1>1, <1>7, LimitsAreStill
  <2>2. UNCHANGED <<senderVars, net, data_received, maxdata_local>>
    BY <1>7 DEF PrepareMaxStreamData
  <2>3. SndStill /\ net' \subseteq net
    BY <1>1, <2>2, SndUnchanged DEF senderVars
  <2>4. Numbers'
    BY <1>1, <2>1, <2>2 DEF Numbers, senderVars
  <2>. QED
    BY <2>1, <2>3, <2>4 DEF Still
<1>. QED
  BY <1>2, <1>3, <1>4, <1>5, <1>6, <1>7 DEF StillAction

(* A frame of a stream stays proper as the stream grows.                   *)
LEMMA ProperStays ==
  ASSUME NEW f \in Frame, NEW h \in SndStream, NEW k \in SndStream,
         Sending(h), Proper(f, h), Grows(h, k)
  PROVE  Proper(f, k)
<1>1. End(f) \in Nat
  BY DEF End, Frame
<1>2. /\ Numbered(f.offset, f.bytes) /\ End(f) <= h.sent_offset
      /\ f.fin => h.fin_sent /\ End(f) = h.sent_offset /\ f.type = "stream"
      /\ f.type = "reset" => /\ h.reset_sent /\ h.fin_sent
                             /\ f.offset = h.sent_offset /\ f.bytes = <<>>
      /\ f.type = "stream" =>
           /\ f.fin \/ Len(f.bytes) > 0
           /\ f.offset = 0 => f.fin \/ MinFirst <= Len(f.bytes)
           /\ f.offset = 0 \/ MinFirst <= f.offset
  BY DEF Proper, Sending
<1>3. /\ h.sent_offset \in Nat /\ k.sent_offset \in Nat /\ h.sent_offset <= k.sent_offset
      /\ h.fin_sent => k.fin_sent /\ k.sent_offset = h.sent_offset
      /\ h.reset_sent => k.reset_sent
  BY DEF Grows, SndStream
<1>4. End(f) <= k.sent_offset
  BY <1>1, <1>2, <1>3
<1>. QED
  BY <1>2, <1>3, <1>4 DEF Proper

(* So do all of them when the streams do.                                  *)
AllGrow ==
    /\ snd' \in [Streams -> SndStream]
    /\ \A x \in Streams : Sending(snd'[x]) /\ Grows(snd[x], snd'[x])
LEMMA ProperAll ==
  ASSUME TypeOK, SenderInv, AllGrow, NEW f \in Frame, Proper(f, snd[f.stream])
  PROVE  Proper(f, snd'[f.stream])
<1> DEFINE x == f.stream
<1>1. x \in Streams
  BY DEF Frame
<1>2. /\ snd[x] \in SndStream /\ snd'[x] \in SndStream /\ Sending(snd[x])
      /\ Grows(snd[x], snd'[x])
  BY <1>1 DEF TypeOK, SenderInv, AllGrow
<1>. HIDE DEF x
<1>3. Proper(f, snd[x])
  BY DEF x
<1>4. Proper(f, snd'[x])
  BY <1>2, <1>3, ProperStays
<1>. QED
  BY <1>4 DEF x

LEMMA StillGrows ==
  ASSUME TypeOK, SndStill
  PROVE  AllGrow
BY SameGrows DEF TypeOK, SndStill, AllGrow

(* No packet leaves.                                                       *)
LEMMA SenderNoPacket ==
  ASSUME TypeOK, SenderInv, AllGrow,
         retransmit' \subseteq retransmit, net' \subseteq net,
         send_sequence' = send_sequence,
         \A k \in Misc' : \/ \E j \in Misc : first_misc_frame'[k] = first_misc_frame[j]
                          \/ \E p \in retransmit : first_misc_frame'[k] = p.frame,
         \A n \in received' : n \in received \/ \E p \in net : n = p.pn
  PROVE  SenderInv'
<1>1. \A p \in retransmit \cup net : p \in Packet /\ p.frame \in Frame
  BY DEF TypeOK, Packet
<1>2. /\ \A p \in retransmit \cup net : /\ Proper(p.frame, snd'[p.frame.stream])
                                        /\ p.pn < send_sequence
      /\ \A k \in Misc : Proper(first_misc_frame[k], snd'[first_misc_frame[k].stream])
  <2>1. ASSUME NEW p \in retransmit \cup net
        PROVE  Proper(p.frame, snd'[p.frame.stream]) /\ p.pn < send_sequence
    <3>1. p.frame \in Frame /\ Proper(p.frame, snd[p.frame.stream]) /\ p.pn < send_sequence
      BY <1>1 DEF SenderInv
    <3>. QED
      BY Zenon, <3>1, ProperAll
  <2>2. ASSUME NEW k \in Misc
        PROVE  Proper(first_misc_frame[k], snd'[first_misc_frame[k].stream])
    <3>1. /\ first_misc_frame[k] \in Frame
          /\ Proper(first_misc_frame[k], snd[first_misc_frame[k].stream])
      BY DEF TypeOK, SenderInv, Misc
    <3>. QED
      BY Zenon, <3>1, ProperAll
  <2>. QED
    BY <2>1, <2>2
<1>3. \A s \in Streams : Sending(snd'[s])
  BY DEF AllGrow
<1>4. \A p \in retransmit' \cup net' : /\ Proper(p.frame, snd'[p.frame.stream])
                                       /\ p.pn < send_sequence'
  BY <1>2
<1>5. \A p \in retransmit' : \A m \in retransmit' \cup net' : p.pn = m.pn => p = m
  BY DEF SenderInv
<1>6. \A k \in Misc' : Proper(first_misc_frame'[k], snd'[first_misc_frame'[k].stream])
  BY Zenon, <1>2
<1>7. \A n \in received' : n < send_sequence'
  BY <1>2 DEF SenderInv
<1>. QED
  BY <1>3, <1>4, <1>5, <1>6, <1>7 DEF SenderInv

(* The packet N leaves.                                                    *)
LEMMA SenderPacket ==
  ASSUME TypeOK, SenderInv, AllGrow, NEW N \in Packet, N.pn = send_sequence,
         Proper(N.frame, snd'[N.frame.stream]),
         retransmit' \subseteq retransmit \cup {N}, net' \subseteq net \cup {N},
         send_sequence' = send_sequence + 1,
         \A k \in Misc' : \/ \E j \in Misc : first_misc_frame'[k] = first_misc_frame[j]
                          \/ Proper(first_misc_frame'[k], snd'[first_misc_frame'[k].stream]),
         received' = received
  PROVE  SenderInv'
<1>1. \A p \in retransmit \cup net : p \in Packet /\ p.frame \in Frame /\ p.pn \in Nat
  BY DEF TypeOK, Packet
<1>2. /\ \A p \in retransmit \cup net : /\ Proper(p.frame, snd'[p.frame.stream])
                                        /\ p.pn < send_sequence
      /\ \A k \in Misc : Proper(first_misc_frame[k], snd'[first_misc_frame[k].stream])
  <2>1. ASSUME NEW p \in retransmit \cup net
        PROVE  Proper(p.frame, snd'[p.frame.stream]) /\ p.pn < send_sequence
    <3>1. p.frame \in Frame /\ Proper(p.frame, snd[p.frame.stream]) /\ p.pn < send_sequence
      BY <1>1 DEF SenderInv
    <3>. QED
      BY Zenon, <3>1, ProperAll
  <2>2. ASSUME NEW k \in Misc
        PROVE  Proper(first_misc_frame[k], snd'[first_misc_frame[k].stream])
    <3>1. /\ first_misc_frame[k] \in Frame
          /\ Proper(first_misc_frame[k], snd[first_misc_frame[k].stream])
      BY DEF TypeOK, SenderInv, Misc
    <3>. QED
      BY Zenon, <3>1, ProperAll
  <2>. QED
    BY <2>1, <2>2
<1>3. \A s \in Streams : Sending(snd'[s])
  BY DEF AllGrow
<1>4. send_sequence \in Nat /\ \A n \in received : n \in Nat
  BY DEF TypeOK
<1>5. \A p \in retransmit' \cup net' : /\ Proper(p.frame, snd'[p.frame.stream])
                                       /\ p.pn < send_sequence'
  BY <1>1, <1>2, <1>4
<1>6. \A p \in retransmit' : \A m \in retransmit' \cup net' : p.pn = m.pn => p = m
  <2>1. \A p \in retransmit \cup net : p.pn # N.pn
    BY <1>1, <1>2, <1>4
  <2>. QED
    BY Zenon, <2>1 DEF SenderInv
<1>7. \A k \in Misc' : Proper(first_misc_frame'[k], snd'[first_misc_frame'[k].stream])
  BY Zenon, <1>2
<1>8. \A n \in received' : n < send_sequence'
  BY <1>4 DEF SenderInv
<1>. QED
  BY <1>3, <1>5, <1>6, <1>7, <1>8 DEF SenderInv

(* The receiver's side of a stream, when nothing arrives for it.           *)
LEMMA ReceivingStays ==
  ASSUME NEW h \in RcvStream, NEW k \in RcvStream, Calm(h, k),
         NEW f \in SndStream, NEW g \in SndStream, Sending(f), Grows(f, g),
         NEW read, Receiving(h, f, read)
  PROVE  Receiving(k, g, read)
<1>1. HeldOf(k) = HeldOf(h)
  BY DEF HeldOf, Calm
<1>2. /\ InOrder(k.stream_data, k.consumed_offset) /\ Ahead(k.stream_data, k.consumed_offset)
      /\ \A i \in HeldOf(k) : i < k.fin_offset
      /\ read = [i \in 1..k.consumed_offset |-> i - 1]
  BY <1>1 DEF Receiving, Calm
<1>3. /\ k.fin_offset = h.fin_offset /\ h.fin_offset <= f.sent_offset
      /\ f.sent_offset <= g.sent_offset
      /\ h.fin_offset \in Nat /\ f.sent_offset \in Nat /\ g.sent_offset \in Nat
  BY DEF Receiving, Calm, Grows, RcvStream, SndStream
<1>4. /\ k.fin_received => g.fin_sent /\ k.fin_offset = g.sent_offset
      /\ k.reset_received => g.reset_sent /\ k.fin_offset = g.sent_offset
  BY DEF Receiving, Calm, Grows, Sending
<1>5. k.fin_signalled => k.fin_received /\ k.consumed_offset = k.fin_offset
  BY DEF Receiving, Calm
<1>6. k.deleted => Notified(k)
  BY DEF Receiving, Calm, Notified
<1>. QED
  BY <1>2, <1>3, <1>4, <1>5, <1>6 DEF Receiving

LEMMA ReceiverStays ==
  ASSUME Base, AllGrow, RcvStill
  PROVE  ReceiverInv'
<1>1. ASSUME NEW s \in Streams
      PROVE  Receiving(rcv'[s], snd'[s], delivered'[s])
  <2>1. /\ rcv[s] \in RcvStream /\ rcv'[s] \in RcvStream /\ Calm(rcv[s], rcv'[s])
        /\ delivered' = delivered
    BY DEF Base, TypeOK, RcvStill
  <2>2. /\ snd[s] \in SndStream /\ snd'[s] \in SndStream /\ Sending(snd[s])
        /\ Grows(snd[s], snd'[s])
    BY DEF Base, TypeOK, SenderInv, AllGrow
  <2>3. Receiving(rcv[s], snd[s], delivered[s])
    BY DEF Base, ReceiverInv
  <2>4. Receiving(rcv'[s], snd'[s], delivered[s])
    BY <2>1, <2>2, <2>3, ReceivingStays
  <2>. QED
    BY <2>1, <2>4
<1>. QED
  BY <1>1 DEF ReceiverInv

LEMMA StillBase ==
  ASSUME Base, Still, Numbers'
  PROVE  Base'
<1>1. TypeOK'
  BY DEF Base, TypeOK, Still, SndStill, RcvStill, Numbers
<1>2. AllGrow
  BY StillGrows DEF Base, Still
<1>3. /\ retransmit' = retransmit /\ net' \subseteq net /\ send_sequence' = send_sequence
      /\ first_misc_frame' = first_misc_frame /\ received' = received
  BY DEF Still, SndStill, RcvStill
<1>4. SenderInv'
  <2>1. \A k \in Misc' : \E j \in Misc : first_misc_frame'[k] = first_misc_frame[j]
    BY <1>3 DEF Misc
  <2>. QED
    BY <1>2, <1>3, <2>1, SenderNoPacket DEF Base
<1>5. ReceiverInv'
  BY <1>2, ReceiverStays DEF Base, Still
<1>. QED
  BY <1>1, <1>4, <1>5 DEF Base

-----------------------------------------------------------------------------
(* Packets that leave.                                                     *)
Sent(f) == [pn |-> send_sequence, frame |-> f]

LEMMA Transmitted ==
  ASSUME TypeOK, NEW queue, NEW f \in Frame, Transmit(queue, f)
  PROVE  /\ Sent(f) \in Packet /\ Sent(f).pn = send_sequence /\ Sent(f).frame = f
         /\ net' = net \cup {Sent(f)} /\ retransmit' = queue \cup {Sent(f)}
         /\ send_sequence' = send_sequence + 1
BY DEF TypeOK, Packet, Transmit, Sent

(* The types after a packet has left or a frame was given up.              *)
LEMMA SenderTypes ==
  ASSUME TypeOK, snd' \in [Streams -> SndStream], data_sent' \in Nat,
         UNCHANGED <<maxdata_remote, receiverVars, creditVars>>,
         retransmit' \subseteq Packet, net' \subseteq Packet,
         first_misc_frame' \in Seq(Frame), send_sequence' \in Nat
  PROVE  TypeOK'
BY DEF TypeOK, receiverVars, creditVars

(* picoquic_prepare_stream_reset_frame: the stream ends where it is.       *)
LEMMA ResetLeaves ==
  ASSUME TypeOK, SenderInv, NEW s \in Streams, PrepareReset(s)
  PROVE  /\ AllGrow
         /\ \A x \in Streams : /\ snd'[x].sent_offset = snd[x].sent_offset
                               /\ snd'[x].sacks = snd[x].sacks
                               /\ snd'[x].maxdata_remote = snd[x].maxdata_remote
                               /\ x # s => Same(snd[x], snd'[x])
         /\ snd'[s].reset_sent
         /\ ResetFrame(s) \in Frame /\ ResetFrame(s).type = "reset"
         /\ ResetFrame(s).stream = s /\ Proper(ResetFrame(s), snd'[s])
<1> DEFINE h == snd[s]
           g == [h EXCEPT !.reset_sent = TRUE, !.fin_sent = TRUE,
                          !.written = h.sent_offset]
           k == DeleteIfClosed(g)
           f == ResetFrame(s)
<1>1. h \in SndStream /\ Sending(h) /\ h.reset_requested
  BY DEF TypeOK, SenderInv, PrepareReset
<1>2. snd' = [snd EXCEPT ![s] = k]
  BY DEF PrepareReset
<1>3. /\ f \in Frame /\ f.type = "reset" /\ f.stream = s /\ f.bytes = <<>>
      /\ f.offset = h.sent_offset /\ f.fin = FALSE
  <2> DEFINE r == StreamFrame(s, h.sent_offset, <<>>, FALSE)
  <2>1. f = [r EXCEPT !.type = "reset"]
    BY DEF ResetFrame
  <2>2. h.sent_offset \in Nat /\ <<>> \in Seq(Nat)
    BY <1>1 DEF SndStream
  <2>. HIDE DEF h
  <2>3. r \in Frame /\ r.stream = s /\ r.offset = h.sent_offset /\ r.bytes = <<>> /\ r.fin = FALSE
    BY <2>2 DEF StreamFrame, Frame
  <2>. HIDE DEF f, r
  <2>. QED
    BY <2>1, <2>3 DEF Frame
<1>. HIDE DEF h, f
<1>4. /\ g \in SndStream /\ g.reset_sent /\ g.fin_sent /\ g.written = h.sent_offset
      /\ g.sent_offset = h.sent_offset /\ g.sacks = h.sacks
      /\ g.maxdata_remote = h.maxdata_remote /\ g.reset_requested
  BY Zenon, <1>1 DEF SndStream
<1>. HIDE DEF g
<1>5. /\ k \in SndStream /\ k.reset_sent /\ k.fin_sent /\ k.written = h.sent_offset
      /\ k.sent_offset = h.sent_offset /\ k.sacks = h.sacks
      /\ k.maxdata_remote = h.maxdata_remote /\ k.reset_requested
  BY <1>4, Closing1 DEF Same
<1>. HIDE DEF k
<1>6. Sending(k) /\ Grows(h, k)
  BY <1>1, <1>5, SizesAssumption DEF Sending, Grows, SndStream
<1>7. Proper(f, k)
  BY <1>1, <1>3, <1>5 DEF Proper, Numbered, End, SndStream
<1>8. /\ snd' \in [Streams -> SndStream] /\ snd'[s] = k
      /\ \A x \in Streams : x # s => snd'[x] = snd[x]
  BY Zenon, <1>2, <1>5, OneStream
<1>9. \A x \in Streams : snd[x] \in SndStream /\ Sending(snd[x])
  BY DEF TypeOK, SenderInv
<1>10. ASSUME NEW x \in Streams, x # s
       PROVE  /\ Sending(snd'[x]) /\ Grows(snd[x], snd'[x]) /\ Same(snd[x], snd'[x])
  BY <1>8, <1>9, <1>10 DEF Grows, Same, SndStream
<1>11. AllGrow
  BY <1>6, <1>8, <1>10 DEF AllGrow, h
<1>. QED
  BY <1>3, <1>5, <1>7, <1>8, <1>10, <1>11 DEF h, f

(* picoquic_prepare_stream_frame: the next bytes, and the FIN with the     *)
(* last of them.                                                           *)
NextFrame(s, length, f) ==
    LET h == snd[s]
    IN  /\ f \in Frame /\ f.type = "stream" /\ f.stream = s
        /\ f.offset = h.sent_offset /\ Len(f.bytes) = length
        /\ length \in Nat /\ h.sent_offset + length <= h.written
        /\ length <= Allowed(s)
        /\ snd'[s].sent_offset = h.sent_offset + length
        /\ ~h.fin_sent /\ (snd'[s].fin_sent = f.fin)
        /\ snd'[s].reset_sent = h.reset_sent /\ snd'[s].sacks = h.sacks
        /\ snd'[s].maxdata_remote = h.maxdata_remote
        /\ data_sent' = data_sent + length
        /\ Proper(f, snd'[s])
        /\ Transmit(retransmit, f)

LEMMA FrameLeaves ==
  ASSUME TypeOK, SenderInv, NEW s \in Streams, PrepareStreamFrame(s)
  PROVE  /\ AllGrow
         /\ \A x \in Streams : x # s => snd'[x] = snd[x]
         /\ \E length \in Nat, f \in Frame : NextFrame(s, length, f)
<1> DEFINE h == snd[s]
           room == h.written - h.sent_offset
<1>1. PICK length \in 0..Min({room, Allowed(s)}) :
         LET last  == h.sent_offset + length = h.written
             fin   == last /\ h.fin_requested
             bytes == [i \in 1..length |-> h.sent_offset + i - 1]
             frame == StreamFrame(s, h.sent_offset, bytes, fin)
         IN  /\ length > 0 \/ fin
             /\ h.sent_offset = 0 => length >= MinFirst \/ fin
             /\ snd' = [snd EXCEPT ![s] = DeleteIfClosed(
                           [h EXCEPT !.sent_offset = @ + length,
                                     !.fin_sent = @ \/ fin])]
             /\ data_sent' = data_sent + length
             /\ Transmit(retransmit, frame)
  BY Zenon DEF PrepareStreamFrame
<1> DEFINE fin   == h.sent_offset + length = h.written /\ h.fin_requested
           bytes == [i \in 1..length |-> h.sent_offset + i - 1]
           f     == StreamFrame(s, h.sent_offset, bytes, fin)
           to    == h.sent_offset + length
           ended == h.fin_sent \/ fin
           g     == [h EXCEPT !.sent_offset = to, !.fin_sent = ended]
           k     == DeleteIfClosed(g)
<1>2. /\ length > 0 \/ fin
      /\ h.sent_offset = 0 => length >= MinFirst \/ fin
      /\ snd' = [snd EXCEPT ![s] = k]
      /\ data_sent' = data_sent + length /\ Transmit(retransmit, f)
  <2>1. length > 0 \/ fin
    BY <1>1
  <2>2. h.sent_offset = 0 => length >= MinFirst \/ fin
    BY <1>1
  <2>3. snd' = [snd EXCEPT ![s] = k]
    BY <1>1
  <2>4. data_sent' = data_sent + length
    BY <1>1
  <2>5. Transmit(retransmit, f)
    BY <1>1
  <2>. QED
    BY <2>1, <2>2, <2>3, <2>4, <2>5
<1>3. /\ h \in SndStream /\ Sending(h) /\ Ready(s)
      /\ ~(h.reset_requested /\ ~h.reset_sent)
  BY DEF TypeOK, SenderInv, PrepareStreamFrame
<1>4. /\ h.written \in Nat /\ h.sent_offset \in Nat /\ room \in Int
      /\ h.fin_requested \in BOOLEAN /\ h.fin_sent \in BOOLEAN
      /\ h.maxdata_remote \in Nat /\ maxdata_remote \in Nat /\ data_sent \in Nat
  BY <1>3 DEF SndStream, TypeOK
<1>5. Allowed(s) \in Int
  <2>1. h.maxdata_remote - h.sent_offset \in Int /\ maxdata_remote - data_sent \in Int
    BY <1>4
  <2>. QED
    BY Zenon, <2>1, MinOfTwo DEF Allowed
<1>6. length \in Nat /\ length <= room /\ length <= Allowed(s) /\ to \in Nat /\ to <= h.written
  <2>1. Min({room, Allowed(s)}) \in Int /\ Min({room, Allowed(s)}) <= room
        /\ Min({room, Allowed(s)}) <= Allowed(s)
    <3>. HIDE DEF room
    <3>. QED
      BY <1>4, <1>5, MinOfTwo
  <2>. QED
    BY <1>4, <1>5, <2>1
<1>7. ~h.fin_sent
  BY SMTT(20), <1>3, <1>4 DEF Ready, Sending
<1>8. fin \in BOOLEAN /\ ended = fin /\ (fin => to = h.written /\ h.fin_requested)
  BY <1>4, <1>7
<1>9. bytes \in Seq(Nat) /\ Len(bytes) = length
  <2>1. \A i \in 1..length : h.sent_offset + i - 1 \in Nat
    BY <1>4
  <2>2. bytes \in [1..length -> Nat]
    BY <2>1
  <2>. QED
    BY <1>6, <2>2
<1>10. \A i \in 1..Len(bytes) : bytes[i] = h.sent_offset + i - 1
  BY <1>9
<1>11. /\ f \in Frame /\ f.type = "stream" /\ f.stream = s /\ f.bytes = bytes
       /\ f.offset = h.sent_offset /\ f.fin = fin
  <2>. HIDE DEF bytes, fin
  <2>. QED
    BY <1>4, <1>8, <1>9 DEF StreamFrame, Frame
<1>. HIDE DEF f, bytes, fin, ended
<1>12. /\ g \in SndStream /\ g.written = h.written /\ g.sent_offset = to
       /\ g.fin_sent = fin /\ g.fin_requested = h.fin_requested
       /\ g.reset_requested = h.reset_requested /\ g.reset_sent = h.reset_sent
       /\ g.sacks = h.sacks /\ g.maxdata_remote = h.maxdata_remote
  BY Zenon, <1>3, <1>6, <1>8 DEF SndStream
<1>. HIDE DEF g
<1>13. /\ k \in SndStream /\ k.written = h.written /\ k.sent_offset = to
       /\ k.fin_sent = fin /\ k.fin_requested = h.fin_requested
       /\ k.reset_requested = h.reset_requested /\ k.reset_sent = h.reset_sent
       /\ k.sacks = h.sacks /\ k.maxdata_remote = h.maxdata_remote
  BY SMTT(20), <1>12, Closing1 DEF Same
<1>. HIDE DEF k
<1>14. Sending(k)
  BY <1>2, <1>3, <1>4, <1>6, <1>7, <1>8, <1>13, SizesAssumption DEF Sending, SndStream
<1>15. Grows(h, k)
  BY <1>4, <1>6, <1>7, <1>13 DEF Grows, Sending
<1>16. Proper(f, k)
  <2>1. Numbered(f.offset, f.bytes) /\ End(f) = to
    BY <1>9, <1>10, <1>11 DEF Numbered, End
  <2>2. h.sent_offset = 0 \/ MinFirst <= h.sent_offset
    BY <1>3, <1>7 DEF Sending
  <2>3. End(f) <= k.sent_offset /\ End(f) = k.sent_offset
    BY <1>6, <1>13, <2>1
  <2>4. f.fin \/ Len(f.bytes) > 0
    BY Zenon, <1>2, <1>9, <1>11
  <2>5. f.offset = 0 => f.fin \/ MinFirst <= Len(f.bytes)
    BY <1>2, <1>9, <1>11
  <2>6. f.type # "reset" /\ (f.fin => k.fin_sent)
    BY <1>11, <1>13
  <2>. QED
    BY Zenon, <1>11, <2>1, <2>2, <2>3, <2>4, <2>5, <2>6 DEF Proper
<1>17. /\ snd' \in [Streams -> SndStream] /\ snd'[s] = k
       /\ \A x \in Streams : x # s => snd'[x] = snd[x]
  BY Zenon, <1>2, <1>13, OneStream
<1>18. AllGrow
  <2>1. \A x \in Streams : snd[x] \in SndStream /\ Sending(snd[x])
    BY DEF TypeOK, SenderInv
  <2>2. ASSUME NEW x \in Streams, x # s
        PROVE  Sending(snd'[x]) /\ Grows(snd[x], snd'[x])
    BY SMTT(20), <1>17, <2>1, <2>2 DEF Grows, SndStream
  <2>. QED
    BY SMTT(20), <1>14, <1>15, <1>17, <2>2 DEF AllGrow
<1>19. NextFrame(s, length, f)
  BY <1>2, <1>6, <1>7, <1>9, <1>11, <1>13, <1>16, <1>17 DEF NextFrame
<1>. QED
  BY <1>6, <1>11, <1>17, <1>18, <1>19

(* picoquic_split_stream_frame: two frames with the bytes of one.          *)
LEMMA BytesCut ==
  ASSUME NEW q \in Seq(Nat), NEW n \in 1..(Len(q) - 1)
  PROVE  /\ SubSeq(q, 1, n) \in Seq(Nat) /\ Len(SubSeq(q, 1, n)) = n
         /\ \A k \in 1..n : SubSeq(q, 1, n)[k] = q[k]
         /\ SubSeq(q, n + 1, Len(q)) \in Seq(Nat)
         /\ Len(SubSeq(q, n + 1, Len(q))) = Len(q) - n
         /\ \A k \in 1..(Len(q) - n) : SubSeq(q, n + 1, Len(q))[k] = q[n + k]
OBVIOUS

LEMMA SplitParts ==
  ASSUME NEW f \in Frame, f.type = "stream", NEW n \in 1..(Len(f.bytes) - 1)
  PROVE  LET a == Split(f, n)[1]
             b == Split(f, n)[2]
         IN  /\ a \in Frame /\ a.type = "stream" /\ a.stream = f.stream /\ a.fin = FALSE
             /\ a.offset = f.offset /\ Len(a.bytes) = n
             /\ \A k \in 1..n : a.bytes[k] = f.bytes[k]
             /\ b \in Frame /\ b.type = "stream" /\ b.stream = f.stream /\ b.fin = f.fin
             /\ b.offset = f.offset + n /\ Len(b.bytes) = Len(f.bytes) - n
             /\ \A k \in 1..(Len(f.bytes) - n) : b.bytes[k] = f.bytes[n + k]
<1> DEFINE a == Split(f, n)[1]
           b == Split(f, n)[2]
           l == Len(f.bytes)
           x == SubSeq(f.bytes, 1, n)
           y == SubSeq(f.bytes, n + 1, l)
<1>1. f.bytes \in Seq(Nat) /\ l \in Nat /\ f.offset \in Nat /\ f.stream \in Streams
      /\ f.fin \in BOOLEAN
  BY DEF Frame
<1>2. n \in Nat
  BY <1>1
<1>3. /\ x \in Seq(Nat) /\ Len(x) = n /\ \A k \in 1..n : x[k] = f.bytes[k]
      /\ y \in Seq(Nat) /\ Len(y) = l - n /\ \A k \in 1..(l - n) : y[k] = f.bytes[n + k]
  BY Zenon, <1>1, BytesCut
<1>4. /\ a = StreamFrame(f.stream, f.offset, x, FALSE)
      /\ b = StreamFrame(f.stream, f.offset + n, y, f.fin)
  BY DEF Split
<1>. HIDE DEF a, b, l, x, y
<1>5. a \in Frame /\ a.type = "stream" /\ a.stream = f.stream /\ a.fin = FALSE
      /\ a.offset = f.offset /\ a.bytes = x
  BY SMTT(20), <1>1, <1>3, <1>4 DEF StreamFrame, Frame
<1>6. b \in Frame /\ b.type = "stream" /\ b.stream = f.stream /\ b.fin = f.fin
      /\ b.offset = f.offset + n /\ b.bytes = y
  BY <1>1, <1>2, <1>3, <1>4 DEF StreamFrame, Frame
<1>. QED
  BY <1>3, <1>5, <1>6 DEF l, a, b

LEMMA SplitProper ==
  ASSUME NEW f \in Frame, f.type = "stream", NEW n \in 1..(Len(f.bytes) - 1),
         f.offset = 0 => n >= MinFirst,
         NEW h \in SndStream, Proper(f, h)
  PROVE  Proper(Split(f, n)[1], h) /\ Proper(Split(f, n)[2], h)
<1> DEFINE a == Split(f, n)[1]
           b == Split(f, n)[2]
           l == Len(f.bytes)
           o == f.offset
<1>1. /\ f.bytes \in Seq(Nat) /\ l \in Nat /\ o \in Nat
      /\ n \in Nat /\ 1 <= n /\ n < l
      /\ MinFirst \in Nat /\ h.sent_offset \in Nat
  BY SizesAssumption DEF Frame, SndStream
<1>2. /\ a.type = "stream" /\ a.fin = FALSE /\ a.offset = o /\ Len(a.bytes) = n
      /\ \A k \in 1..n : a.bytes[k] = f.bytes[k]
      /\ b.type = "stream" /\ b.fin = f.fin /\ b.offset = o + n
      /\ Len(b.bytes) = l - n
      /\ \A k \in 1..(l - n) : b.bytes[k] = f.bytes[n + k]
  BY Zenon, SplitParts
<1>3. /\ \A k \in 1..l : f.bytes[k] = o + k - 1
      /\ o + l <= h.sent_offset
      /\ f.fin => h.fin_sent /\ o + l = h.sent_offset
      /\ o = 0 \/ MinFirst <= o
      /\ o = 0 => n >= MinFirst
  BY DEF Proper, Numbered, End
<1>. HIDE DEF a, b, l, o
<1>4. Numbered(a.offset, a.bytes)
  <2>1. ASSUME NEW k \in 1..n PROVE a.bytes[k] = a.offset + k - 1
    <3>1. k \in 1..l
      BY <1>1
    <3>. QED
      BY <1>1, <1>2, <1>3, <3>1
  <2>. QED
    BY <1>2, <2>1 DEF Numbered
<1>5. Numbered(b.offset, b.bytes)
  <2>1. ASSUME NEW k \in 1..(l - n) PROVE b.bytes[k] = b.offset + k - 1
    <3>1. n + k \in 1..l
      BY <1>1
    <3>2. f.bytes[n + k] = o + (n + k) - 1
      BY <1>3, <3>1
    <3>. QED
      BY <1>1, <1>2, <3>2
  <2>. QED
    BY <1>2, <2>1 DEF Numbered
<1>6. End(a) = o + n /\ End(b) = o + l
  BY <1>1, <1>2 DEF End
<1>7. Proper(a, h)
  <2>1. ~a.fin /\ a.type # "reset" /\ a.offset = o /\ Len(a.bytes) = n
    BY <1>2
  <2>2. End(a) <= h.sent_offset /\ n > 0
    BY SMTT(20), <1>1, <1>3, <1>6
  <2>. QED
    BY <1>1, <1>3, <1>4, <2>1, <2>2 DEF Proper
<1>8. Proper(b, h)
  BY <1>1, <1>2, <1>3, <1>5, <1>6 DEF Proper
<1>. QED
  BY <1>7, <1>8 DEF a, b

(* What becomes of a packet p that is declared lost.                       *)
DropStep(p) ==
    /\ ~NeedsRepeat(p.frame)
    /\ retransmit' = retransmit \ {p}
    /\ UNCHANGED <<first_misc_frame, send_sequence, net>>
WholeStep(p) ==
    /\ Transmit(retransmit \ {p}, p.frame)
    /\ UNCHANGED first_misc_frame
SplitStep(p, n) ==
    /\ p.frame.type = "stream" /\ n \in 1..(Len(p.frame.bytes) - 1)
    /\ p.frame.offset = 0 => n >= MinFirst
    /\ Transmit(retransmit \ {p}, Split(p.frame, n)[1])
    /\ first_misc_frame' = <<Split(p.frame, n)[2]>> \o first_misc_frame
QueueStep(p) ==
    /\ retransmit' = retransmit \ {p}
    /\ first_misc_frame' = <<p.frame>> \o first_misc_frame
    /\ UNCHANGED <<send_sequence, net>>
SndFixed == UNCHANGED <<snd, data_sent, maxdata_remote, receiverVars, creditVars>>

LEMMA LostCases ==
  ASSUME DeclareLost
  PROVE  /\ SndFixed
         /\ \E p \in retransmit : \/ DropStep(p) \/ WholeStep(p) \/ QueueStep(p)
                                  \/ \E n \in Nat : SplitStep(p, n)
<1>1. PICK p \in retransmit : Repeat(p) /\ SndFixed
  BY DEF DeclareLost, SndFixed
<1>2. \/ DropStep(p) \/ WholeStep(p) \/ QueueStep(p)
      \/ \E n \in 1..(Len(p.frame.bytes) - 1) : SplitStep(p, n)
  BY Zenon, <1>1 DEF Repeat, DropStep, WholeStep, QueueStep, SplitStep
<1>3. \A n \in 1..(Len(p.frame.bytes) - 1) : n \in Nat
  OBVIOUS
<1>. QED
  BY Zenon, <1>1, <1>2, <1>3

LEMMA FixedGrows ==
  ASSUME TypeOK, SenderInv, snd' = snd
  PROVE  AllGrow
<1>1. \A x \in Streams : snd[x] \in SndStream /\ Sending(snd[x])
  BY DEF TypeOK, SenderInv
<1>2. \A x \in Streams : Grows(snd[x], snd[x])
  BY <1>1 DEF Grows, SndStream
<1>. QED
  BY SMTT(20), <1>1, <1>2 DEF AllGrow, TypeOK

(* The invariant after a step of the sender with no packet, and after one  *)
(* with the packet of frame f.                                             *)
LEMMA BaseNoPacket ==
  ASSUME Base, AllGrow, data_sent' \in Nat,
         UNCHANGED <<maxdata_remote, receiverVars, creditVars>>,
         retransmit' \subseteq retransmit, net' \subseteq net,
         send_sequence' = send_sequence,
         first_misc_frame' \in Seq(Frame),
         \A k \in Misc' : \/ \E j \in Misc : first_misc_frame'[k] = first_misc_frame[j]
                          \/ \E p \in retransmit : first_misc_frame'[k] = p.frame
  PROVE  Base'
<1>1. TypeOK'
  <2>1. /\ snd' \in [Streams -> SndStream] /\ send_sequence' \in Nat
        /\ retransmit' \subseteq Packet /\ net' \subseteq Packet
    BY DEF AllGrow, Base, TypeOK
  <2>. QED
    BY <2>1, SenderTypes DEF Base
<1>2. SenderInv'
  BY SenderNoPacket DEF Base, receiverVars
<1>3. RcvStill
  BY SMTT(20), RcvUnchanged DEF Base, receiverVars
<1>4. ReceiverInv'
  BY <1>3, ReceiverStays
<1>. QED
  BY <1>1, <1>2, <1>4 DEF Base

LEMMA BasePacket ==
  ASSUME Base, AllGrow, data_sent' \in Nat,
         UNCHANGED <<maxdata_remote, receiverVars, creditVars>>,
         NEW queue, queue \subseteq retransmit,
         NEW f \in Frame, Transmit(queue, f), Proper(f, snd'[f.stream]),
         first_misc_frame' \in Seq(Frame),
         \A k \in Misc' : \/ \E j \in Misc : first_misc_frame'[k] = first_misc_frame[j]
                          \/ Proper(first_misc_frame'[k], snd'[first_misc_frame'[k].stream])
  PROVE  Base'
<1> DEFINE N == Sent(f)
<1>1. /\ N \in Packet /\ N.pn = send_sequence /\ N.frame = f
      /\ net' = net \cup {N} /\ retransmit' = queue \cup {N}
      /\ send_sequence' = send_sequence + 1
  BY Transmitted DEF Base
<1>. HIDE DEF N
<1>2. TypeOK'
  <2>1. /\ snd' \in [Streams -> SndStream] /\ send_sequence' \in Nat
        /\ retransmit' \subseteq Packet /\ net' \subseteq Packet
    <3>1. send_sequence' \in Nat
      BY <1>1 DEF Base, TypeOK
    <3>2. retransmit' \subseteq Packet /\ net' \subseteq Packet
      BY Zenon, <1>1 DEF Base, TypeOK
    <3>. QED
      BY Zenon, <3>1, <3>2 DEF AllGrow
  <2>. QED
    BY Zenon, <2>1, SenderTypes DEF Base
<1>3. SenderInv'
  <2>1. /\ Proper(N.frame, snd'[N.frame.stream])
        /\ retransmit' \subseteq retransmit \cup {N} /\ net' \subseteq net \cup {N}
        /\ received' = received
    BY SMTT(20), <1>1 DEF receiverVars
  <2>. QED
    BY SMTT(20), <1>1, <2>1, SenderPacket DEF Base
<1>4. RcvStill
  BY RcvUnchanged DEF Base, receiverVars
<1>5. ReceiverInv'
  BY <1>4, ReceiverStays
<1>. QED
  BY <1>2, <1>3, <1>5 DEF Base

LEMMA BaseFresh ==
  ASSUME Base, NEW s \in Streams, PrepareReset(s) \/ PrepareStreamFrame(s)
  PROVE  Base'
<1>1. /\ UNCHANGED <<maxdata_remote, first_misc_frame, receiverVars, creditVars>>
      /\ retransmit \subseteq retransmit
  BY Zenon DEF PrepareReset, PrepareStreamFrame
<1>2. /\ first_misc_frame' \in Seq(Frame)
      /\ \A k \in Misc' : \E j \in Misc : first_misc_frame'[k] = first_misc_frame[j]
  BY SMTT(20), <1>1 DEF Base, TypeOK, Misc
<1>3. CASE PrepareReset(s)
  <2>1. /\ AllGrow /\ ResetFrame(s) \in Frame /\ ResetFrame(s).stream = s
        /\ Proper(ResetFrame(s), snd'[s])
    BY SMTT(20), <1>3, ResetLeaves DEF Base
  <2>2. data_sent' \in Nat /\ Transmit(retransmit, ResetFrame(s))
    BY <1>3 DEF PrepareReset, Base, TypeOK
  <2>3. Proper(ResetFrame(s), snd'[ResetFrame(s).stream])
    BY <2>1
  <2>. QED
    BY Zenon, <1>1, <1>2, <2>1, <2>2, <2>3, BasePacket
<1>4. CASE PrepareStreamFrame(s)
  <2>1. AllGrow /\ \E length \in Nat, f \in Frame : NextFrame(s, length, f)
    BY <1>4, FrameLeaves DEF Base
  <2>2. PICK length \in Nat, f \in Frame : NextFrame(s, length, f)
    BY SMTT(20), <2>1
  <2>3. Proper(f, snd'[f.stream]) /\ Transmit(retransmit, f) /\ data_sent' \in Nat
    BY SMTT(20), <2>2 DEF NextFrame, Base, TypeOK
  <2>. QED
    BY Zenon, <1>1, <1>2, <2>1, <2>3, BasePacket
<1>. QED
  BY <1>3, <1>4

LEMMA BaseLost ==
  ASSUME Base, DeclareLost
  PROVE  Base'
<1>1. PICK p \in retransmit : /\ SndFixed
                              /\ \/ DropStep(p) \/ WholeStep(p) \/ QueueStep(p)
                                 \/ \E n \in Nat : SplitStep(p, n)
  BY SMTT(20), LostCases
<1> DEFINE f == p.frame
<1>2. /\ f \in Frame /\ f.stream \in Streams /\ snd[f.stream] \in SndStream
      /\ Proper(f, snd[f.stream])
  BY DEF Base, TypeOK, SenderInv, Packet, Frame
<1>3. /\ AllGrow /\ data_sent' \in Nat
      /\ snd' = snd /\ UNCHANGED <<maxdata_remote, receiverVars, creditVars>>
  BY <1>1, FixedGrows DEF Base, TypeOK, SndFixed
<1>4. first_misc_frame \in Seq(Frame) /\ retransmit \ {p} \subseteq retransmit
  BY DEF Base, TypeOK
<1>. HIDE DEF f
<1>5. ASSUME NEW g \in Frame, first_misc_frame' = <<g>> \o first_misc_frame
      PROVE  /\ first_misc_frame' \in Seq(Frame)
             /\ \A k \in Misc' : \/ \E j \in Misc : first_misc_frame'[k] = first_misc_frame[j]
                                 \/ first_misc_frame'[k] = g
  <2>1. /\ first_misc_frame' \in Seq(Frame) /\ first_misc_frame'[1] = g
        /\ \A k \in Misc' : k # 1 => /\ k - 1 \in Misc
                                     /\ first_misc_frame'[k] = first_misc_frame[k - 1]
    BY <1>4, <1>5, Prepend DEF Misc
  <2>. QED
    BY Zenon, <2>1
<1>6. CASE DropStep(p)
  <2>1. /\ retransmit' \subseteq retransmit /\ net' \subseteq net
        /\ send_sequence' = send_sequence /\ first_misc_frame' \in Seq(Frame)
        /\ \A k \in Misc' : \E j \in Misc : first_misc_frame'[k] = first_misc_frame[j]
    BY <1>4, <1>6 DEF DropStep, Misc
  <2>. QED
    BY <1>3, <2>1, BaseNoPacket
<1>7. CASE WholeStep(p)
  <2>1. /\ first_misc_frame' \in Seq(Frame)
        /\ \A k \in Misc' : \E j \in Misc : first_misc_frame'[k] = first_misc_frame[j]
    BY <1>4, <1>7 DEF WholeStep, Misc
  <2>2. Transmit(retransmit \ {p}, f) /\ Proper(f, snd'[f.stream])
    BY <1>2, <1>3, <1>7 DEF WholeStep, f
  <2>. QED
    BY Zenon, <1>2, <1>3, <1>4, <2>1, <2>2, BasePacket
<1>8. CASE QueueStep(p)
  <2>1. first_misc_frame' = <<f>> \o first_misc_frame
    BY <1>8 DEF QueueStep, f
  <2>2. /\ first_misc_frame' \in Seq(Frame)
        /\ \A k \in Misc' : \/ \E j \in Misc : first_misc_frame'[k] = first_misc_frame[j]
                            \/ \E r \in retransmit : first_misc_frame'[k] = r.frame
    BY Zenon, <1>2, <1>5, <2>1 DEF f
  <2>3. /\ retransmit' \subseteq retransmit /\ net' \subseteq net
        /\ send_sequence' = send_sequence
    BY <1>8 DEF QueueStep
  <2>. QED
    BY <1>3, <2>2, <2>3, BaseNoPacket
<1>9. ASSUME NEW n \in Nat, SplitStep(p, n) PROVE Base'
  <2> DEFINE a == Split(f, n)[1]
             b == Split(f, n)[2]
  <2>1. /\ f.type = "stream" /\ n \in 1..(Len(f.bytes) - 1) /\ (f.offset = 0 => n >= MinFirst)
        /\ Transmit(retransmit \ {p}, a) /\ first_misc_frame' = <<b>> \o first_misc_frame
    BY <1>9 DEF SplitStep, f
  <2>2. /\ a \in Frame /\ b \in Frame /\ a.stream = f.stream /\ b.stream = f.stream
    BY Zenon, <1>2, <2>1, SplitParts
  <2>3. Proper(a, snd[f.stream]) /\ Proper(b, snd[f.stream])
    BY Zenon, <1>2, <2>1, SplitProper
  <2>. HIDE DEF a, b
  <2>4. Proper(a, snd'[a.stream]) /\ Proper(b, snd'[b.stream])
    BY <1>3, <2>2, <2>3
  <2>5. /\ first_misc_frame' \in Seq(Frame)
        /\ \A k \in Misc' : \/ \E j \in Misc : first_misc_frame'[k] = first_misc_frame[j]
                            \/ first_misc_frame'[k] = b
    BY Zenon, <1>5, <2>1, <2>2
  <2>6. \A k \in Misc' : \/ \E j \in Misc : first_misc_frame'[k] = first_misc_frame[j]
                         \/ Proper(first_misc_frame'[k], snd'[first_misc_frame'[k].stream])
    BY Zenon, <2>4, <2>5
  <2>. QED
    BY Zenon, <1>3, <1>4, <2>1, <2>2, <2>4, <2>5, <2>6, BasePacket
<1>. QED
  BY <1>1, <1>6, <1>7, <1>8, <1>9

LEMMA BaseMisc ==
  ASSUME Base, SendMiscFrame
  PROVE  Base'
<1> DEFINE f == Head(first_misc_frame)
<1>1. /\ first_misc_frame \in Seq(Frame) /\ first_misc_frame # <<>>
      /\ first_misc_frame' = Tail(first_misc_frame)
      /\ Transmit(retransmit, f) /\ retransmit \subseteq retransmit
      /\ snd' = snd /\ UNCHANGED <<maxdata_remote, receiverVars, creditVars>>
      /\ data_sent' \in Nat
  BY DEF SendMiscFrame, Base, TypeOK
<1>2. /\ first_misc_frame' \in Seq(Frame) /\ f \in Frame
      /\ 1 \in Misc /\ first_misc_frame[1] = f
      /\ \A k \in Misc' : k + 1 \in Misc /\ first_misc_frame'[k] = first_misc_frame[k + 1]
  BY <1>1, TakeFirst DEF Misc
<1>. HIDE DEF f
<1>3. AllGrow
  BY <1>1, FixedGrows DEF Base
<1>4. Proper(f, snd'[f.stream])
  BY <1>1, <1>2 DEF Base, SenderInv
<1>5. \A k \in Misc' : \E j \in Misc : first_misc_frame'[k] = first_misc_frame[j]
  BY Zenon, <1>2
<1>. QED
  BY Zenon, <1>1, <1>2, <1>3, <1>4, <1>5, BasePacket

(* picoquic_process_ack_of_stream_frame: the bytes of the frame count as   *)
(* acknowledged.                                                           *)
AckStep(p) ==
    /\ p.pn \in received /\ retransmit' = retransmit \ {p}
    /\ AllGrow
    /\ \A x \in Streams :
         /\ snd'[x].sent_offset = snd[x].sent_offset
         /\ snd'[x].fin_sent = snd[x].fin_sent /\ snd'[x].reset_sent = snd[x].reset_sent
         /\ snd'[x].maxdata_remote = snd[x].maxdata_remote
         /\ \A i \in snd'[x].sacks :
              \/ i \in snd[x].sacks
              \/ /\ p.frame.type = "stream" /\ p.frame.stream = x
                 /\ i \in AckedRange(p.frame)
    /\ UNCHANGED <<data_sent, maxdata_remote, first_misc_frame, send_sequence, net,
                   receiverVars, creditVars>>

LEMMA AckIsStep ==
  ASSUME TypeOK, SenderInv, ProcessAck
  PROVE  \E p \in retransmit : AckStep(p)
<1>1. PICK p \in retransmit :
        /\ p.pn \in received
        /\ retransmit' = retransmit \ {p}
        /\ snd' = IF p.frame.type = "stream" /\ ~snd[p.frame.stream].deleted
                  THEN [snd EXCEPT ![p.frame.stream].sacks = @ \cup AckedRange(p.frame)]
                  ELSE snd
        /\ UNCHANGED <<data_sent, maxdata_remote, first_misc_frame, send_sequence, net,
                       receiverVars, creditVars>>
  BY Zenon DEF ProcessAck
<1> DEFINE f == p.frame
           s == f.stream
           h == snd[s]
           acked == AckedRange(f)
           k == [h EXCEPT !.sacks = h.sacks \cup acked]
<1>2. f \in Frame /\ s \in Streams /\ h \in SndStream /\ Sending(h) /\ Proper(f, h)
  BY DEF TypeOK, SenderInv, Packet, Frame
<1>3. CASE ~(f.type = "stream" /\ ~h.deleted)
  <2>1. snd' = snd
    BY <1>1, <1>3
  <2>2. AllGrow
    BY <2>1, FixedGrows
  <2>. QED
    BY <1>1, <2>1, <2>2 DEF AckStep
<1>4. CASE f.type = "stream" /\ ~h.deleted
  <2>1. snd' = [snd EXCEPT ![s] = k]
    BY <1>1, <1>4
  <2>2. f.offset \in Nat /\ f.bytes \in Seq(Nat) /\ Len(f.bytes) \in Nat
        /\ End(f) = f.offset + Len(f.bytes)
    BY Zenon, <1>2, FrameFields
  <2>3. /\ f.fin \/ Len(f.bytes) > 0
        /\ f.fin => h.fin_sent /\ End(f) = h.sent_offset
        /\ End(f) <= h.sent_offset
    BY SMTT(20), <1>2, <1>4 DEF Proper
  <2>4. h.sent_offset \in Nat /\ h.sacks \subseteq Nat
    BY <1>2 DEF SndStream
  <2>5. /\ acked \subseteq Nat
        /\ (h.fin_sent /\ h.sent_offset = 0) \/ \A i \in acked : i < h.sent_offset
    <3>1. CASE f.offset = 0 /\ f.bytes = <<>>
      <4>1. acked \subseteq Nat
        BY <3>1, SizesAssumption DEF AckedRange, Offsets
      <4>2. Len(f.bytes) = 0
        BY SMTT(20), <3>1
      <4>. QED
        BY <2>2, <2>3, <3>1, <4>1, <4>2
    <3>2. CASE ~(f.offset = 0 /\ f.bytes = <<>>)
      <4>1. acked = f.offset..(f.offset + Len(f.bytes) - 1)
        BY <3>2 DEF AckedRange
      <4>. QED
        BY <2>2, <2>3, <2>4, <4>1
    <3>. QED
      BY <3>1, <3>2
  <2>. HIDE DEF acked
  <2>6. /\ k \in SndStream /\ k.written = h.written /\ k.sent_offset = h.sent_offset
        /\ k.fin_requested = h.fin_requested /\ k.fin_sent = h.fin_sent
        /\ k.reset_requested = h.reset_requested /\ k.reset_sent = h.reset_sent
        /\ k.maxdata_remote = h.maxdata_remote /\ k.sacks = h.sacks \cup acked
    <3>. HIDE DEF h
    <3>. QED
      BY <1>2, <2>5 DEF SndStream
  <2>. HIDE DEF k
  <2>7. Sending(k) /\ Grows(h, k)
    <3>1. Grows(h, k)
      BY <2>4, <2>6 DEF Grows
    <3>2. Sending(k)
      BY Zenon, <1>2, <2>5, <2>6 DEF Sending
    <3>. QED
      BY <3>1, <3>2
  <2>8. /\ snd' \in [Streams -> SndStream] /\ snd'[s] = k
        /\ \A x \in Streams : x # s => snd'[x] = snd[x]
    BY Zenon, <1>2, <2>1, <2>6, OneStream
  <2>9. AllGrow
    <3>1. \A x \in Streams : snd[x] \in SndStream /\ Sending(snd[x])
      BY DEF TypeOK, SenderInv
    <3>2. ASSUME NEW x \in Streams, x # s
          PROVE  Sending(snd'[x]) /\ Grows(snd[x], snd'[x])
      BY SMTT(20), <2>8, <3>1, <3>2 DEF Grows, SndStream
    <3>. QED
      BY <2>7, <2>8, <3>2 DEF AllGrow
  <2>10. ASSUME NEW x \in Streams
         PROVE  /\ snd'[x].sent_offset = snd[x].sent_offset
                /\ snd'[x].fin_sent = snd[x].fin_sent
                /\ snd'[x].reset_sent = snd[x].reset_sent
                /\ snd'[x].maxdata_remote = snd[x].maxdata_remote
                /\ \A i \in snd'[x].sacks :
                     \/ i \in snd[x].sacks
                     \/ f.type = "stream" /\ s = x /\ i \in acked
    BY <1>4, <2>6, <2>8
  <2>. QED
    BY <1>1, <2>9, <2>10 DEF AckStep, acked
<1>. QED
  BY <1>3, <1>4

LEMMA BaseAck ==
  ASSUME Base, ProcessAck
  PROVE  Base'
<1>1. PICK p \in retransmit : AckStep(p)
  BY AckIsStep DEF Base
<1>2. /\ AllGrow /\ data_sent' \in Nat
      /\ UNCHANGED <<maxdata_remote, receiverVars, creditVars>>
      /\ retransmit' \subseteq retransmit /\ net' \subseteq net
      /\ send_sequence' = send_sequence /\ first_misc_frame' \in Seq(Frame)
      /\ \A k \in Misc' : \E j \in Misc : first_misc_frame'[k] = first_misc_frame[j]
  BY <1>1 DEF AckStep, Base, TypeOK, Misc
<1>. QED
  BY <1>2, BaseNoPacket

-----------------------------------------------------------------------------
(* Frames that arrive.                                                     *)

(* What frame f adds to the stream h, which becomes k: Adds, for a stream. *)
Filled(f, h, k, x, y) ==
    /\ f.offset <= x /\ x <= y /\ y <= End(f)
    /\ \A i \in Nat : f.offset <= i /\ i < x => i \in HeldOf(h)
    /\ \A i \in Nat : x <= i /\ i < y => i \notin HeldOf(h)
    /\ y = End(f) \/ y \in HeldOf(h)
    /\ \A i \in Nat : i \in HeldOf(k) <=> i \in HeldOf(h) \/ (x <= i /\ i < y)

(* The highest offset seen, with frame f.                                  *)
Higher(h, f) == IF h.fin_offset <= End(f) THEN End(f) ELSE h.fin_offset

(* The frame of packet p is accepted and its stream becomes k; or it is    *)
(* not, because the stream is gone or because of an error.                 *)
Violation(h, f) ==
    \/ FlowControlError(h, End(f))
    \/ f.type = "stream" /\ FinalOffsetError(h, f)
    \/ /\ f.type = "reset" /\ (h.fin_received \/ h.reset_received)
       /\ f.offset # h.fin_offset
Accepts(p, k) ==
    LET f == p.frame
        s == f.stream
        h == rcv[s]
    IN  /\ ~h.deleted /\ ~FlowControlError(h, End(f))
        /\ k \in RcvStream /\ rcv' = [rcv EXCEPT ![s] = k]
        /\ Receiving(k, snd[s], delivered'[s])
        /\ delivered' \in [Streams -> Seq(Nat)]
        /\ \A x \in Streams : x # s => delivered'[x] = delivered[x]
        /\ received' = received \cup {p.pn}
        /\ k.fin_offset = Higher(h, f)
        /\ data_received' = data_received + (k.fin_offset - h.fin_offset)
        /\ connection_error' = connection_error
        /\ k.fin_received = (h.fin_received \/ f.fin)
        /\ k.maxdata_local = h.maxdata_local
        /\ \E x, y \in Nat : Filled(f, h, k, x, y)
Ignores(p) ==
    /\ UNCHANGED <<rcv, data_received, delivered>>
    /\ \/ received' = received
       \/ rcv[p.frame.stream].deleted /\ received' = received \cup {p.pn}
    /\ connection_error' # connection_error =>
         ~rcv[p.frame.stream].deleted /\ Violation(rcv[p.frame.stream], p.frame)
ArriveStep(p) ==
    /\ net' = net \ {p} /\ ~connection_error
    /\ UNCHANGED <<senderVars, maxdata_local, creditVars>>
    /\ (\E k \in RcvStream : Accepts(p, k)) \/ Ignores(p)

LEMMA HigherIs ==
  ASSUME NEW h \in RcvStream, NEW f \in Frame
  PROVE  /\ Higher(h, f) \in Nat /\ h.fin_offset \in Nat /\ End(f) \in Nat
         /\ h.fin_offset <= Higher(h, f) /\ End(f) <= Higher(h, f)
         /\ Higher(h, f) = h.fin_offset \/ Higher(h, f) = End(f)
<1>1. h.fin_offset \in Nat /\ End(f) \in Nat
  BY DEF RcvStream, Frame, End
<1>. QED
  BY <1>1 DEF Higher

LEMMA BaseArrives ==
  ASSUME Base, NEW p \in net, ArriveStep(p)
  PROVE  Base'
<1>1. TypeOK /\ SenderInv /\ ReceiverInv
  BY SMTT(20) DEF Base
<1>2. /\ net' = net \ {p} /\ UNCHANGED <<senderVars, maxdata_local, creditVars>>
      /\ p \in Packet /\ p.pn \in Nat /\ p.frame \in Frame /\ p.frame.stream \in Streams
  BY <1>1 DEF ArriveStep, TypeOK, Packet, Frame
<1>3. SndStill
  BY <1>1, <1>2, SndUnchanged DEF senderVars
<1>4. AllGrow
  BY <1>1, <1>3, StillGrows
<1>5. received' \subseteq received \cup {p.pn}
  BY Zenon DEF ArriveStep, Accepts, Ignores
<1>6. SenderInv'
  <2>1. /\ retransmit' = retransmit /\ net' \subseteq net /\ send_sequence' = send_sequence
        /\ first_misc_frame' = first_misc_frame
    BY <1>2 DEF senderVars
  <2>2. \A k \in Misc' : \E j \in Misc : first_misc_frame'[k] = first_misc_frame[j]
    BY <2>1 DEF Misc
  <2>. QED
    BY <1>1, <1>4, <1>5, <2>1, <2>2, SenderNoPacket
<1>7. CASE Ignores(p)
  <2>1. /\ rcv' = rcv /\ delivered' = delivered /\ data_received' = data_received
        /\ snd' = snd
    BY <1>2, <1>7 DEF Ignores, senderVars
  <2>2. TypeOK'
    BY <1>1, <1>2, <1>5, <2>1 DEF TypeOK, senderVars, creditVars
  <2>3. ReceiverInv'
    BY <1>1, <2>1 DEF ReceiverInv
  <2>. QED
    BY <1>6, <2>2, <2>3 DEF Base
<1>8. ASSUME NEW k \in RcvStream, Accepts(p, k)
      PROVE  Base'
  <2> DEFINE f == p.frame
             s == f.stream
             h == rcv[s]
  <2>1. /\ rcv' = [rcv EXCEPT ![s] = k]
        /\ Receiving(k, snd[s], delivered'[s])
        /\ delivered' \in [Streams -> Seq(Nat)]
        /\ \A x \in Streams : x # s => delivered'[x] = delivered[x]
        /\ k.fin_offset = Higher(h, f)
        /\ data_received' = data_received + (k.fin_offset - h.fin_offset)
    BY Zenon, <1>8 DEF Accepts
  <2>2. h \in RcvStream /\ f \in Frame /\ s \in Streams /\ data_received \in Nat
    BY <1>1, <1>2 DEF TypeOK
  <2>3. /\ k.fin_offset \in Nat /\ h.fin_offset \in Nat /\ h.fin_offset <= k.fin_offset
    BY ZenonT(30), <2>1, <2>2, HigherIs
  <2>4. data_received' \in Nat
    BY SMTT(20), <2>1, <2>2, <2>3
  <2>5. /\ rcv' \in [Streams -> RcvStream] /\ rcv'[s] = k
        /\ \A x \in Streams : x # s => rcv'[x] = rcv[x]
    BY SMTT(20), <1>1, <2>1, <2>2 DEF TypeOK
  <2>6. TypeOK'
    BY SMTT(20), <1>1, <1>2, <1>5, <2>1, <2>4, <2>5 DEF TypeOK, senderVars, creditVars
  <2>7. ASSUME NEW x \in Streams PROVE Receiving(rcv'[x], snd'[x], delivered'[x])
    <3>1. snd' = snd
      BY <1>2 DEF senderVars
    <3>2. CASE x = s
      BY Zenon, <2>1, <2>5, <3>1, <3>2
    <3>3. CASE x # s
      BY Zenon, <1>1, <2>1, <2>5, <3>1, <3>3 DEF ReceiverInv
    <3>. QED
      BY <3>2, <3>3
  <2>8. ReceiverInv'
    BY <2>7 DEF ReceiverInv
  <2>. QED
    BY <1>6, <2>6, <2>8 DEF Base
<1>. QED
  BY <1>7, <1>8 DEF ArriveStep

-----------------------------------------------------------------------------
(* The kinds of steps.                                                     *)
LEMMA Kinds ==
  ASSUME [Next]_vars
  PROVE  \/ StillAction
         \/ \E s \in Streams : PrepareReset(s) \/ PrepareStreamFrame(s)
         \/ DeclareLost \/ SendMiscFrame \/ ProcessAck
         \/ IncomingStream \/ IncomingReset
BY Zenon DEF Next, StillAction

LEMMA BaseInit == Init => Base
<1>. SUFFICES ASSUME Init PROVE Base
  OBVIOUS
<1>1. NewSndStream \in SndStream /\ Sending(NewSndStream)
  <2> DEFINE h == NewSndStream
  <2>1. /\ h.written = 0 /\ h.sent_offset = 0 /\ h.sacks = {0}
        /\ h.fin_sent = FALSE /\ h.reset_sent = FALSE
    BY DEF NewSndStream
  <2>2. h \in SndStream
    <3>1. {0} \in SUBSET Nat /\ 0 \in Nat /\ StreamWindow \in Nat
      BY SizesAssumption
    <3>. QED
      BY Zenon, <3>1 DEF NewSndStream, SndStream
  <2>. HIDE DEF h
  <2>3. Sending(h)
    BY <2>1, SizesAssumption DEF Sending
  <2>. QED
    BY Zenon, <2>2, <2>3 DEF h
<1>2. NewRcvStream \in RcvStream
  <2>1. <<>> \in Seq(Block) /\ 0 \in Nat /\ StreamWindow \in Nat
    BY SizesAssumption
  <2>. QED
    BY Zenon, <2>1 DEF NewRcvStream, RcvStream
<1>3. TypeOK
  <2>1. snd \in [Streams -> SndStream] /\ rcv \in [Streams -> RcvStream]
    BY <1>1, <1>2 DEF Init
  <2>2. delivered \in [Streams -> Seq(Nat)]
    BY DEF Init
  <2>. QED
    BY <2>1, <2>2, SizesAssumption DEF Init, TypeOK
<1>4. SenderInv
  <2>1. \A s \in Streams : Sending(snd[s])
    BY <1>1 DEF Init
  <2>2. Misc = {}
    BY DEF Init, Misc
  <2>. QED
    BY <2>1, <2>2 DEF Init, SenderInv
<1>5. ReceiverInv
  <2>1. Receiving(NewRcvStream, NewSndStream, <<>>)
    <3>1. NewRcvStream.stream_data = <<>> /\ NewRcvStream.consumed_offset = 0
      BY DEF NewRcvStream
    <3>2. InOrder(<<>>, 0) /\ Ahead(<<>>, 0)
      BY DEF InOrder, Ahead
    <3>3. HeldOf(NewRcvStream) = {}
      BY <3>1 DEF HeldOf, Held
    <3>4. <<>> = [i \in 1..0 |-> i - 1]
      OBVIOUS
    <3>. QED
      <4> DEFINE h == NewRcvStream
      <4>1. /\ h.fin_offset = 0 /\ h.fin_received = FALSE /\ h.fin_signalled = FALSE
            /\ h.reset_received = FALSE /\ h.deleted = FALSE
            /\ NewSndStream.sent_offset = 0
        BY DEF NewRcvStream, NewSndStream
      <4>2. ~h.fin_received /\ ~h.fin_signalled /\ ~h.reset_received /\ ~h.deleted
        BY <4>1
      <4>3. /\ h.fin_offset <= NewSndStream.sent_offset
            /\ \A i \in HeldOf(h) : i < h.fin_offset
        BY <3>3, <4>1
      <4>4. <<>> = [i \in 1..h.consumed_offset |-> i - 1]
        BY <3>1, <3>4
      <4>. HIDE DEF h
      <4>5. InOrder(h.stream_data, h.consumed_offset) /\ Ahead(h.stream_data, h.consumed_offset)
        BY <3>1, <3>2 DEF h
      <4>6. Receiving(h, NewSndStream, <<>>)
        BY Zenon, <4>2, <4>3, <4>4, <4>5 DEF Receiving
      <4>. QED
        BY SMTT(20), <4>6 DEF h
  <2>. QED
    BY <2>1 DEF Init, ReceiverInv
<1>. QED
  BY <1>3, <1>4, <1>5 DEF Base

-----------------------------------------------------------------------------
(* The end of a stream.                                                    *)

NeedsFin(h) == h.fin_sent /\ ~h.reset_sent /\ h.sent_offset > 0
FinWaits(s) ==
    \/ \E p \in retransmit : p.frame.stream = s /\ p.frame.fin
    \/ \E k \in Misc : first_misc_frame[k].stream = s /\ first_misc_frame[k].fin
FinArrived(s) == rcv[s].fin_received \/ rcv[s].deleted

(* A FIN whose packet is acknowledged has arrived, or the stream is gone.  *)
FinInv ==
    /\ \A s \in Streams : NeedsFin(snd[s]) => rcv[s].fin_received \/ FinWaits(s)
    /\ \A p \in retransmit :
         p.frame.fin /\ p.pn \in received => FinArrived(p.frame.stream)

(* A stream that is gone has its FIN, unless it was reset.                 *)
LEMMA GoneHasFin ==
  ASSUME Base, NEW s \in Streams, FinArrived(s), ~snd[s].reset_sent
  PROVE  rcv[s].fin_received
BY Zenon DEF Base, ReceiverInv, Receiving, Notified, FinArrived

(* FinInv after a step of the sender in which every FIN stays where it is, *)
(* becomes another packet or frame that waits, or is needed no more.       *)
LEMMA FinKeeps ==
  ASSUME Base, FinInv, UNCHANGED <<rcv, received>>,
         \A p \in retransmit' : p \in retransmit \/ p.pn = send_sequence,
         \A s \in Streams : NeedsFin(snd'[s]) =>
            \/ NeedsFin(snd[s]) /\ (FinWaits(s) => FinWaits(s)' \/ rcv[s].fin_received)
            \/ FinWaits(s)'
  PROVE  FinInv'
<1>1. ASSUME NEW s \in Streams, NeedsFin(snd'[s])
      PROVE  rcv'[s].fin_received \/ FinWaits(s)'
  BY Zenon, <1>1 DEF FinInv
<1>2. ASSUME NEW p \in retransmit', p.frame.fin, p.pn \in received'
      PROVE  FinArrived(p.frame.stream)'
  <2>1. p.pn # send_sequence
    <3>1. p.pn \in received /\ p.pn < send_sequence /\ send_sequence \in Nat /\ p.pn \in Nat
      BY Zenon, <1>2 DEF Base, TypeOK, SenderInv
    <3>. QED
      BY <3>1
  <2>2. FinArrived(p.frame.stream)
    BY SMTT(20), <1>2, <2>1 DEF FinInv
  <2>. QED
    BY <2>2 DEF FinArrived
<1>. QED
  BY Zenon, <1>1, <1>2 DEF FinInv

LEMMA FinStill ==
  ASSUME Base, FinInv, Still
  PROVE  FinInv'
<1>1. /\ retransmit' = retransmit /\ first_misc_frame' = first_misc_frame
      /\ received' = received
      /\ \A s \in Streams : Same(snd[s], snd'[s]) /\ Calm(rcv[s], rcv'[s])
  BY DEF Still, SndStill, RcvStill
<1>2. \A s \in Streams : FinWaits(s)' <=> FinWaits(s)
  BY <1>1 DEF FinWaits, Misc
<1>3. ASSUME NEW s \in Streams, NeedsFin(snd'[s])
      PROVE  rcv'[s].fin_received \/ FinWaits(s)'
  <2>1. NeedsFin(snd[s]) /\ rcv'[s].fin_received = rcv[s].fin_received
    BY SMTT(20), <1>1, <1>3 DEF NeedsFin, Same, Calm
  <2>. QED
    BY Zenon, <1>2, <2>1 DEF FinInv
<1>4. ASSUME NEW p \in retransmit', p.frame.fin, p.pn \in received'
      PROVE  FinArrived(p.frame.stream)'
  <2>1. p.frame.stream \in Streams
    BY Zenon, <1>1 DEF Base, TypeOK, Packet, Frame
  <2>2. FinArrived(p.frame.stream)
    BY Zenon, <1>1, <1>4 DEF FinInv
  <2>3. Calm(rcv[p.frame.stream], rcv'[p.frame.stream])
    BY Zenon, <1>1, <2>1
  <2>. QED
    BY <2>2, <2>3 DEF FinArrived, Calm
<1>. QED
  BY <1>3, <1>4 DEF FinInv

LEMMA FinFresh ==
  ASSUME Base, FinInv, NEW s \in Streams, PrepareReset(s) \/ PrepareStreamFrame(s)
  PROVE  FinInv'
<1>1. first_misc_frame' = first_misc_frame /\ UNCHANGED <<rcv, received>>
  BY Zenon DEF PrepareReset, PrepareStreamFrame, receiverVars
<1>2. ASSUME NEW f \in Frame, Transmit(retransmit, f)
      PROVE  /\ \A p \in retransmit' : p \in retransmit \/ p.pn = send_sequence
             /\ \A x \in Streams : FinWaits(x) => FinWaits(x)'
             /\ \A x \in Streams : f.fin /\ f.stream = x => FinWaits(x)'
  <2>1. /\ retransmit' = retransmit \cup {Sent(f)}
        /\ Sent(f).pn = send_sequence /\ Sent(f).frame = f
    BY <1>2, Transmitted DEF Base
  <2>. QED
    BY Zenon, <1>1, <2>1 DEF FinWaits, Misc
<1>3. CASE PrepareReset(s)
  <2>1. /\ \A x \in Streams : x # s => Same(snd[x], snd'[x])
        /\ snd'[s].reset_sent /\ ResetFrame(s) \in Frame
    BY <1>3, ResetLeaves DEF Base
  <2>2. Transmit(retransmit, ResetFrame(s))
    BY SMTT(20), <1>3 DEF PrepareReset
  <2>3. \A x \in Streams : NeedsFin(snd'[x]) => NeedsFin(snd[x])
    BY <2>1 DEF NeedsFin, Same
  <2>. QED
    BY ZenonT(30), <1>1, <1>2, <2>1, <2>2, <2>3, FinKeeps
<1>4. CASE PrepareStreamFrame(s)
  <2>1. /\ \A x \in Streams : x # s => snd'[x] = snd[x]
        /\ \E length \in Nat, f \in Frame : NextFrame(s, length, f)
    BY SMTT(20), <1>4, FrameLeaves DEF Base
  <2>2. PICK length \in Nat, f \in Frame : NextFrame(s, length, f)
    BY SMTT(20), <2>1
  <2>3. /\ f.stream = s /\ Transmit(retransmit, f) /\ snd'[s].fin_sent = f.fin
    BY <2>2 DEF NextFrame
  <2>4. \A x \in Streams : NeedsFin(snd'[x]) => NeedsFin(snd[x]) \/ FinWaits(x)'
    BY Zenon, <1>2, <2>1, <2>3 DEF NeedsFin
  <2>. QED
    BY Zenon, <1>1, <1>2, <2>3, <2>4, FinKeeps
<1>. QED
  BY <1>3, <1>4

(* A frame with a FIN is never dropped while the FIN is needed: the check  *)
(* includes the offset that follows the last byte.                         *)
LEMMA FinNotDropped ==
  ASSUME Base, NEW p \in retransmit, ~NeedsRepeat(p.frame), p.frame.fin
  PROVE  ~NeedsFin(snd[p.frame.stream])
<1> DEFINE f == p.frame
           h == snd[f.stream]
<1>1. f \in Frame /\ f.stream \in Streams /\ h \in SndStream /\ Sending(h) /\ Proper(f, h)
  BY ZenonT(30) DEF Base, TypeOK, SenderInv, Packet, Frame
<1>2. End(f) = h.sent_offset /\ f.offset \in Nat /\ Len(f.bytes) \in Nat
      /\ End(f) = f.offset + Len(f.bytes)
  BY SMTT(20), <1>1 DEF Proper, Frame, End
<1>3. SUFFICES ASSUME NeedsFin(h) PROVE FALSE
  OBVIOUS
<1>4. f.offset..(f.offset + Len(f.bytes)) \subseteq h.sacks
  BY <1>3 DEF NeedsRepeat, NeedsFin
<1>5. h.sent_offset \in h.sacks
  BY SMTT(20), <1>2, <1>4
<1>6. h.sent_offset \in Nat /\ h.sent_offset > 0
  BY <1>1, <1>3 DEF NeedsFin, SndStream
<1>7. \A i \in h.sacks : i = 0 \/ i < h.sent_offset
  <2>1. h.sent_offset # 0
    BY <1>6
  <2>. QED
    BY Zenon, <1>1, <2>1 DEF Sending
<1>8. h.sent_offset = 0 \/ h.sent_offset < h.sent_offset
  BY Zenon, <1>5, <1>7
<1>. QED
  BY <1>6, <1>8

(* How the frames that wait change: one is put in front, one is taken.     *)
LEMMA MiscPut ==
  ASSUME TypeOK, NEW g \in Frame, first_misc_frame' = <<g>> \o first_misc_frame
  PROVE  /\ first_misc_frame' \in Seq(Frame)
         /\ 1 \in Misc' /\ first_misc_frame'[1] = g
         /\ \A k \in Misc' : k # 1 => /\ k - 1 \in Misc
                                      /\ first_misc_frame'[k] = first_misc_frame[k - 1]
         /\ \A j \in Misc : /\ j + 1 \in Misc' /\ j + 1 # 1
                            /\ first_misc_frame'[j + 1] = first_misc_frame[j]
<1>1. first_misc_frame \in Seq(Frame)
  BY DEF TypeOK
<1>. QED
  BY <1>1, Prepend DEF Misc

LEMMA MiscTaken ==
  ASSUME TypeOK, SendMiscFrame
  PROVE  /\ Head(first_misc_frame) \in Frame
         /\ 1 \in Misc /\ first_misc_frame[1] = Head(first_misc_frame)
         /\ \A k \in Misc' : /\ k + 1 \in Misc /\ k + 1 # 1
                             /\ first_misc_frame'[k] = first_misc_frame[k + 1]
         /\ \A j \in Misc : j # 1 => /\ j - 1 \in Misc'
                                     /\ first_misc_frame'[j - 1] = first_misc_frame[j]
<1>1. /\ first_misc_frame \in Seq(Frame) /\ first_misc_frame # <<>>
      /\ first_misc_frame' = Tail(first_misc_frame)
  BY DEF TypeOK, SendMiscFrame
<1>. QED
  BY <1>1, TakeFirst DEF Misc

LEMMA FinLost ==
  ASSUME Base, FinInv, DeclareLost
  PROVE  FinInv'
<1>1. PICK p \in retransmit : /\ SndFixed
                              /\ \/ DropStep(p) \/ WholeStep(p) \/ QueueStep(p)
                                 \/ \E n \in Nat : SplitStep(p, n)
  BY LostCases
<1> DEFINE f == p.frame
<1>2. TypeOK /\ f \in Frame
  BY DEF Base, TypeOK, Packet
<1>3. snd' = snd /\ UNCHANGED <<rcv, received>>
  BY <1>1 DEF SndFixed, receiverVars
<1>4. SUFFICES /\ \A q \in retransmit' : q \in retransmit \/ q.pn = send_sequence
               /\ \A s \in Streams : NeedsFin(snd[s]) /\ FinWaits(s) => FinWaits(s)'
  <2>1. \A s \in Streams : NeedsFin(snd'[s]) => NeedsFin(snd[s])
    BY <1>3
  <2>. QED
    BY Zenon, <1>3, <1>4, <2>1, FinKeeps
<1>. HIDE DEF f
<1>5. CASE DropStep(p)
  <2>1. /\ retransmit' = retransmit \ {p} /\ first_misc_frame' = first_misc_frame
        /\ ~NeedsRepeat(f)
    BY <1>5 DEF DropStep, f
  <2>2. ASSUME NEW s \in Streams, NeedsFin(snd[s]), FinWaits(s) PROVE FinWaits(s)'
    <3>1. ~(f.fin /\ f.stream = s)
      BY <2>1, <2>2, FinNotDropped DEF f
    <3>. QED
      BY ZenonT(30), <2>1, <2>2, <3>1 DEF FinWaits, Misc, f
  <2>. QED
    BY <2>1, <2>2
<1>6. CASE WholeStep(p)
  <2>1. /\ Transmit(retransmit \ {p}, f) /\ first_misc_frame' = first_misc_frame
    BY <1>6 DEF WholeStep, f
  <2>2. /\ retransmit' = (retransmit \ {p}) \cup {Sent(f)}
        /\ Sent(f).pn = send_sequence /\ Sent(f).frame = f
    BY <1>2, <2>1, Transmitted
  <2>3. ASSUME NEW s \in Streams, FinWaits(s) PROVE FinWaits(s)'
    BY Zenon, <2>1, <2>2, <2>3 DEF FinWaits, Misc, f
  <2>. QED
    BY <2>2, <2>3
<1>7. CASE QueueStep(p)
  <2>1. retransmit' = retransmit \ {p} /\ first_misc_frame' = <<f>> \o first_misc_frame
    BY <1>7 DEF QueueStep, f
  <2>2. /\ 1 \in Misc' /\ first_misc_frame'[1] = f
        /\ \A j \in Misc : j + 1 \in Misc' /\ first_misc_frame'[j + 1] = first_misc_frame[j]
    BY Zenon, <1>2, <2>1, MiscPut
  <2>3. ASSUME NEW s \in Streams, FinWaits(s) PROVE FinWaits(s)'
    BY Zenon, <2>1, <2>2, <2>3 DEF FinWaits, f
  <2>. QED
    BY <2>1, <2>3
<1>8. ASSUME NEW n \in Nat, SplitStep(p, n)
      PROVE  /\ \A q \in retransmit' : q \in retransmit \/ q.pn = send_sequence
             /\ \A s \in Streams : NeedsFin(snd[s]) /\ FinWaits(s) => FinWaits(s)'
  <2> DEFINE a == Split(f, n)[1]
             b == Split(f, n)[2]
  <2>1. /\ f.type = "stream" /\ n \in 1..(Len(f.bytes) - 1)
        /\ Transmit(retransmit \ {p}, a) /\ first_misc_frame' = <<b>> \o first_misc_frame
    BY <1>8 DEF SplitStep, f
  <2>2. a \in Frame /\ b \in Frame /\ b.stream = f.stream /\ b.fin = f.fin
    BY Zenon, <1>2, <2>1, SplitParts
  <2>. HIDE DEF a, b
  <2>3. retransmit' = (retransmit \ {p}) \cup {Sent(a)} /\ Sent(a).pn = send_sequence
    BY <1>2, <2>1, <2>2, Transmitted
  <2>4. /\ 1 \in Misc' /\ first_misc_frame'[1] = b
        /\ \A j \in Misc : j + 1 \in Misc' /\ first_misc_frame'[j + 1] = first_misc_frame[j]
    BY Zenon, <1>2, <2>1, <2>2, MiscPut
  <2>5. ASSUME NEW s \in Streams, FinWaits(s) PROVE FinWaits(s)'
    BY Zenon, <2>2, <2>3, <2>4, <2>5 DEF FinWaits, f
  <2>. QED
    BY <2>3, <2>5
<1>. QED
  BY <1>1, <1>5, <1>6, <1>7, <1>8

LEMMA FinMisc ==
  ASSUME Base, FinInv, SendMiscFrame
  PROVE  FinInv'
<1> DEFINE f == Head(first_misc_frame)
<1>1. /\ TypeOK /\ Transmit(retransmit, f) /\ snd' = snd /\ UNCHANGED <<rcv, received>>
  BY DEF Base, SendMiscFrame, receiverVars
<1>2. /\ f \in Frame /\ first_misc_frame[1] = f
      /\ \A j \in Misc : j # 1 => /\ j - 1 \in Misc'
                                  /\ first_misc_frame'[j - 1] = first_misc_frame[j]
  BY Zenon, <1>1, MiscTaken
<1>. HIDE DEF f
<1>3. /\ retransmit' = retransmit \cup {Sent(f)}
      /\ Sent(f).pn = send_sequence /\ Sent(f).frame = f
  BY <1>1, <1>2, Transmitted
<1>4. ASSUME NEW s \in Streams, FinWaits(s) PROVE FinWaits(s)'
  BY Zenon, <1>2, <1>3, <1>4 DEF FinWaits
<1>5. \A q \in retransmit' : q \in retransmit \/ q.pn = send_sequence
  BY <1>3
<1>6. \A s \in Streams : NeedsFin(snd'[s]) => NeedsFin(snd[s])
  BY <1>1
<1>. QED
  BY Zenon, <1>1, <1>4, <1>5, <1>6, FinKeeps

LEMMA FinAck ==
  ASSUME Base, FinInv, ProcessAck
  PROVE  FinInv'
<1>1. PICK p \in retransmit : AckStep(p)
  BY AckIsStep DEF Base
<1>2. /\ p.pn \in received /\ retransmit' = retransmit \ {p}
      /\ first_misc_frame' = first_misc_frame /\ UNCHANGED <<rcv, received>>
      /\ \A x \in Streams : /\ snd'[x].sent_offset = snd[x].sent_offset
                            /\ snd'[x].fin_sent = snd[x].fin_sent
                            /\ snd'[x].reset_sent = snd[x].reset_sent
  BY <1>1 DEF AckStep, receiverVars
<1>3. \A q \in retransmit' : q \in retransmit
  BY <1>2
<1>4. ASSUME NEW s \in Streams, NeedsFin(snd'[s]), FinWaits(s)
      PROVE  FinWaits(s)' \/ rcv[s].fin_received
  <2>1. CASE p.frame.fin /\ p.frame.stream = s
    <3>1. FinArrived(s) /\ ~snd[s].reset_sent
      BY <1>2, <1>4, <2>1 DEF FinInv, NeedsFin
    <3>. QED
      BY SMTT(20), <3>1, GoneHasFin
  <2>2. CASE ~(p.frame.fin /\ p.frame.stream = s)
    BY Zenon, <1>2, <1>4, <2>2 DEF FinWaits, Misc
  <2>. QED
    BY <2>1, <2>2
<1>5. \A s \in Streams : NeedsFin(snd'[s]) => NeedsFin(snd[s])
  BY <1>2 DEF NeedsFin
<1>. QED
  BY Zenon, <1>2, <1>3, <1>4, <1>5, FinKeeps

LEMMA FinArrives ==
  ASSUME Base, FinInv, NEW m \in net, ArriveStep(m)
  PROVE  FinInv'
<1> DEFINE s == m.frame.stream
<1>1. /\ snd' = snd /\ retransmit' = retransmit /\ first_misc_frame' = first_misc_frame
      /\ s \in Streams
  BY DEF ArriveStep, senderVars, Base, TypeOK, Packet, Frame
<1>2. /\ received' \subseteq received \cup {m.pn}
      /\ \A x \in Streams : /\ rcv[x].fin_received => rcv'[x].fin_received
                            /\ FinArrived(x) => FinArrived(x)'
      /\ m.pn \in received' /\ m.frame.fin => m.pn \in received \/ FinArrived(s)'
  <2>1. CASE Ignores(m)
    BY Zenon, <2>1 DEF Ignores, FinArrived
  <2>2. ASSUME NEW k \in RcvStream, Accepts(m, k)
        PROVE  <1>2!1 /\ <1>2!2 /\ <1>2!3
    <3>1. /\ rcv' = [rcv EXCEPT ![s] = k] /\ ~rcv[s].deleted
          /\ k.fin_received = (rcv[s].fin_received \/ m.frame.fin)
          /\ received' = received \cup {m.pn}
      BY Zenon, <2>2 DEF Accepts
    <3>2. rcv'[s] = k /\ \A x \in Streams : x # s => rcv'[x] = rcv[x]
      BY SMTT(20), <1>1, <3>1 DEF Base, TypeOK
    <3>. QED
      BY Zenon, <3>1, <3>2 DEF FinArrived
  <2>. QED
    BY Zenon, <2>1, <2>2 DEF ArriveStep
<1>3. \A x \in Streams : FinWaits(x)' <=> FinWaits(x)
  BY <1>1 DEF FinWaits, Misc
<1>4. ASSUME NEW x \in Streams, NeedsFin(snd'[x])
      PROVE  rcv'[x].fin_received \/ FinWaits(x)'
  BY ZenonT(30), <1>1, <1>2, <1>3, <1>4 DEF FinInv
<1>5. ASSUME NEW p \in retransmit', p.frame.fin, p.pn \in received'
      PROVE  FinArrived(p.frame.stream)'
  <2>1. p \in retransmit /\ p.frame.stream \in Streams
    BY <1>1 DEF Base, TypeOK, Packet, Frame
  <2>2. CASE p.pn \in received
    BY Zenon, <1>2, <1>5, <2>1, <2>2 DEF FinInv
  <2>3. CASE p.pn = m.pn
    <3>1. p = m
      BY <2>1, <2>3 DEF Base, SenderInv
    <3>. QED
      BY Zenon, <1>2, <1>5, <2>2, <3>1
  <2>. QED
    BY <1>2, <1>5, <2>2, <2>3
<1>. QED
  BY <1>4, <1>5 DEF FinInv

-----------------------------------------------------------------------------
(* Flow control.                                                           *)

(* The limits: what the sender knows, or will learn from a credit, was     *)
(* granted.                                                                *)
Granted ==
    /\ maxdata_remote <= maxdata_local
    /\ \A s \in Streams : snd[s].maxdata_remote <= rcv[s].maxdata_local
    /\ \A c \in credits \cup credit_net :
         IF c.type = "max_data" THEN c.maxdata <= maxdata_local
         ELSE c.maxdata <= rcv[c.stream].maxdata_local

(* Most steps leave the limits alone.                                      *)
LimitsSame ==
    /\ UNCHANGED <<maxdata_remote, maxdata_local>>
    /\ credits' \cup credit_net' \subseteq credits \cup credit_net
    /\ \A x \in Streams : /\ snd'[x].maxdata_remote = snd[x].maxdata_remote
                          /\ rcv'[x].maxdata_local = rcv[x].maxdata_local
(* The sender's never shrink.                                              *)
LimitsGrow ==
    /\ maxdata_remote \in Nat /\ maxdata_remote' \in Nat /\ maxdata_remote <= maxdata_remote'
    /\ \A x \in Streams : /\ snd[x].maxdata_remote \in Nat /\ snd'[x].maxdata_remote \in Nat
                          /\ snd[x].maxdata_remote <= snd'[x].maxdata_remote

LEMMA CreditTypes ==
  ASSUME TypeOK
  PROVE  /\ maxdata_remote \in Nat /\ maxdata_local \in Nat
         /\ \A x \in Streams : /\ snd[x].maxdata_remote \in Nat
                               /\ rcv[x].maxdata_local \in Nat
                               /\ rcv[x].consumed_offset \in Nat
         /\ \A c \in credits \cup credit_net :
              c.maxdata \in Nat /\ (c.type # "max_data" => c.stream \in Streams)
<1>1. \A x \in Streams : snd[x] \in SndStream /\ rcv[x] \in RcvStream
  BY DEF TypeOK
<1>2. ASSUME NEW c \in credits \cup credit_net
      PROVE  c.maxdata \in Nat /\ (c.type # "max_data" => c.stream \in Streams)
  <2>1. c \in Credit
    BY DEF TypeOK
  <2>. QED
    BY <2>1 DEF Credit
<1>3. \A x \in Streams : /\ snd[x].maxdata_remote \in Nat
                         /\ rcv[x].maxdata_local \in Nat
                         /\ rcv[x].consumed_offset \in Nat
  BY <1>1 DEF SndStream, RcvStream
<1>. QED
  BY <1>2, <1>3 DEF TypeOK

LEMMA SameIsGranted ==
  ASSUME TypeOK, Granted, LimitsSame
  PROVE  Granted' /\ LimitsGrow
<1>1. Granted'
  <2>1. \A c \in credits' \cup credit_net' :
          IF c.type = "max_data" THEN c.maxdata <= maxdata_local'
          ELSE c.maxdata <= rcv'[c.stream].maxdata_local
    BY CreditTypes DEF Granted, LimitsSame
  <2>. QED
    BY <2>1 DEF Granted, LimitsSame
<1>2. LimitsGrow
  BY SMTT(20), CreditTypes DEF LimitsGrow, LimitsSame
<1>. QED
  BY <1>1, <1>2

(* Writing, and the marks of a stream.                                     *)
LEMMA MarksKeepLimits ==
  ASSUME TypeOK, NEW s \in Streams,
         \/ AddToStream(s) \/ ResetStream(s) \/ LeaveOutput(s)
         \/ OtherDirectionReceived(s)
  PROVE  \A x \in Streams : snd'[x].maxdata_remote = snd[x].maxdata_remote
<1> DEFINE h == snd[s]
<1>1. h \in SndStream
  BY DEF TypeOK
<1>2. ASSUME NEW k, snd' = [snd EXCEPT ![s] = k], k.maxdata_remote = h.maxdata_remote
      PROVE  \A x \in Streams : snd'[x].maxdata_remote = snd[x].maxdata_remote
  BY <1>2 DEF TypeOK
<1>3. CASE AddToStream(s)
  <2>1. PICK length, set_fin :
          snd' = [snd EXCEPT ![s].fin_requested = set_fin,
                             ![s].written = IF snd[s].reset_sent THEN @ ELSE @ + length]
    BY Zenon, <1>3 DEF AddToStream
  <2> DEFINE w == IF h.reset_sent THEN h.written ELSE h.written + length
             k == [h EXCEPT !.fin_requested = set_fin, !.written = w]
  <2>2. snd' = [snd EXCEPT ![s] = k]
    BY Zenon, <2>1 DEF TypeOK, SndStream
  <2>3. k.maxdata_remote = h.maxdata_remote
    <3>. HIDE DEF w, h
    <3>. QED
      BY <1>1 DEF SndStream
  <2>. QED
    BY <1>2, <2>2, <2>3
<1>4. CASE ResetStream(s)
  <2> DEFINE k == [h EXCEPT !.reset_requested = TRUE]
  <2>1. snd' = [snd EXCEPT ![s] = k]
    BY <1>4 DEF ResetStream, TypeOK, SndStream
  <2>2. k.maxdata_remote = h.maxdata_remote
    <3>. HIDE DEF h
    <3>. QED
      BY SMTT(20), <1>1 DEF SndStream
  <2>. QED
    BY <1>2, <2>1, <2>2
<1>5. ASSUME NEW m \in SndStream, m.maxdata_remote = h.maxdata_remote,
             snd' = [snd EXCEPT ![s] = DeleteIfClosed(m)]
      PROVE  \A x \in Streams : snd'[x].maxdata_remote = snd[x].maxdata_remote
  <2>1. DeleteIfClosed(m).maxdata_remote = m.maxdata_remote
    BY Closing1
  <2>. QED
    BY <1>2, <1>5, <2>1
<1>6. CASE LeaveOutput(s)
  <2> DEFINE m == [h EXCEPT !.is_output_stream = FALSE]
  <2>1. snd' = [snd EXCEPT ![s] = DeleteIfClosed(m)]
    BY <1>6 DEF LeaveOutput
  <2>2. m \in SndStream /\ m.maxdata_remote = h.maxdata_remote
    <3>. HIDE DEF h
    <3>. QED
      BY Zenon, <1>1 DEF SndStream
  <2>. QED
    BY Zenon, <1>5, <2>1, <2>2
<1>7. CASE OtherDirectionReceived(s)
  <2> DEFINE m == [h EXCEPT !.other_done = TRUE]
  <2>1. snd' = [snd EXCEPT ![s] = DeleteIfClosed(m)]
    BY <1>7 DEF OtherDirectionReceived
  <2>2. m \in SndStream /\ m.maxdata_remote = h.maxdata_remote
    <3>. HIDE DEF h
    <3>. QED
      BY Zenon, <1>1 DEF SndStream
  <2>. QED
    BY Zenon, <1>5, <2>1, <2>2
<1>. QED
  BY <1>3, <1>4, <1>6, <1>7

(* A credit arrives.                                                       *)
LEMMA CreditArrives ==
  ASSUME TypeOK, Granted, DecodeCredit
  PROVE  Granted' /\ LimitsGrow
<1>1. PICK c \in credit_net :
        /\ credit_net' = credit_net \ {c} /\ credits' = credits \ {c}
        /\ IF c.type = "max_data"
           THEN /\ maxdata_remote' = Max({maxdata_remote, c.maxdata})
                /\ UNCHANGED snd
           ELSE /\ snd' = IF snd[c.stream].deleted THEN snd
                          ELSE [snd EXCEPT ![c.stream].maxdata_remote =
                                  Max({@, c.maxdata})]
                /\ UNCHANGED maxdata_remote
  BY Zenon DEF DecodeCredit
<1>2. /\ maxdata_remote \in Nat /\ maxdata_local \in Nat
      /\ \A x \in Streams : /\ snd[x].maxdata_remote \in Nat
                            /\ rcv[x].maxdata_local \in Nat
      /\ c.maxdata \in Nat /\ (c.type # "max_data" => c.stream \in Streams)
  BY CreditTypes
<1>3. rcv' = rcv /\ maxdata_local' = maxdata_local
  BY DEF DecodeCredit, receiverVars
<1>4. \A d \in credits' \cup credit_net' :
        IF d.type = "max_data" THEN d.maxdata <= maxdata_local'
        ELSE d.maxdata <= rcv'[d.stream].maxdata_local
  BY SMTT(20), <1>1, <1>3 DEF Granted
<1>5. CASE c.type = "max_data"
  <2>1. maxdata_remote' = IF maxdata_remote <= c.maxdata THEN c.maxdata ELSE maxdata_remote
    BY <1>1, <1>2, <1>5, MaxOfTwo
  <2>2. c.maxdata <= maxdata_local /\ snd' = snd
    BY SMTT(20), <1>1, <1>5 DEF Granted
  <2>. QED
    BY <1>2, <1>3, <1>4, <2>1, <2>2 DEF Granted, LimitsGrow
<1>6. CASE c.type # "max_data"
  <2> DEFINE s == c.stream
             h == snd[s]
             w == Max({h.maxdata_remote, c.maxdata})
             k == [h EXCEPT !.maxdata_remote = w]
  <2>1. /\ s \in Streams /\ h \in SndStream /\ h.maxdata_remote \in Nat
        /\ c.maxdata <= rcv[s].maxdata_local /\ maxdata_remote' = maxdata_remote
    BY SMTT(20), <1>1, <1>2, <1>6 DEF TypeOK, Granted
  <2>2. w = IF h.maxdata_remote <= c.maxdata THEN c.maxdata ELSE h.maxdata_remote
    BY <1>2, <2>1, MaxOfTwo
  <2>3. snd' = snd \/ snd' = [snd EXCEPT ![s] = k]
    BY <1>1, <1>6
  <2>4. k.maxdata_remote = w
    <3>. HIDE DEF w, h
    <3>. QED
      BY <2>1 DEF SndStream
  <2>. HIDE DEF k
  <2>5. \A x \in Streams : \/ snd'[x].maxdata_remote = snd[x].maxdata_remote
                           \/ x = s /\ snd'[x].maxdata_remote = w
    <3>. HIDE DEF w, s, h
    <3>1. snd' = snd \/ \A x \in Streams : snd'[x] = IF x = s THEN k ELSE snd[x]
      BY SMTT(20), <2>1, <2>3 DEF TypeOK
    <3>. QED
      BY <2>4, <3>1
  <2>. HIDE DEF w
  <2>6. \A x \in Streams : /\ snd'[x].maxdata_remote \in Nat
                           /\ snd[x].maxdata_remote <= snd'[x].maxdata_remote
                           /\ snd'[x].maxdata_remote <= rcv[x].maxdata_local
    BY SMTT(20), <1>2, <2>1, <2>2, <2>5 DEF Granted
  <2>. QED
    BY SMTT(20), <1>2, <1>3, <1>4, <2>1, <2>6 DEF Granted, LimitsGrow
<1>. QED
  BY <1>5, <1>6

(* A credit is issued, and a limit with it.                                *)
LEMMA MaxDataIssued ==
  ASSUME TypeOK, Granted, PrepareMaxData
  PROVE  Granted' /\ LimitsGrow
<1> DEFINE m == maxdata_local + 2 * data_received
           c == [type |-> "max_data", maxdata |-> m]
<1>1. /\ maxdata_local' = m /\ credits' = credits \cup {c}
      /\ credit_net' = credit_net \cup {c}
      /\ UNCHANGED <<rcv, snd, maxdata_remote>>
  BY DEF PrepareMaxData, senderVars
<1>2. c.type = "max_data" /\ c.maxdata = m
  OBVIOUS
<1>3. maxdata_local \in Nat /\ m \in Nat /\ maxdata_local <= m
  BY DEF TypeOK
<1>. HIDE DEF c, m
<1>4. ASSUME NEW d \in credits' \cup credit_net'
      PROVE  IF d.type = "max_data" THEN d.maxdata <= maxdata_local'
             ELSE d.maxdata <= rcv'[d.stream].maxdata_local
  <2>1. CASE d = c
    BY SMTT(20), <1>1, <1>2, <1>3, <2>1
  <2>2. CASE d # c
    <3>1. d \in credits \cup credit_net
      BY <1>1, <2>2
    <3>2. d.maxdata \in Nat
      BY SMTT(20), <3>1, CreditTypes
    <3>. QED
      BY <1>1, <1>3, <3>1, <3>2 DEF Granted
  <2>. QED
    BY <2>1, <2>2
<1>. QED
  BY SMTT(20), <1>1, <1>3, <1>4, CreditTypes DEF Granted, LimitsGrow

LEMMA MaxStreamDataIssued ==
  ASSUME TypeOK, Granted, PrepareMaxStreamData
  PROVE  Granted' /\ LimitsGrow
<1> DEFINE needed == {s \in Streams : NeedsCredit(rcv[s])}
           frame(s) == [type |-> "max_stream_data", stream |-> s,
                        maxdata |-> NewLimit(rcv[s])]
           frames == {frame(s) : s \in needed}
<1>1. /\ credits' = credits \cup frames /\ credit_net' = credit_net \cup frames
      /\ UNCHANGED <<snd, maxdata_remote, maxdata_local>>
  BY DEF PrepareMaxStreamData, senderVars
<1>2. \A s \in Streams : rcv[s].maxdata_local <= rcv'[s].maxdata_local
  BY LimitsAreStill
<1>3. \A s \in needed : /\ s \in Streams
                        /\ rcv'[s] = [rcv[s] EXCEPT !.maxdata_local = NewLimit(rcv[s])]
  BY DEF PrepareMaxStreamData
<1>4. \A s \in needed : rcv'[s].maxdata_local = NewLimit(rcv[s])
  <2>1. \A s \in Streams : rcv[s] \in RcvStream
    BY DEF TypeOK
  <2>. HIDE DEF needed
  <2>. QED
    BY Zenon, <1>3, <2>1 DEF RcvStream
<1>9. \A s \in Streams : rcv[s].maxdata_local \in Nat /\ rcv'[s].maxdata_local \in Nat
  <2>1. rcv' \in [Streams -> RcvStream]
    BY LimitsAreStill DEF RcvStill
  <2>. QED
    BY <2>1, CreditTypes DEF RcvStream
<1>5. \A d \in frames : \E s \in needed : /\ d.type = "max_stream_data" /\ d.stream = s
                                          /\ d.maxdata = NewLimit(rcv[s])
  <2>. HIDE DEF needed
  <2>. QED
    OBVIOUS
<1>. HIDE DEF frames, needed
<1>6. ASSUME NEW d \in credits' \cup credit_net'
      PROVE  IF d.type = "max_data" THEN d.maxdata <= maxdata_local'
             ELSE d.maxdata <= rcv'[d.stream].maxdata_local
  <2>1. CASE d \in frames
    <3>1. PICK s \in needed : /\ d.type = "max_stream_data" /\ d.stream = s
                              /\ d.maxdata = NewLimit(rcv[s])
      BY <1>5, <2>1
    <3>2. d.maxdata = rcv'[s].maxdata_local /\ s \in Streams
      BY Zenon, <1>3, <1>4, <3>1
    <3>3. d.maxdata <= rcv'[s].maxdata_local
      BY SMTT(20), <1>9, <3>2
    <3>. QED
      BY <3>1, <3>3
  <2>2. CASE d \notin frames
    <3>1. d \in credits \cup credit_net
      BY <1>1, <2>2
    <3>2. d.maxdata \in Nat /\ (d.type # "max_data" => d.stream \in Streams)
      BY <3>1, CreditTypes
    <3>3. IF d.type = "max_data" THEN d.maxdata <= maxdata_local
          ELSE d.maxdata <= rcv[d.stream].maxdata_local
      BY SMTT(20), <3>1 DEF Granted
    <3>. QED
      BY <1>1, <1>2, <1>9, <3>2, <3>3
  <2>. QED
    BY <2>1, <2>2
<1>7. \A s \in Streams : snd'[s].maxdata_remote <= rcv'[s].maxdata_local
  BY SMTT(20), <1>1, <1>2, <1>9, CreditTypes DEF Granted
<1>8. LimitsGrow
  BY <1>1, CreditTypes DEF LimitsGrow
<1>. QED
  BY <1>1, <1>6, <1>7, <1>8 DEF Granted

LEMMA StillIsGranted ==
  ASSUME TypeOK, Granted, StillAction
  PROVE  /\ Granted' /\ LimitsGrow
         /\ UNCHANGED <<data_sent, data_received, connection_error>>
<1>1. UNCHANGED <<data_sent, data_received, connection_error>>
  BY Zenon DEF StillAction, AddToStream, ResetStream, LeaveOutput, OtherDirectionReceived,
         OtherDirectionSent, DecodeCredit, Lose, PrepareMaxData, PrepareMaxStreamData,
         RepeatCredit, vars, senderVars, receiverVars
<1>2. ASSUME NEW s \in Streams,
             \/ AddToStream(s) \/ ResetStream(s) \/ LeaveOutput(s)
             \/ OtherDirectionReceived(s)
      PROVE  LimitsSame
  <2>1. UNCHANGED <<receiverVars, creditVars, maxdata_remote>>
    BY SMTT(20), <1>2 DEF AddToStream, ResetStream, LeaveOutput, OtherDirectionReceived
  <2>. QED
    BY <1>2, <2>1, MarksKeepLimits DEF LimitsSame, receiverVars, creditVars
<1>3. ASSUME NEW s \in Streams, OtherDirectionSent(s)
      PROVE  LimitsSame
  <2> DEFINE d == Notified(rcv[s])
             k == [rcv[s] EXCEPT !.other_done = TRUE, !.deleted = d]
  <2>1. rcv[s] \in RcvStream
    BY DEF TypeOK
  <2>2. rcv' = [rcv EXCEPT ![s] = k] /\ UNCHANGED <<senderVars, creditVars, maxdata_local>>
    BY Zenon, <1>3 DEF OtherDirectionSent, TypeOK, RcvStream
  <2>3. k.maxdata_local = rcv[s].maxdata_local
    <3>. HIDE DEF d
    <3>. QED
      BY <2>1 DEF RcvStream
  <2>. HIDE DEF k
  <2>4. \A x \in Streams : rcv'[x].maxdata_local = rcv[x].maxdata_local
    BY SMTT(20), <2>2, <2>3 DEF TypeOK
  <2>. QED
    BY <2>2, <2>4 DEF LimitsSame, senderVars, creditVars
<1>4. ASSUME Lose \/ RepeatCredit \/ UNCHANGED vars
      PROVE  LimitsSame
  BY <1>4 DEF Lose, RepeatCredit, vars, senderVars, receiverVars, creditVars, LimitsSame
<1>. QED
  BY <1>1, <1>2, <1>3, <1>4, SameIsGranted, CreditArrives, MaxDataIssued,
     MaxStreamDataIssued DEF StillAction

(* The counts: both ends count the bytes of the connection alike, and what *)
(* was sent was allowed.                                                   *)
SentTo == [s \in Streams |-> snd[s].sent_offset]
SeenTo == [s \in Streams |-> rcv[s].fin_offset]
Counted ==
    /\ ~connection_error
    /\ data_sent <= maxdata_remote
    /\ data_sent = Cardinality(BytesBelow(SentTo))
    /\ data_received = Cardinality(BytesBelow(SeenTo))
    /\ \A s \in Streams : snd[s].sent_offset <= snd[s].maxdata_remote
CreditInv == Granted /\ Counted

LEMMA CountTypes ==
  ASSUME TypeOK
  PROVE  /\ SentTo \in [Streams -> Nat] /\ SeenTo \in [Streams -> Nat]
         /\ data_sent \in Nat /\ data_received \in Nat
<1>1. \A s \in Streams : snd[s] \in SndStream /\ rcv[s] \in RcvStream
  BY DEF TypeOK
<1>2. \A s \in Streams : snd[s].sent_offset \in Nat /\ rcv[s].fin_offset \in Nat
  BY SMTT(20), <1>1 DEF SndStream, RcvStream
<1>. QED
  BY <1>2 DEF SentTo, SeenTo, TypeOK

(* A step that neither sends a new byte nor takes one.                     *)
LEMMA CountsAreKept ==
  ASSUME TypeOK, Counted, LimitsGrow,
         UNCHANGED <<data_sent, data_received, connection_error>>,
         \A x \in Streams : snd'[x].sent_offset = snd[x].sent_offset,
         \A x \in Streams : rcv'[x].fin_offset = rcv[x].fin_offset
  PROVE  Counted'
<1>1. SentTo' = SentTo /\ SeenTo' = SeenTo
  BY Zenon DEF SentTo, SeenTo
<1>2. \A s \in Streams : snd[s].sent_offset \in Nat
  BY DEF TypeOK, SndStream
<1>3. \A s \in Streams : snd'[s].sent_offset <= snd'[s].maxdata_remote
  BY <1>2 DEF Counted, LimitsGrow
<1>4. data_sent' <= maxdata_remote'
  BY CountTypes DEF Counted, LimitsGrow
<1>5. BytesBelow(SentTo)' = BytesBelow(SentTo) /\ BytesBelow(SeenTo)' = BytesBelow(SeenTo)
  BY <1>1 DEF BytesBelow
<1>. QED
  BY <1>3, <1>4, <1>5 DEF Counted

LEMMA CreditStill ==
  ASSUME Base, CreditInv, StillAction
  PROVE  CreditInv'
<1>1. TypeOK /\ Granted /\ Counted
  BY DEF Base, CreditInv
<1>2. Granted' /\ LimitsGrow /\ UNCHANGED <<data_sent, data_received, connection_error>>
  BY Zenon, <1>1, StillIsGranted
<1>3. Still
  BY Zenon, StillSteps
<1>4. /\ \A x \in Streams : snd'[x].sent_offset = snd[x].sent_offset
      /\ \A x \in Streams : rcv'[x].fin_offset = rcv[x].fin_offset
  BY Zenon, <1>3 DEF Still, SndStill, RcvStill, Same, Calm
<1>5. Counted'
  BY Zenon, <1>1, <1>2, <1>4, CountsAreKept
<1>. QED
  BY Zenon, <1>2, <1>5 DEF CreditInv

(* What is lost, sent again or acknowledged, and a reset, uses no credit.  *)
LEMMA CreditKept ==
  ASSUME TypeOK, CreditInv,
         UNCHANGED <<data_sent, maxdata_remote, receiverVars, creditVars>>,
         \A x \in Streams : /\ snd'[x].sent_offset = snd[x].sent_offset
                            /\ snd'[x].maxdata_remote = snd[x].maxdata_remote
  PROVE  CreditInv'
<1>1. LimitsSame
  BY DEF LimitsSame, receiverVars, creditVars
<1>2. Granted' /\ LimitsGrow
  BY Zenon, <1>1, SameIsGranted DEF CreditInv
<1>3. /\ UNCHANGED <<data_sent, data_received, connection_error>>
      /\ \A x \in Streams : rcv'[x].fin_offset = rcv[x].fin_offset
      /\ \A x \in Streams : snd'[x].sent_offset = snd[x].sent_offset
  BY DEF receiverVars
<1>4. Counted'
  BY Zenon, <1>2, <1>3, CountsAreKept DEF CreditInv
<1>. QED
  BY Zenon, <1>2, <1>4 DEF CreditInv

-----------------------------------------------------------------------------
(* The bytes.  Two frames that wait for an acknowledgement or to be sent   *)
(* again have no byte in common; one of them lies within a packet of the   *)
(* network or apart from it; and the receiver has all of its bytes or      *)
(* none.  So the bytes that reassembly drops are never those of a packet   *)
(* that will be acknowledged.                                              *)

Within(f, g) == \A s, i : Carries(f, s, i) => Carries(g, s, i)
Apart(f, g) == \A s, i : ~(Carries(f, s, i) /\ Carries(g, s, i))
Near(f, g) == Within(f, g) \/ Apart(f, g)
Has(r, s, i) == i \in HeldOf(r[s])
AllHeld(f, r) == \A s, i : Carries(f, s, i) => Has(r, s, i)
NoneHeld(f, r) == \A s, i : Carries(f, s, i) => ~Has(r, s, i)
Whole(f, r) == AllHeld(f, r) \/ NoneHeld(f, r)

(* For the packets R that wait for an acknowledgement, the frames q that   *)
(* wait to be sent, the packets N of the network and the receiver r.       *)
Frames(R, q, N, r) ==
    /\ \A a, b \in R : a # b => Apart(a.frame, b.frame)
    /\ \A a \in R : \A k \in 1..Len(q) : Apart(a.frame, q[k])
    /\ \A j, k \in 1..Len(q) : j # k => Apart(q[j], q[k])
    /\ \A m \in N : /\ \A a \in R : Near(a.frame, m.frame)
                    /\ \A k \in 1..Len(q) : Near(q[k], m.frame)
    /\ \A a \in R : Whole(a.frame, r)
    /\ \A k \in 1..Len(q) : Whole(q[k], r)
(* A frame that may join them.                                             *)
Fits(f, R, q, N, r) ==
    /\ \A a \in R : Apart(f, a.frame)
    /\ \A k \in 1..Len(q) : Apart(f, q[k])
    /\ \A m \in N : Near(f, m.frame)
    /\ Whole(f, r)
(* Byte i of stream s waits.                                               *)
Waits(R, q, s, i) == \/ \E a \in R : Carries(a.frame, s, i)
                     \/ \E k \in 1..Len(q) : Carries(q[k], s, i)

LEMMA ApartFacts ==
  ASSUME NEW f, NEW g, NEW h
  PROVE  /\ Within(f, f)
         /\ Apart(f, g) => Apart(g, f)
         /\ Within(f, g) /\ Apart(g, h) => Apart(f, h)
         /\ Within(f, g) /\ Within(g, h) => Within(f, h)
         /\ Within(f, g) /\ Near(g, h) => Near(f, h)
BY Zenon DEF Within, Apart, Near

LEMMA PartFits ==
  ASSUME NEW f, NEW g, NEW R, NEW q, NEW N, NEW r, Fits(f, R, q, N, r), Within(g, f)
  PROVE  Fits(g, R, q, N, r)
<1>1. Whole(g, r)
  BY Zenon DEF Fits, Whole, AllHeld, NoneHeld, Within
<1>. QED
  BY Zenon, <1>1, ApartFacts DEF Fits

LEMMA TakePacket ==
  ASSUME NEW R, NEW q, NEW N, NEW r, Frames(R, q, N, r), NEW p \in R
  PROVE  Frames(R \ {p}, q, N, r) /\ Fits(p.frame, R \ {p}, q, N, r)
BY Zenon DEF Frames, Fits

LEMMA FewerPackets ==
  ASSUME NEW R, NEW q, NEW N, NEW r, Frames(R, q, N, r), NEW M \in SUBSET N
  PROVE  Frames(R, q, M, r)
BY Zenon DEF Frames

LEMMA SendFrame ==
  ASSUME NEW R, NEW q, NEW N, NEW r, Frames(R, q, N, r),
         NEW f, Fits(f, R, q, N, r), NEW p, p.frame = f
  PROVE  Frames(R \cup {p}, q, N \cup {p}, r)
<1>1. \A a, b \in R \cup {p} : a # b => Apart(a.frame, b.frame)
  BY Zenon, ApartFacts DEF Frames, Fits
<1>2. \A a \in R \cup {p} : \A k \in 1..Len(q) : Apart(a.frame, q[k])
  BY Zenon DEF Frames, Fits
<1>3. ASSUME NEW m \in N \cup {p}, NEW a \in R \cup {p} PROVE Near(a.frame, m.frame)
  <2>1. CASE m \in N
    BY Zenon, <2>1 DEF Frames, Fits
  <2>2. CASE m = p /\ a = p
    BY Zenon, <2>2, ApartFacts DEF Near
  <2>3. CASE m = p /\ a \in R
    BY Zenon, <2>3, ApartFacts DEF Near, Fits
  <2>. QED
    BY Zenon, <2>1, <2>2, <2>3
<1>4. ASSUME NEW m \in N \cup {p}, NEW k \in 1..Len(q) PROVE Near(q[k], m.frame)
  BY Zenon, ApartFacts DEF Frames, Fits, Near
<1>5. \A a \in R \cup {p} : Whole(a.frame, r)
  BY Zenon DEF Frames, Fits
<1>6. /\ \A j, k \in 1..Len(q) : j # k => Apart(q[j], q[k])
      /\ \A k \in 1..Len(q) : Whole(q[k], r)
  BY Zenon DEF Frames
<1>. QED
  BY Zenon, <1>1, <1>2, <1>3, <1>4, <1>5, <1>6 DEF Frames

LEMMA PutFrame ==
  ASSUME NEW R, NEW q \in Seq(Frame), NEW N, NEW r, Frames(R, q, N, r),
         NEW f \in Frame, Fits(f, R, q, N, r)
  PROVE  Frames(R, <<f>> \o q, N, r)
<1> DEFINE t == <<f>> \o q
<1>1. /\ 1 \in 1..Len(t) /\ t[1] = f
      /\ \A k \in 1..Len(t) : k # 1 => k - 1 \in 1..Len(q) /\ t[k] = q[k - 1]
  <2>1. t = <<f>> \o q
    OBVIOUS
  <2>. HIDE DEF t
  <2>. QED
    BY <2>1, Prepend
<1>2. \A j, k \in 1..Len(t) : j # k => j - 1 # k - 1
  OBVIOUS
<1>. HIDE DEF t
<1>3. ASSUME NEW j \in 1..Len(t), NEW k \in 1..Len(t), j # k PROVE Apart(t[j], t[k])
  <2>1. CASE j = 1
    BY Zenon, <1>1, <1>3, <2>1 DEF Fits
  <2>2. CASE k = 1
    BY Zenon, <1>1, <1>3, <2>2, ApartFacts DEF Fits
  <2>3. CASE j # 1 /\ k # 1
    <3>1. Apart(q[j - 1], q[k - 1])
      BY Zenon, <1>1, <1>2, <1>3, <2>3 DEF Frames
    <3>. QED
      BY Zenon, <1>1, <2>3, <3>1
  <2>. QED
    BY <2>1, <2>2, <2>3
<1>4. ASSUME NEW k \in 1..Len(t)
      PROVE  /\ \A a \in R : Apart(a.frame, t[k])
             /\ \A m \in N : Near(t[k], m.frame)
             /\ Whole(t[k], r)
  <2>1. CASE k = 1
    BY Zenon, <1>1, <2>1, ApartFacts DEF Fits
  <2>2. CASE k # 1
    BY Zenon, <1>1, <2>2 DEF Frames
  <2>. QED
    BY Zenon, <2>1, <2>2
<1>5. /\ \A a, b \in R : a # b => Apart(a.frame, b.frame)
      /\ \A m \in N : \A a \in R : Near(a.frame, m.frame)
      /\ \A a \in R : Whole(a.frame, r)
  BY Zenon DEF Frames
<1>6. Frames(R, t, N, r)
  BY Zenon, <1>3, <1>4, <1>5 DEF Frames
<1>. QED
  BY SMTT(20), <1>6 DEF t

LEMMA TakeFrame ==
  ASSUME NEW R, NEW q \in Seq(Frame), q # <<>>, NEW N, NEW r, Frames(R, q, N, r)
  PROVE  Frames(R, Tail(q), N, r) /\ Fits(Head(q), R, Tail(q), N, r)
<1> DEFINE t == Tail(q)
<1>1. /\ 1 \in 1..Len(q) /\ q[1] = Head(q)
      /\ \A k \in 1..Len(t) : k + 1 \in 1..Len(q) /\ k + 1 # 1 /\ t[k] = q[k + 1]
  BY Zenon, TakeFirst
<1>2. \A j, k \in 1..Len(t) : j # k => j + 1 # k + 1
  OBVIOUS
<1>. HIDE DEF t
<1>3. ASSUME NEW j \in 1..Len(t), NEW k \in 1..Len(t), j # k PROVE Apart(t[j], t[k])
  <2>1. Apart(q[j + 1], q[k + 1])
    BY Zenon, <1>1, <1>2, <1>3 DEF Frames
  <2>. QED
    BY Zenon, <1>1, <2>1
<1>4. ASSUME NEW k \in 1..Len(t)
      PROVE  /\ \A a \in R : Apart(a.frame, t[k])
             /\ \A m \in N : Near(t[k], m.frame)
             /\ Whole(t[k], r) /\ Apart(q[1], t[k])
  BY Zenon, <1>1 DEF Frames
<1>5. /\ \A a, b \in R : a # b => Apart(a.frame, b.frame)
      /\ \A m \in N : \A a \in R : Near(a.frame, m.frame)
      /\ \A a \in R : Whole(a.frame, r)
  BY Zenon DEF Frames
<1>6. Frames(R, t, N, r)
  BY Zenon, <1>3, <1>4, <1>5 DEF Frames
<1>7. /\ \A a \in R : Apart(q[1], a.frame)
      /\ \A m \in N : Near(q[1], m.frame)
      /\ Whole(q[1], r)
  BY Zenon, <1>1, ApartFacts DEF Frames
<1>8. Fits(Head(q), R, t, N, r)
  BY Zenon, <1>1, <1>4, <1>7 DEF Fits
<1>. QED
  BY <1>6, <1>8 DEF t

(* What is known of byte i of stream s, which was sent.                    *)
Known(s, i) == \/ Has(rcv, s, i) \/ snd[s].reset_sent \/ rcv[s].deleted
               \/ Waits(retransmit, first_misc_frame, s, i)
(* The receiver has what counts as acknowledged, but for byte 0, which     *)
(* does from the start, and an empty stream.                               *)
Acked(s) == \/ rcv[s].deleted
            \/ snd[s].fin_sent /\ snd[s].sent_offset = 0
            \/ \A i \in snd[s].sacks : i = 0 \/ Has(rcv, s, i)
Got(p) == rcv[p.frame.stream].deleted \/ AllHeld(p.frame, rcv)

BytesInv ==
    /\ Frames(retransmit, first_misc_frame, net, rcv)
    /\ \A p \in retransmit : p.pn \in received => Got(p)
    /\ \A s \in Streams : \A i \in Nat : i < snd[s].sent_offset => Known(s, i)
    /\ \A s \in Streams : Acked(s) /\ (Has(rcv, s, 1) => Has(rcv, s, 0))

LEMMA AckedStays ==
  ASSUME NEW s, Acked(s), Grows(snd[s], snd'[s]), snd'[s].sacks = snd[s].sacks, rcv' = rcv
  PROVE  Acked(s)'
BY Zenon DEF Acked, Grows

(* The invariant after a step of the sender: a byte that waited waits      *)
(* still, or is known otherwise.                                           *)
LEMMA BytesKeep ==
  ASSUME Base, BytesInv, UNCHANGED <<rcv, received>>, AllGrow,
         Frames(retransmit', first_misc_frame', net', rcv),
         \A p \in retransmit' : p \in retransmit \/ p.pn = send_sequence,
         \A s \in Streams : Acked(s)',
         \A s \in Streams : \A i \in Nat : i < snd'[s].sent_offset =>
            \/ Waits(retransmit', first_misc_frame', s, i)
            \/ /\ i < snd[s].sent_offset
               /\ Waits(retransmit, first_misc_frame, s, i) => Known(s, i)'
  PROVE  BytesInv'
<1>1. Frames(retransmit, first_misc_frame, net, rcv)'
  BY Zenon
<1>2. ASSUME NEW p \in retransmit', p.pn \in received' PROVE Got(p)'
  <2>1. p.pn # send_sequence
    <3>1. p.pn \in received /\ p.pn < send_sequence /\ send_sequence \in Nat /\ p.pn \in Nat
      BY Zenon, <1>2 DEF Base, TypeOK, SenderInv
    <3>. QED
      BY Zenon, <3>1, LessDiffers
  <2>2. Got(p)
    BY Zenon, <1>2, <2>1 DEF BytesInv
  <2>. QED
    BY ZenonT(30), <2>2 DEF Got
<1>3. ASSUME NEW s \in Streams, NEW i \in Nat, i < snd'[s].sent_offset PROVE Known(s, i)'
  <2>1. CASE Waits(retransmit', first_misc_frame', s, i)
    BY Zenon, <2>1 DEF Known
  <2>2. CASE /\ i < snd[s].sent_offset
             /\ Waits(retransmit, first_misc_frame, s, i) => Known(s, i)'
    <3>1. Known(s, i)
      BY Zenon, <2>2 DEF BytesInv
    <3>2. snd[s].reset_sent => snd'[s].reset_sent
      BY Zenon DEF AllGrow, Grows
    <3>. QED
      BY Zenon, <2>2, <3>1, <3>2 DEF Known
  <2>. QED
    BY Zenon, <1>3, <2>1, <2>2
<1>4. \A s \in Streams : Has(rcv', s, 1) => Has(rcv', s, 0)
  BY Zenon DEF BytesInv
<1>. QED
  BY Zenon, <1>1, <1>2, <1>3, <1>4 DEF BytesInv

(* The receiver, with the same bytes.                                      *)
LEMMA SameHeld ==
  ASSUME NEW R, NEW q, NEW N, NEW M \in SUBSET N, NEW r, NEW t, Frames(R, q, N, r),
         \A a \in R : a.frame.stream \in Streams,
         \A k \in 1..Len(q) : q[k].stream \in Streams,
         \A s \in Streams : HeldOf(t[s]) = HeldOf(r[s])
  PROVE  Frames(R, q, M, t)
<1>1. ASSUME NEW f, f.stream \in Streams, Whole(f, r) PROVE Whole(f, t)
  BY Zenon, <1>1 DEF Whole, AllHeld, NoneHeld, Has, Carries
<1>. QED
  BY Zenon, <1>1 DEF Frames

LEMMA StreamsOfFrames ==
  ASSUME TypeOK
  PROVE  /\ \A p \in retransmit \cup net : p.frame \in Frame /\ p.frame.stream \in Streams
         /\ \A k \in Misc : /\ first_misc_frame[k] \in Frame
                            /\ first_misc_frame[k].stream \in Streams
<1>1. \A f \in Frame : f.stream \in Streams
  BY DEF Frame
<1>2. \A p \in retransmit \cup net : p.frame \in Frame
  BY Zenon DEF TypeOK, Packet
<1>3. \A k \in Misc : first_misc_frame[k] \in Frame
  BY DEF TypeOK, Misc
<1>. QED
  BY Zenon, <1>1, <1>2, <1>3

LEMMA BytesStill ==
  ASSUME Base, BytesInv, Still
  PROVE  BytesInv'
<1>1. /\ retransmit' = retransmit /\ first_misc_frame' = first_misc_frame
      /\ received' = received /\ net' \in SUBSET net
      /\ \A s \in Streams : Same(snd[s], snd'[s]) /\ Calm(rcv[s], rcv'[s])
  BY DEF Still, SndStill, RcvStill
<1>2. \A s \in Streams : /\ HeldOf(rcv'[s]) = HeldOf(rcv[s])
                         /\ rcv[s].deleted => rcv'[s].deleted
  BY Zenon, <1>1 DEF HeldOf, Calm
<1>3. \A s \in Streams : \A i : Has(rcv', s, i) <=> Has(rcv, s, i)
  BY Zenon, <1>2 DEF Has
<1>4. /\ \A p \in retransmit : p.frame.stream \in Streams
      /\ \A k \in 1..Len(first_misc_frame) : first_misc_frame[k].stream \in Streams
  BY Zenon, StreamsOfFrames DEF Base, Misc
<1>5. Frames(retransmit', first_misc_frame', net', rcv')
  <2>1. Frames(retransmit, first_misc_frame, net', rcv')
    BY Zenon, <1>1, <1>2, <1>4, SameHeld DEF BytesInv
  <2>. QED
    BY Zenon, <1>1, <2>1
<1>6. ASSUME NEW p \in retransmit', p.pn \in received' PROVE Got(p)'
  <2>1. Got(p) /\ p.frame.stream \in Streams
    BY Zenon, <1>1, <1>4, <1>6 DEF BytesInv
  <2>. QED
    BY Zenon, <1>2, <1>3, <2>1 DEF Got, AllHeld, Carries
<1>7. ASSUME NEW s \in Streams, NEW i \in Nat, i < snd'[s].sent_offset PROVE Known(s, i)'
  <2>1. snd'[s].sent_offset = snd[s].sent_offset /\ snd'[s].reset_sent = snd[s].reset_sent
    BY Zenon, <1>1 DEF Same
  <2>2. Known(s, i)
    BY Zenon, <1>7, <2>1 DEF BytesInv
  <2>. QED
    BY Zenon, <1>1, <1>2, <1>3, <2>1, <2>2 DEF Known
<1>8. ASSUME NEW s \in Streams
      PROVE  Acked(s)' /\ (Has(rcv', s, 1) => Has(rcv', s, 0))
  <2>1. Acked(s) /\ (Has(rcv, s, 1) => Has(rcv, s, 0))
    BY Zenon DEF BytesInv
  <2>2. /\ snd'[s].fin_sent = snd[s].fin_sent /\ snd'[s].sacks = snd[s].sacks
        /\ snd'[s].sent_offset = snd[s].sent_offset
    BY Zenon, <1>1 DEF Same
  <2>. QED
    BY Zenon, <1>2, <1>3, <2>1, <2>2 DEF Acked
<1>. QED
  BY ZenonT(30), <1>5, <1>6, <1>7, <1>8 DEF BytesInv

(* A frame with bytes that were not sent before.                           *)
LEMMA CarriedWasSent ==
  ASSUME Base
  PROVE  /\ \A p \in retransmit \cup net : \A s, i :
              Carries(p.frame, s, i) => s \in Streams /\ i \in Nat /\ i < snd[s].sent_offset
         /\ \A k \in Misc : \A s, i :
              Carries(first_misc_frame[k], s, i) =>
                s \in Streams /\ i \in Nat /\ i < snd[s].sent_offset
<1>1. TypeOK /\ SenderInv
  BY DEF Base
<1>2. ASSUME NEW f \in Frame, Proper(f, snd[f.stream]), NEW s, NEW i, Carries(f, s, i)
      PROVE  s \in Streams /\ i \in Nat /\ i < snd[s].sent_offset
  <2>1. /\ f.stream = s /\ s \in Streams /\ i \in f.offset..(f.offset + Len(f.bytes) - 1)
        /\ f.offset \in Nat /\ Len(f.bytes) \in Nat
    BY SMTT(20), <1>2 DEF Carries, Frame
  <2>2. f.offset + Len(f.bytes) <= snd[s].sent_offset
    BY <1>2, <2>1 DEF Proper, End
  <2>3. snd[s].sent_offset \in Nat
    BY <1>1, <2>1 DEF TypeOK, SndStream
  <2>. QED
    BY <2>1, <2>2, <2>3
<1>. QED
  BY Zenon, <1>1, <1>2, StreamsOfFrames DEF SenderInv

LEMMA HeldWasSent ==
  ASSUME Base, NEW s \in Streams, NEW i \in Nat, Has(rcv, s, i)
  PROVE  i < snd[s].sent_offset
<1>1. /\ \A j \in HeldOf(rcv[s]) : j < rcv[s].fin_offset
      /\ rcv[s].fin_offset <= snd[s].sent_offset
  BY Zenon DEF Base, ReceiverInv, Receiving
<1>2. i < rcv[s].fin_offset
  BY Zenon, <1>1 DEF Has
<1>3. rcv[s].fin_offset \in Nat /\ snd[s].sent_offset \in Nat
  BY DEF Base, TypeOK, RcvStream, SndStream
<1>. QED
  BY <1>1, <1>2, <1>3

LEMMA NewFits ==
  ASSUME Base, NEW f, \A s, i : Carries(f, s, i) => s \in Streams /\ i \in Nat,
         \A s, i : Carries(f, s, i) => ~(i < snd[s].sent_offset)
  PROVE  Fits(f, retransmit, first_misc_frame, net, rcv)
<1>1. /\ \A a \in retransmit : Apart(f, a.frame)
      /\ \A k \in 1..Len(first_misc_frame) : Apart(f, first_misc_frame[k])
      /\ \A m \in net : Apart(m.frame, f)
  BY Zenon, CarriedWasSent DEF Apart, Misc
<1>2. \A m \in net : Near(f, m.frame)
  BY Zenon, <1>1, ApartFacts DEF Near
<1>3. Whole(f, rcv)
  BY Zenon, HeldWasSent DEF Whole, NoneHeld
<1>. QED
  BY Zenon, <1>1, <1>2, <1>3 DEF Fits

LEMMA BytesFresh ==
  ASSUME Base, BytesInv, NEW s \in Streams, PrepareReset(s) \/ PrepareStreamFrame(s)
  PROVE  BytesInv'
<1>1. /\ first_misc_frame' = first_misc_frame /\ UNCHANGED <<rcv, received>>
      /\ TypeOK /\ SenderInv
  BY Zenon DEF PrepareReset, PrepareStreamFrame, receiverVars, Base
<1>2. ASSUME NEW f \in Frame, Transmit(retransmit, f),
             Fits(f, retransmit, first_misc_frame, net, rcv)
      PROVE  /\ \A p \in retransmit' : p \in retransmit \/ p.pn = send_sequence
             /\ Frames(retransmit', first_misc_frame', net', rcv)
             /\ \A x, i : Waits(retransmit, first_misc_frame, x, i) \/ Carries(f, x, i)
                            => Waits(retransmit', first_misc_frame', x, i)
  <2>1. /\ retransmit' = retransmit \cup {Sent(f)} /\ net' = net \cup {Sent(f)}
        /\ Sent(f).pn = send_sequence /\ Sent(f).frame = f
    BY <1>1, <1>2, Transmitted
  <2>2. Frames(retransmit', first_misc_frame, net', rcv)
    BY Zenon, <1>2, <2>1, SendFrame DEF BytesInv
  <2>3. \A x, i : Waits(retransmit, first_misc_frame, x, i) \/ Carries(f, x, i)
                    => Waits(retransmit', first_misc_frame, x, i)
    BY Zenon, <2>1 DEF Waits
  <2>. QED
    BY Zenon, <1>1, <2>1, <2>2, <2>3
<1>3. CASE PrepareReset(s)
  <2> DEFINE f == ResetFrame(s)
  <2>1. /\ AllGrow /\ f \in Frame /\ f.type = "reset"
        /\ \A x \in Streams : /\ snd'[x].sent_offset = snd[x].sent_offset
                              /\ snd'[x].sacks = snd[x].sacks
    BY Zenon, <1>1, <1>3, ResetLeaves
  <2>2. Transmit(retransmit, f)
    BY Zenon, <1>3 DEF PrepareReset
  <2>. HIDE DEF f
  <2>3. \A x, i : ~Carries(f, x, i)
    BY <2>1 DEF Carries
  <2>4. Fits(f, retransmit, first_misc_frame, net, rcv)
    BY Zenon, <2>3, NewFits
  <2>5. \A x \in Streams : Acked(x)'
    BY Zenon, <1>1, <2>1, AckedStays DEF AllGrow, BytesInv
  <2>6. /\ \A p \in retransmit' : p \in retransmit \/ p.pn = send_sequence
        /\ Frames(retransmit', first_misc_frame', net', rcv)
        /\ \A x, i : Waits(retransmit, first_misc_frame, x, i)
                       => Waits(retransmit', first_misc_frame', x, i)
    BY Zenon, <1>2, <2>1, <2>2, <2>4
  <2>7. \A x \in Streams : \A i \in Nat : i < snd'[x].sent_offset =>
            \/ Waits(retransmit', first_misc_frame', x, i)
            \/ /\ i < snd[x].sent_offset
               /\ Waits(retransmit, first_misc_frame, x, i) => Known(x, i)'
    BY Zenon, <2>1, <2>6 DEF Known
  <2>. QED
    BY Zenon, <1>1, <2>1, <2>5, <2>6, <2>7, BytesKeep
<1>4. CASE PrepareStreamFrame(s)
  <2>1. /\ AllGrow
        /\ \A x \in Streams : x # s => snd'[x] = snd[x]
        /\ \E length \in Nat, f \in Frame : NextFrame(s, length, f)
    BY Zenon, <1>1, <1>4, FrameLeaves
  <2>2. PICK length \in Nat, f \in Frame : NextFrame(s, length, f)
    BY <2>1
  <2>3. /\ f.stream = s /\ f.type = "stream" /\ Transmit(retransmit, f)
        /\ f.offset = snd[s].sent_offset /\ Len(f.bytes) = length
        /\ snd'[s].sent_offset = snd[s].sent_offset + length
        /\ snd'[s].sacks = snd[s].sacks
    BY Zenon, <2>2 DEF NextFrame
  <2>4. snd[s].sent_offset \in Nat
    BY <1>1 DEF TypeOK, SndStream
  <2> DEFINE e == snd[s].sent_offset
  <2>11. \A x, i : Carries(f, x, i) <=> x = s /\ i \in e..(e + length - 1)
    BY Zenon, <2>3 DEF Carries
  <2>12. \A i : i \in e..(e + length - 1) => i \in Nat /\ ~(i < e)
    <3>. HIDE DEF e
    <3>. QED
      BY SMTT(20), <2>4 DEF e
  <2>13. \A i \in Nat : i < e + length => i < e \/ i \in e..(e + length - 1)
    BY <2>4
  <2>5. \A x, i : Carries(f, x, i) => x = s /\ i \in Nat /\ ~(i < snd[s].sent_offset)
    BY Zenon, <2>11, <2>12
  <2>6. \A i \in Nat : i < snd'[s].sent_offset => i < snd[s].sent_offset \/ Carries(f, s, i)
    BY Zenon, <2>3, <2>11, <2>13
  <2>7. Fits(f, retransmit, first_misc_frame, net, rcv)
    <3>1. \A x, i : Carries(f, x, i) => x \in Streams /\ i \in Nat /\ ~(i < snd[x].sent_offset)
      BY <2>5
    <3>. QED
      BY Zenon, <3>1, NewFits
  <2>8. \A x \in Streams : Acked(x)'
    BY Zenon, <1>1, <2>1, <2>3, AckedStays DEF AllGrow, BytesInv
  <2>9. /\ \A p \in retransmit' : p \in retransmit \/ p.pn = send_sequence
        /\ Frames(retransmit', first_misc_frame', net', rcv)
        /\ \A x, i : Waits(retransmit, first_misc_frame, x, i) \/ Carries(f, x, i)
                       => Waits(retransmit', first_misc_frame', x, i)
    BY Zenon, <1>2, <2>3, <2>7
  <2>10. \A x \in Streams : \A i \in Nat : i < snd'[x].sent_offset =>
            \/ Waits(retransmit', first_misc_frame', x, i)
            \/ /\ i < snd[x].sent_offset
               /\ Waits(retransmit, first_misc_frame, x, i) => Known(x, i)'
    BY Zenon, <2>1, <2>6, <2>9 DEF Known
  <2>. QED
    BY Zenon, <1>1, <2>1, <2>8, <2>9, <2>10, BytesKeep
<1>. QED
  BY Zenon, <1>3, <1>4

(* A frame that is not repeated.                                           *)
LEMMA DroppedIsHeld ==
  ASSUME Base, BytesInv, NEW p \in retransmit, ~NeedsRepeat(p.frame),
         NEW s, NEW i, Carries(p.frame, s, i)
  PROVE  Has(rcv, s, i) \/ snd[s].reset_sent \/ rcv[s].deleted
<1> DEFINE f == p.frame
           h == snd[s]
<1>1. s \in Streams /\ i \in Nat /\ i < h.sent_offset /\ f \in Frame
  BY Zenon, CarriedWasSent, StreamsOfFrames DEF Base
<1>2. /\ f.stream = s /\ f.offset \in Nat /\ Len(f.bytes) \in Nat
      /\ i \in f.offset..(f.offset + Len(f.bytes) - 1)
  BY <1>1 DEF Carries, Frame
<1>3. SUFFICES ASSUME ~h.reset_sent, ~rcv[s].deleted PROVE Has(rcv, s, i)
  BY Zenon
<1>4. f.offset..(f.offset + Len(f.bytes)) \subseteq h.sacks
  BY Zenon, <1>2, <1>3 DEF NeedsRepeat
<1>5. Acked(s) /\ (Has(rcv, s, 1) => Has(rcv, s, 0)) /\ h.sent_offset \in Nat
  BY SMTT(20), <1>1 DEF BytesInv, Base, TypeOK, SndStream
<1>6. h.sent_offset # 0
  BY <1>1, <1>5
<1>7. \A j \in h.sacks : j = 0 \/ Has(rcv, s, j)
  BY Zenon, <1>3, <1>5, <1>6 DEF Acked
<1>8. CASE i = 0
  <2>1. 1 \in h.sacks /\ 1 # 0
    BY <1>2, <1>4, <1>8
  <2>. QED
    BY ZenonT(30), <1>5, <1>7, <1>8, <2>1
<1>9. CASE i # 0
  <2>1. i \in h.sacks
    BY <1>2, <1>4
  <2>. QED
    BY Zenon, <1>7, <1>9, <2>1
<1>. QED
  BY Zenon, <1>8, <1>9

LEMMA SplitCarries ==
  ASSUME NEW f \in Frame, f.type = "stream", NEW n \in 1..(Len(f.bytes) - 1)
  PROVE  LET a == Split(f, n)[1]
             b == Split(f, n)[2]
         IN  /\ a \in Frame /\ b \in Frame
             /\ Within(a, f) /\ Within(b, f) /\ Apart(a, b)
             /\ \A s, i : Carries(f, s, i) => Carries(a, s, i) \/ Carries(b, s, i)
<1> DEFINE a == Split(f, n)[1]
           b == Split(f, n)[2]
           l == Len(f.bytes)
           o == f.offset
<1>1. /\ a \in Frame /\ a.type = "stream" /\ a.stream = f.stream /\ a.offset = o
      /\ Len(a.bytes) = n
      /\ b \in Frame /\ b.type = "stream" /\ b.stream = f.stream /\ b.offset = o + n
      /\ Len(b.bytes) = l - n
  BY Zenon, SplitParts
<1>2. l \in Nat /\ o \in Nat /\ n \in Nat /\ 1 <= n /\ n < l
  BY DEF Frame
<1>3. \A s, i : /\ Carries(f, s, i) <=> f.stream = s /\ i \in o..(o + l - 1)
                /\ Carries(a, s, i) <=> f.stream = s /\ i \in o..(o + n - 1)
                /\ Carries(b, s, i) <=> f.stream = s /\ i \in (o + n)..(o + n + (l - n) - 1)
  <2>. HIDE DEF a, b
  <2>. QED
    BY Zenon, <1>1 DEF Carries
<1>. HIDE DEF a, b, l, o
<1>4. \A i : /\ i \in o..(o + l - 1) <=> i \in Int /\ o <= i /\ i < o + l
             /\ i \in o..(o + n - 1) <=> i \in Int /\ o <= i /\ i < o + n
             /\ i \in (o + n)..(o + n + (l - n) - 1) <=> i \in Int /\ o + n <= i /\ i < o + l
  BY <1>2
<1>5. \A s, i : /\ Carries(a, s, i) => Carries(f, s, i)
                /\ Carries(b, s, i) => Carries(f, s, i)
                /\ ~(Carries(a, s, i) /\ Carries(b, s, i))
                /\ Carries(f, s, i) => Carries(a, s, i) \/ Carries(b, s, i)
  BY <1>2, <1>3, <1>4
<1>. QED
  BY Zenon, <1>1, <1>5 DEF Within, Apart, a, b

LEMMA PutWaits ==
  ASSUME NEW R, NEW q \in Seq(Frame), NEW N, NEW r, NEW g \in Frame
  PROVE  /\ \A f : Fits(f, R, q, N, r) /\ Apart(f, g) => Fits(f, R, <<g>> \o q, N, r)
         /\ \A s, i : Waits(R, q, s, i) \/ Carries(g, s, i) => Waits(R, <<g>> \o q, s, i)
<1> DEFINE t == <<g>> \o q
<1>1. /\ 1 \in 1..Len(t) /\ t[1] = g
      /\ \A k \in 1..Len(t) : k # 1 => k - 1 \in 1..Len(q) /\ t[k] = q[k - 1]
      /\ \A j \in 1..Len(q) : j + 1 \in 1..Len(t) /\ t[j + 1] = q[j]
  BY Prepend
<1>. HIDE DEF t
<1>2. \A f : Fits(f, R, q, N, r) /\ Apart(f, g) => Fits(f, R, t, N, r)
  BY Zenon, <1>1 DEF Fits
<1>3. \A s, i : Waits(R, q, s, i) \/ Carries(g, s, i) => Waits(R, t, s, i)
  BY Zenon, <1>1 DEF Waits
<1>. QED
  BY <1>2, <1>3 DEF t

LEMMA BytesLost ==
  ASSUME Base, BytesInv, DeclareLost
  PROVE  BytesInv'
<1>1. PICK p \in retransmit : /\ SndFixed
                              /\ \/ DropStep(p) \/ WholeStep(p) \/ QueueStep(p)
                                 \/ \E n \in Nat : SplitStep(p, n)
  BY LostCases
<1> DEFINE f == p.frame
           R == retransmit \ {p}
           q == first_misc_frame
<1>2. /\ TypeOK /\ SenderInv /\ f \in Frame /\ f.stream \in Streams /\ q \in Seq(Frame)
  BY Zenon, StreamsOfFrames DEF Base, TypeOK
<1>3. snd' = snd /\ UNCHANGED <<rcv, received>>
  BY <1>1 DEF SndFixed, receiverVars
<1>4. SUFFICES /\ \A a \in retransmit' : a \in retransmit \/ a.pn = send_sequence
               /\ Frames(retransmit', first_misc_frame', net', rcv)
               /\ \A s, i : Waits(retransmit, q, s, i) =>
                    \/ Waits(retransmit', first_misc_frame', s, i)
                    \/ Has(rcv, s, i) \/ snd[s].reset_sent \/ rcv[s].deleted
  <2>1. AllGrow
    BY Zenon, <1>2, <1>3, FixedGrows
  <2>2. \A s \in Streams : Acked(s)'
    BY Zenon, <1>3, <2>1, AckedStays DEF AllGrow, BytesInv
  <2>3. \A s \in Streams : \A i \in Nat : i < snd'[s].sent_offset =>
            \/ Waits(retransmit', first_misc_frame', s, i)
            \/ /\ i < snd[s].sent_offset
               /\ Waits(retransmit, first_misc_frame, s, i) => Known(s, i)'
    BY Zenon, <1>3, <1>4 DEF Known
  <2>. QED
    BY Zenon, <1>3, <1>4, <2>1, <2>2, <2>3, BytesKeep
<1>5. Frames(R, q, net, rcv) /\ Fits(f, R, q, net, rcv)
  BY Zenon, TakePacket DEF BytesInv
<1>6. \A s, i : Waits(retransmit, q, s, i) => Waits(R, q, s, i) \/ Carries(f, s, i)
  BY Zenon DEF Waits
<1>. HIDE DEF f, q
<1>7. CASE DropStep(p)
  <2>1. /\ retransmit' = R /\ first_misc_frame' = q /\ net' = net /\ ~NeedsRepeat(f)
    BY <1>7 DEF DropStep, f, q
  <2>2. \A s, i : Carries(f, s, i) => Has(rcv, s, i) \/ snd[s].reset_sent \/ rcv[s].deleted
    BY Zenon, <2>1, DroppedIsHeld DEF f
  <2>. QED
    BY Zenon, <1>5, <1>6, <2>1, <2>2
<1>8. CASE WholeStep(p)
  <2>1. Transmit(R, f) /\ first_misc_frame' = q
    BY Zenon, <1>8 DEF WholeStep, f, q
  <2>2. /\ retransmit' = R \cup {Sent(f)} /\ net' = net \cup {Sent(f)}
        /\ Sent(f).pn = send_sequence /\ Sent(f).frame = f
    BY <1>2, <2>1, Transmitted
  <2>3. Frames(retransmit', q, net', rcv)
    BY Zenon, <1>5, <2>2, SendFrame
  <2>4. \A s, i : Waits(R, q, s, i) \/ Carries(f, s, i) => Waits(retransmit', q, s, i)
    BY Zenon, <2>2 DEF Waits
  <2>. QED
    BY Zenon, <1>6, <2>1, <2>2, <2>3, <2>4
<1>9. CASE QueueStep(p)
  <2>1. retransmit' = R /\ first_misc_frame' = <<f>> \o q /\ net' = net
    BY <1>9 DEF QueueStep, f, q
  <2>2. Frames(R, <<f>> \o q, net, rcv)
    BY Zenon, <1>2, <1>5, PutFrame
  <2>3. \A s, i : Waits(R, q, s, i) \/ Carries(f, s, i) => Waits(R, <<f>> \o q, s, i)
    BY Zenon, <1>2, PutWaits
  <2>. QED
    BY Zenon, <1>6, <2>1, <2>2, <2>3
<1>10. ASSUME NEW n \in Nat, SplitStep(p, n) PROVE <1>4!1
  <2> DEFINE a == Split(f, n)[1]
             b == Split(f, n)[2]
             t == <<b>> \o q
  <2>1. /\ f.type = "stream" /\ n \in 1..(Len(f.bytes) - 1)
        /\ Transmit(R, a) /\ first_misc_frame' = t
    BY <1>10 DEF SplitStep, f, q
  <2>2. /\ a \in Frame /\ b \in Frame /\ Within(a, f) /\ Within(b, f) /\ Apart(a, b)
        /\ \A s, i : Carries(f, s, i) => Carries(a, s, i) \/ Carries(b, s, i)
    BY ZenonT(30), <1>2, <2>1, SplitCarries
  <2>. HIDE DEF a, b
  <2>3. /\ retransmit' = R \cup {Sent(a)} /\ net' = net \cup {Sent(a)}
        /\ Sent(a).pn = send_sequence /\ Sent(a).frame = a
    BY <1>2, <2>1, <2>2, Transmitted
  <2>4. Fits(a, R, q, net, rcv) /\ Fits(b, R, q, net, rcv)
    BY Zenon, <1>5, <2>2, PartFits
  <2>5. Frames(R, t, net, rcv)
    BY Zenon, <1>2, <1>5, <2>2, <2>4, PutFrame
  <2>6. /\ Fits(a, R, t, net, rcv)
        /\ \A s, i : Waits(R, q, s, i) \/ Carries(b, s, i) => Waits(R, t, s, i)
    BY Zenon, <1>2, <2>2, <2>4, PutWaits
  <2>. HIDE DEF t
  <2>7. Frames(retransmit', t, net', rcv)
    BY Zenon, <2>3, <2>5, <2>6, SendFrame
  <2>8. \A s, i : Waits(R, t, s, i) \/ Carries(a, s, i) => Waits(retransmit', t, s, i)
    BY Zenon, <2>3 DEF Waits
  <2>. QED
    BY ZenonT(30), <1>6, <2>1, <2>2, <2>3, <2>6, <2>7, <2>8
<1>. QED
  BY Zenon, <1>1, <1>7, <1>8, <1>9, <1>10

LEMMA BytesMisc ==
  ASSUME Base, BytesInv, SendMiscFrame
  PROVE  BytesInv'
<1> DEFINE q == first_misc_frame
           f == Head(q)
<1>1. /\ TypeOK /\ SenderInv /\ Transmit(retransmit, f) /\ snd' = snd
      /\ UNCHANGED <<rcv, received>>
      /\ q \in Seq(Frame) /\ q # <<>> /\ first_misc_frame' = Tail(q)
  BY DEF Base, SendMiscFrame, receiverVars, TypeOK
<1>2. /\ f \in Frame /\ q[1] = f
      /\ \A j \in 1..Len(q) : j # 1 => j - 1 \in 1..Len(Tail(q)) /\ Tail(q)[j - 1] = q[j]
  BY Zenon, <1>1, TakeFirst
<1>3. Frames(retransmit, Tail(q), net, rcv) /\ Fits(f, retransmit, Tail(q), net, rcv)
  BY Zenon, <1>1, TakeFrame DEF BytesInv
<1>. HIDE DEF f
<1>4. /\ retransmit' = retransmit \cup {Sent(f)} /\ net' = net \cup {Sent(f)}
      /\ Sent(f).pn = send_sequence /\ Sent(f).frame = f
  BY <1>1, <1>2, Transmitted
<1>5. Frames(retransmit', first_misc_frame', net', rcv)
  <2>1. Frames(retransmit', Tail(q), net', rcv)
    BY Zenon, <1>3, <1>4, SendFrame
  <2>. QED
    BY Zenon, <1>1, <2>1
<1>6. \A s, i : Waits(retransmit, q, s, i) => Waits(retransmit', first_misc_frame', s, i)
  <2>1. \A s, i : Waits(retransmit, q, s, i) => Waits(retransmit', Tail(q), s, i)
    BY Zenon, <1>2, <1>4 DEF Waits
  <2>. QED
    BY Zenon, <1>1, <2>1
<1>7. \A a \in retransmit' : a \in retransmit \/ a.pn = send_sequence
  BY <1>4
<1>8. AllGrow
  BY Zenon, <1>1, FixedGrows
<1>9. \A s \in Streams : Acked(s)'
  BY Zenon, <1>1, <1>8, AckedStays DEF AllGrow, BytesInv
<1>10. \A s \in Streams : \A i \in Nat : i < snd'[s].sent_offset =>
          \/ Waits(retransmit', first_misc_frame', s, i)
          \/ /\ i < snd[s].sent_offset
             /\ Waits(retransmit, first_misc_frame, s, i) => Known(s, i)'
  BY Zenon, <1>1, <1>6 DEF Known
<1>. QED
  BY ZenonT(30), <1>1, <1>5, <1>7, <1>8, <1>9, <1>10, BytesKeep

LEMMA BytesAck ==
  ASSUME Base, BytesInv, ProcessAck
  PROVE  BytesInv'
<1>1. PICK p \in retransmit : AckStep(p)
  BY AckIsStep DEF Base
<1> DEFINE f == p.frame
           R == retransmit \ {p}
           q == first_misc_frame
<1>2. /\ p.pn \in received /\ retransmit' = R /\ first_misc_frame' = q /\ net' = net
      /\ UNCHANGED <<rcv, received>> /\ AllGrow
      /\ \A x \in Streams : /\ snd'[x].sent_offset = snd[x].sent_offset
                            /\ snd'[x].fin_sent = snd[x].fin_sent
  BY <1>1 DEF AckStep, receiverVars
<1>3. \A x \in Streams : \A i \in snd'[x].sacks :
         i \in snd[x].sacks \/ (f.type = "stream" /\ f.stream = x /\ i \in AckedRange(f))
  BY Zenon, <1>1 DEF AckStep
<1>4. Frames(R, q, net, rcv)
  BY Zenon, TakePacket DEF BytesInv
<1>5. \A x, i : Waits(retransmit, q, x, i) => Waits(R, q, x, i) \/ Carries(f, x, i)
  BY Zenon DEF Waits
<1>6. \A x, i : Carries(f, x, i) => rcv[x].deleted \/ Has(rcv, x, i)
  <2>1. Got(p)
    BY Zenon, <1>2 DEF BytesInv
  <2>. QED
    BY Zenon, <2>1 DEF Got, AllHeld, Carries
<1>7. \A x \in Streams : \A i \in Nat : i < snd'[x].sent_offset =>
          \/ Waits(retransmit', first_misc_frame', x, i)
          \/ /\ i < snd[x].sent_offset
             /\ Waits(retransmit, first_misc_frame, x, i) => Known(x, i)'
  BY Zenon, <1>2, <1>5, <1>6 DEF Known
<1>8. ASSUME NEW x \in Streams PROVE Acked(x)'
  <2>1. CASE rcv[x].deleted \/ (snd[x].fin_sent /\ snd[x].sent_offset = 0)
    BY Zenon, <1>2, <2>1 DEF Acked
  <2>2. CASE ~rcv[x].deleted /\ ~(snd[x].fin_sent /\ snd[x].sent_offset = 0)
    <3>1. \A i \in snd[x].sacks : i = 0 \/ Has(rcv, x, i)
      BY Zenon, <2>2 DEF BytesInv, Acked
    <3>2. ASSUME f.type = "stream", f.stream = x, NEW i \in AckedRange(f)
          PROVE  Carries(f, x, i)
      <4>1. f \in Frame /\ Proper(f, snd[x])
        BY Zenon, <3>2, StreamsOfFrames DEF Base, SenderInv
      <4>2. /\ f.fin => snd[x].fin_sent /\ f.offset + Len(f.bytes) = snd[x].sent_offset
            /\ f.fin \/ Len(f.bytes) > 0
        BY Zenon, <3>2, <4>1 DEF Proper, End
      <4>3. ~(f.offset = 0 /\ f.bytes = <<>>)
        BY <2>2, <4>2
      <4>. QED
        BY Zenon, <3>2, <4>3 DEF AckedRange, Carries
    <3>. QED
      BY Zenon, <1>2, <1>3, <1>6, <2>2, <3>1, <3>2 DEF Acked
  <2>. QED
    BY Zenon, <2>1, <2>2
<1>9. /\ \A a \in retransmit' : a \in retransmit \/ a.pn = send_sequence
      /\ Frames(retransmit', first_misc_frame', net', rcv)
  BY Zenon, <1>2, <1>4
<1>. QED
  BY Zenon, <1>2, <1>7, <1>8, <1>9, BytesKeep

(* A frame f arrives and its bytes from x up to y are added to those of    *)
(* receiver r, which becomes t.  Those that follow y are dropped, and then *)
(* y was there already.                                                    *)
Fills(f, r, t, x, y) ==
    /\ x \in Nat /\ y \in Nat /\ f.offset <= x /\ x <= y
    /\ \A s \in Streams : \A i \in Nat :
         Has(t, s, i) <=> Has(r, s, i) \/ (s = f.stream /\ x <= i /\ i < y)
    /\ \A i \in Nat : x <= i /\ i < y => Carries(f, f.stream, i)
    /\ \A i \in Nat : Carries(f, f.stream, i) /\ i < x => Has(r, f.stream, i)
    /\ \A i \in Nat : Carries(f, f.stream, i) /\ y <= i => Has(r, f.stream, y)

LEMMA CarriedIs ==
  ASSUME NEW f \in Frame, NEW s, NEW i, Carries(f, s, i)
  PROVE  s \in Streams /\ s = f.stream /\ i \in Nat /\ f.offset \in Nat /\ f.offset <= i
BY DEF Frame, Carries

(* An interval.                                                            *)
LEMMA CarriesBetween ==
  ASSUME NEW f \in Frame, NEW s, NEW i \in Nat, NEW j \in Nat, NEW k \in Nat,
         i <= j, j <= k, Carries(f, s, k), f.offset <= i \/ Carries(f, s, i)
  PROVE  Carries(f, s, j)
BY DEF Frame, Carries

LEMMA FilledIsMore ==
  ASSUME NEW f \in Frame, NEW r, NEW t, NEW x, NEW y, Fills(f, r, t, x, y),
         NEW w \in Frame, AllHeld(w, r)
  PROVE  AllHeld(w, t)
BY Zenon, CarriedIs DEF Fills, AllHeld

(* A frame within the one that arrives: all of it is added, or nothing.    *)
LEMMA FilledWithin ==
  ASSUME NEW f \in Frame, NEW r, NEW t, NEW x, NEW y, Fills(f, r, t, x, y),
         NEW w \in Frame, Within(w, f), NoneHeld(w, r)
  PROVE  Whole(w, t)
<1> DEFINE s == f.stream
<1>1. \A z, i : Carries(w, z, i) => z = s /\ s \in Streams /\ i \in Nat /\ Carries(f, s, i)
  BY Zenon, CarriedIs DEF Within
<1>2. \A z, i : Carries(w, z, i) => ~Has(r, s, i) /\ x <= i
  <2>1. ASSUME NEW z, NEW i, Carries(w, z, i) PROVE ~Has(r, s, i) /\ ~(i < x)
    BY Zenon, <1>1, <2>1 DEF NoneHeld, Fills
  <2>2. x \in Nat
    BY Zenon DEF Fills
  <2>. QED
    BY <1>1, <2>1, <2>2
<1>3. CASE \A z, i : Carries(w, z, i) => i < y
  BY Zenon, <1>1, <1>2, <1>3 DEF Whole, AllHeld, Fills
<1>4. CASE ~\A z, i : Carries(w, z, i) => i < y
  <2>1. PICK z, k : Carries(w, z, k) /\ ~(k < y)
    BY Zenon, <1>4
  <2>2. y \in Nat /\ k \in Nat /\ z = s /\ y <= k /\ Carries(f, s, k)
    BY <1>1, <2>1 DEF Fills
  <2>3. Has(r, s, y)
    BY Zenon, <2>2 DEF Fills
  <2>4. ~Carries(w, s, y)
    BY Zenon, <1>2, <2>3
  <2>5. \A i : Carries(w, s, i) => i \in Nat /\ ~(i <= y)
    BY Zenon, <1>1, <2>1, <2>2, <2>4, CarriesBetween
  <2>6. \A i : Carries(w, s, i) => ~(i < y)
    BY <2>2, <2>5
  <2>. QED
    BY Zenon, <1>1, <1>2, <2>6 DEF Whole, NoneHeld, Fills
<1>. QED
  BY Zenon, <1>3, <1>4

LEMMA FilledApart ==
  ASSUME NEW f \in Frame, NEW r, NEW t, NEW x, NEW y, Fills(f, r, t, x, y),
         NEW w \in Frame, Apart(w, f), NoneHeld(w, r)
  PROVE  NoneHeld(w, t)
<1>1. \A z, i : Carries(w, z, i) => z \in Streams /\ i \in Nat /\ ~Carries(f, z, i)
  BY Zenon, CarriedIs DEF Apart
<1>2. \A z, i : Carries(w, z, i) => ~(z = f.stream /\ x <= i /\ i < y)
  BY Zenon, <1>1 DEF Fills
<1>. QED
  BY Zenon, <1>1, <1>2 DEF NoneHeld, Fills

(* A packet of the sender that arrives and is accepted.                    *)
LEMMA FilledItself ==
  ASSUME NEW f \in Frame, NEW r, NEW t, NEW x, NEW y, Fills(f, r, t, x, y), Whole(f, r)
  PROVE  AllHeld(f, t)
<1>1. CASE AllHeld(f, r)
  BY Zenon, <1>1, FilledIsMore
<1>2. CASE NoneHeld(f, r)
  <2>1. ASSUME NEW s, NEW i, Carries(f, s, i) PROVE Has(t, s, i)
    <3>1. /\ s \in Streams /\ s = f.stream /\ i \in Nat /\ ~Has(r, s, i)
          /\ x \in Nat /\ y \in Nat /\ f.offset <= x /\ x <= y /\ f.offset \in Nat
      BY Zenon, <1>2, <2>1, CarriedIs DEF NoneHeld, Fills
    <3>2. ~(i < x)
      BY Zenon, <2>1, <3>1 DEF Fills
    <3>3. ASSUME y <= i PROVE FALSE
      <4>1. Has(r, s, y)
        BY Zenon, <2>1, <3>1, <3>3 DEF Fills
      <4>2. f.offset <= y /\ y <= y
        BY <3>1
      <4>3. Carries(f, s, y)
        BY Zenon, <2>1, <3>1, <3>3, <4>2, CarriesBetween
      <4>. QED
        BY Zenon, <1>2, <4>1, <4>3 DEF NoneHeld
    <3>4. x <= i /\ i < y
      BY <3>1, <3>2, <3>3
    <3>. QED
      BY Zenon, <3>1, <3>4 DEF Fills
  <2>. QED
    BY Zenon, <2>1 DEF AllHeld
<1>. QED
  BY Zenon, <1>1, <1>2 DEF Whole

LEMMA FramesFilled ==
  ASSUME NEW R, NEW q, NEW N, NEW r, NEW t, NEW x, NEW y, NEW m \in N,
         Frames(R, q, N, r), m.frame \in Frame, Fills(m.frame, r, t, x, y),
         \A a \in R : a.frame \in Frame, \A k \in 1..Len(q) : q[k] \in Frame
  PROVE  Frames(R, q, N \ {m}, t)
<1>1. ASSUME NEW w \in Frame, Near(w, m.frame), Whole(w, r) PROVE Whole(w, t)
  <2>1. CASE AllHeld(w, r)
    BY Zenon, <2>1, FilledIsMore DEF Whole
  <2>2. CASE NoneHeld(w, r) /\ Within(w, m.frame)
    BY Zenon, <2>2, FilledWithin
  <2>3. CASE NoneHeld(w, r) /\ Apart(w, m.frame)
    BY Zenon, <2>3, FilledApart DEF Whole
  <2>. QED
    BY Zenon, <1>1, <2>1, <2>2, <2>3 DEF Near, Whole
<1>. QED
  BY Zenon, <1>1 DEF Frames

(* The receiver after a frame was accepted.                                *)
LEMMA AcceptedFills ==
  ASSUME Base, NEW m \in net, NEW k \in RcvStream, Accepts(m, k)
  PROVE  /\ \E x, y \in Nat : Fills(m.frame, rcv, rcv', x, y)
         /\ \A s \in Streams : rcv[s].deleted => rcv'[s].deleted
<1> DEFINE f == m.frame
           s == f.stream
           h == rcv[s]
<1>1. /\ f \in Frame /\ s \in Streams /\ Proper(f, snd[s])
      /\ f.offset \in Nat /\ Len(f.bytes) \in Nat /\ f.type \in {"stream", "reset"}
  BY Zenon, StreamsOfFrames, FrameFields DEF Base, SenderInv
<1>2. ~h.deleted /\ rcv' = [rcv EXCEPT ![s] = k]
  BY ZenonT(30) DEF Accepts
<1>3. rcv'[s] = k /\ \A z \in Streams : z # s => rcv'[z] = rcv[z]
  BY <1>1, <1>2 DEF Base, TypeOK
<1>4. PICK x \in Nat, y \in Nat : Filled(f, h, k, x, y)
  BY Zenon DEF Accepts
<1>5. /\ f.offset <= x /\ x <= y /\ y <= f.offset + Len(f.bytes)
      /\ \A i \in Nat : f.offset <= i /\ i < x => Has(rcv, s, i)
      /\ y = f.offset + Len(f.bytes) \/ Has(rcv, s, y)
      /\ \A i \in Nat : i \in HeldOf(k) <=> Has(rcv, s, i) \/ (x <= i /\ i < y)
  BY Zenon, <1>4 DEF Filled, End, Has
<1>6. \A z \in Streams : \A i \in Nat :
         Has(rcv', z, i) <=> Has(rcv, z, i) \/ (z = s /\ x <= i /\ i < y)
  BY Zenon, <1>3, <1>5 DEF Has
<1>7. f.type # "stream" => f.bytes = <<>>
  BY Zenon, <1>1 DEF Proper
<1>8. ASSUME NEW i \in Nat, x <= i, i < y PROVE Carries(f, s, i)
  <2>1. i \in f.offset..(f.offset + Len(f.bytes) - 1)
    BY Zenon, <1>1, <1>5, <1>8, InInterval
  <2>2. Len(f.bytes) # 0
    BY Zenon, <1>1, <1>5, <1>8, InInterval
  <2>3. f.type = "stream"
    BY <1>7, <2>2
  <2>. QED
    BY ZenonT(30), <2>1, <2>3 DEF Carries
<1>9. ASSUME NEW i \in Nat, Carries(f, s, i), i < x PROVE Has(rcv, s, i)
  <2>1. f.offset <= i
    BY Zenon, <1>1, <1>9, CarriedIs
  <2>. QED
    BY Zenon, <1>5, <1>9, <2>1
<1>10. ASSUME NEW i \in Nat, Carries(f, s, i), y <= i PROVE Has(rcv, s, y)
  <2>1. y # f.offset + Len(f.bytes)
    BY <1>1, <1>10 DEF Carries
  <2>. QED
    BY Zenon, <1>5, <2>1
<1>11. Fills(f, rcv, rcv', x, y)
  BY Zenon, <1>5, <1>6, <1>8, <1>9, <1>10 DEF Fills
<1>. QED
  BY Zenon, <1>2, <1>3, <1>11

LEMMA BytesArrives ==
  ASSUME Base, BytesInv, MinFirst >= 2, NEW m \in net, ArriveStep(m)
  PROVE  BytesInv'
<1> DEFINE f == m.frame
<1>1. /\ snd' = snd /\ retransmit' = retransmit /\ first_misc_frame' = first_misc_frame
      /\ net' = net \ {m}
  BY DEF ArriveStep, senderVars
<1>2. /\ \A a \in retransmit : a.frame \in Frame /\ a.frame.stream \in Streams
      /\ \A k \in 1..Len(first_misc_frame) : first_misc_frame[k] \in Frame
      /\ f \in Frame /\ f.stream \in Streams
  BY Zenon, StreamsOfFrames DEF Base, Misc
<1>3. \A a \in retransmit : a.pn = m.pn => a = m
  BY Zenon DEF Base, SenderInv
<1>4. SUFFICES /\ Frames(retransmit, first_misc_frame, net \ {m}, rcv')
               /\ \A s \in Streams : \A i \in Nat : Has(rcv, s, i) => Has(rcv', s, i)
               /\ \A s \in Streams : rcv[s].deleted => rcv'[s].deleted
               /\ \A s \in Streams : Has(rcv', s, 1) => Has(rcv', s, 0)
               /\ \A a \in retransmit : a.pn \in received' => a.pn \in received \/ Got(a)'
  <2>1. Frames(retransmit', first_misc_frame', net', rcv')
    BY Zenon, <1>1, <1>4
  <2>2. ASSUME NEW a \in retransmit', a.pn \in received' PROVE Got(a)'
    <3>1. a \in retransmit /\ a.frame \in Frame /\ a.frame.stream \in Streams
      BY Zenon, <1>1, <1>2
    <3>2. ASSUME Got(a) PROVE Got(a)'
      BY Zenon, <1>4, <3>1, <3>2, CarriedIs DEF Got, AllHeld
    <3>. QED
      BY Zenon, <1>4, <2>2, <3>1, <3>2 DEF BytesInv
  <2>3. ASSUME NEW s \in Streams, NEW i \in Nat, i < snd'[s].sent_offset PROVE Known(s, i)'
    <3>1. Known(s, i)
      BY Zenon, <1>1, <2>3 DEF BytesInv
    <3>. QED
      BY Zenon, <1>1, <1>4, <3>1 DEF Known
  <2>4. ASSUME NEW s \in Streams PROVE Acked(s)'
    <3>1. Acked(s) /\ \A i \in snd[s].sacks : i \in Nat
      BY Zenon DEF BytesInv, Base, TypeOK, SndStream
    <3>. QED
      BY Zenon, <1>1, <1>4, <3>1 DEF Acked
  <2>. QED
    BY Zenon, <1>4, <2>1, <2>2, <2>3, <2>4 DEF BytesInv
<1>5. CASE Ignores(m)
  <2>1. /\ rcv' = rcv
        /\ received' = received \/ (rcv[f.stream].deleted /\ received' = received \cup {m.pn})
    BY Zenon, <1>5 DEF Ignores
  <2>2. Frames(retransmit, first_misc_frame, net \ {m}, rcv)
    BY Zenon, FewerPackets DEF BytesInv
  <2>3. ASSUME NEW a \in retransmit, a.pn \in received' PROVE a.pn \in received \/ Got(a)'
    BY Zenon, <1>3, <2>1, <2>3 DEF Got
  <2>. QED
    BY Zenon, <2>1, <2>2, <2>3 DEF BytesInv
<1>6. ASSUME NEW k \in RcvStream, Accepts(m, k) PROVE <1>4!1
  <2>1. /\ \E x, y \in Nat : Fills(f, rcv, rcv', x, y)
        /\ \A s \in Streams : rcv[s].deleted => rcv'[s].deleted
    BY Zenon, <1>6, AcceptedFills
  <2>2. PICK x \in Nat, y \in Nat : Fills(f, rcv, rcv', x, y)
    BY Zenon, <2>1
  <2>3. Frames(retransmit, first_misc_frame, net \ {m}, rcv')
    BY Zenon, <1>2, <2>2, FramesFilled DEF BytesInv
  <2>4. \A s \in Streams : \A i \in Nat : Has(rcv, s, i) => Has(rcv', s, i)
    BY Zenon, <2>2 DEF Fills
  <2>5. ASSUME NEW a \in retransmit, a.pn \in received' PROVE a.pn \in received \/ Got(a)'
    <3>1. received' = received \cup {m.pn}
      BY Zenon, <1>6 DEF Accepts
    <3>2. ASSUME a = m PROVE Got(a)'
      <4>1. Whole(f, rcv)
        BY Zenon, <3>2 DEF BytesInv, Frames
      <4>2. AllHeld(f, rcv')
        BY Zenon, <1>2, <2>2, <4>1, FilledItself
      <4>. QED
        BY Zenon, <3>2, <4>2 DEF Got
    <3>. QED
      BY Zenon, <1>3, <2>5, <3>1, <3>2
  <2>6. ASSUME NEW s \in Streams, Has(rcv', s, 1) PROVE Has(rcv', s, 0)
    <3>1. CASE Has(rcv, s, 1)
      BY Zenon, <2>4, <3>1 DEF BytesInv
    <3>2. CASE ~Has(rcv, s, 1)
      <4>1. s = f.stream /\ x <= 1 /\ 1 < y
        BY Zenon, <2>2, <2>6, <3>2 DEF Fills
      <4>2. Carries(f, s, 1)
        BY ZenonT(30), <2>2, <4>1 DEF Fills
      <4>3. Proper(f, snd[s]) /\ MinFirst \in Nat
        BY SMTT(20), <4>1, SizesAssumption DEF Base, SenderInv
      <4>4. f.offset = 0
        <5>1. f.type = "stream" /\ f.offset \in Nat /\ f.offset <= 1
          BY Zenon, <1>2, <4>2, CarriedIs DEF Carries
        <5>2. f.offset = 0 \/ MinFirst <= f.offset
          BY Zenon, <4>3, <5>1 DEF Proper
        <5>. QED
          BY <4>3, <5>1, <5>2
      <4>5. Carries(f, s, 0)
        BY <4>2, <4>4 DEF Carries
      <4>6. x <= 0 \/ 0 < x
        BY <2>2
      <4>7. 0 \in Nat /\ 0 < y
        BY <4>1
      <4>8. Has(rcv, s, 0) \/ (x <= 0 /\ 0 < y)
        BY Zenon, <2>2, <4>1, <4>5, <4>6, <4>7 DEF Fills
      <4>. QED
        BY Zenon, <2>2, <4>1, <4>7, <4>8 DEF Fills
    <3>. QED
      BY Zenon, <3>1, <3>2
  <2>. QED
    BY Zenon, <2>1, <2>3, <2>4, <2>5, <2>6
<1>. QED
  BY Zenon, <1>5, <1>6 DEF ArriveStep

LEMMA BytesInit == Init => BytesInv
<1>. SUFFICES ASSUME Init PROVE BytesInv
  OBVIOUS
<1>1. Base
  BY BaseInit
<1>2. /\ retransmit = {} /\ net = {} /\ 1..Len(first_misc_frame) = {} /\ received = {}
  BY SMTT(20) DEF Init
<1>3. ASSUME NEW s \in Streams
      PROVE  snd[s].sent_offset = 0 /\ snd[s].sacks = {0}
  BY DEF Init, NewSndStream
<1>4. Frames(retransmit, first_misc_frame, net, rcv)
  BY Zenon, <1>2 DEF Frames
<1>5. ASSUME NEW s \in Streams PROVE ~Has(rcv, s, 1)
  <2>1. ~(1 < snd[s].sent_offset)
    BY <1>3
  <2>. QED
    BY Zenon, <1>1, <2>1, HeldWasSent
<1>6. \A s \in Streams : \A i \in Nat : ~(i < snd[s].sent_offset)
  BY <1>3
<1>7. \A s \in Streams : Acked(s)
  BY <1>3 DEF Acked
<1>. QED
  BY Zenon, <1>2, <1>4, <1>5, <1>6, <1>7 DEF BytesInv
=============================================================================
