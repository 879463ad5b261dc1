------------------------ MODULE StreamTransfer_proofs ------------------------
(***************************************************************************)
(* The theorems about StreamTransfer.  StreamSteps_proofs has the          *)
(* invariants and the steps of the sender and of the network; the frames   *)
(* that arrive are taken by the queue of Reassembly_proofs; and the bytes  *)
(* that the two ends count are counted here.                               *)
(***************************************************************************)
EXTENDS StreamSteps_proofs, Reassembly_proofs, FiniteSetTheorems

-----------------------------------------------------------------------------
(* A frame that arrives.                                                   *)

LEMMA HeldAreNat ==
  ASSUME NEW q, NEW c \in Nat, InOrder(q, c)
  PROVE  Held(q, c) \subseteq Nat
<1>1. /\ q \in Seq(Block) /\ DOMAIN q = 1..Len(q)
      /\ \A i \in 1..Len(q) : q[i].offset \in Nat /\ End(q[i]) \in Nat
  BY BlockFacts
<1>2. \A i \in DOMAIN q : q[i].offset..(End(q[i]) - 1) \subseteq Nat
  BY <1>1
<1>3. 0..(c - 1) \subseteq Nat
  OBVIOUS
<1>. QED
  BY <1>2, <1>3 DEF Held

(* The queue after picoquic_queue_network_input and the callback.          *)
Output(h, f) == Deliver(QueueInput(h, f), h.consumed_offset)
NetworkInput(h, f) == StreamNetworkInput(h, f, QueueInput(h, f), Output(h, f))

LEMMA OutputIs ==
  ASSUME NEW h \in RcvStream, NEW f \in Frame, Numbered(f.offset, f.bytes),
         InOrder(h.stream_data, h.consumed_offset)
  PROVE  LET out == Output(h, f)
             c   == h.consumed_offset
             now == Held(out.stream_data, out.consumed_offset)
         IN  /\ out.consumed_offset \in Nat /\ c <= out.consumed_offset
             /\ out.bytes = [k \in 1..(out.consumed_offset - c) |-> c + k - 1]
             /\ InOrder(out.stream_data, out.consumed_offset)
             /\ Ahead(out.stream_data, out.consumed_offset)
             /\ \E x, y \in Nat :
                  /\ f.offset <= x /\ x <= y /\ y <= End(f)
                  /\ \A i \in Nat : f.offset <= i /\ i < x => i \in HeldOf(h)
                  /\ \A i \in Nat : x <= i /\ i < y => i \notin HeldOf(h)
                  /\ y = End(f) \/ y \in HeldOf(h)
                  /\ \A i \in Nat : i \in now <=> i \in HeldOf(h) \/ (x <= i /\ i < y)
<1> DEFINE c == h.consumed_offset
           q == h.stream_data
           new == picoquic_queue_network_input(q, f.offset, f.bytes, c)
           out == Deliver(new, c)
           now == Held(out.stream_data, out.consumed_offset)
<1>1. c \in Nat /\ InOrder(q, c) /\ f.offset \in Nat /\ f.bytes \in Seq(Nat)
  BY DEF RcvStream, Frame
<1>2. InOrder(new, c) /\ \E x, y \in Nat : Adds(q, new, c, f.offset, Len(f.bytes), x, y)
  BY <1>1, InputAdds
<1>3. /\ out.consumed_offset \in Nat /\ c <= out.consumed_offset
      /\ out.bytes = [k \in 1..(out.consumed_offset - c) |-> c + k - 1]
      /\ InOrder(out.stream_data, out.consumed_offset)
      /\ Ahead(out.stream_data, out.consumed_offset)
      /\ \A k \in Nat : k \in now <=> k \in Held(new, c)
  <2>. HIDE DEF new, c
  <2>. QED
    BY <1>1, <1>2, DeliverReads
<1>4. PICK x \in Nat, y \in Nat : Adds(q, new, c, f.offset, Len(f.bytes), x, y)
  BY <1>2
<1>5. Held(q, c) = HeldOf(h)
  BY DEF HeldOf
<1>6. out = Output(h, f)
  BY DEF Output, QueueInput
<1>. HIDE DEF out, new, q, c
<1>7. /\ f.offset <= x /\ x <= y /\ y <= End(f)
      /\ \A i \in Nat : f.offset <= i /\ i < x => i \in HeldOf(h)
      /\ \A i \in Nat : x <= i /\ i < y => i \notin HeldOf(h)
      /\ y = End(f) \/ y \in HeldOf(h)
      /\ \A i \in Nat : i \in now <=> i \in HeldOf(h) \/ (x <= i /\ i < y)
  <2>. HIDE DEF now
  <2>. QED
    BY <1>3, <1>4, <1>5 DEF Adds, End
<1>8. \E x1, y1 \in Nat :
        /\ f.offset <= x1 /\ x1 <= y1 /\ y1 <= End(f)
        /\ \A i \in Nat : f.offset <= i /\ i < x1 => i \in HeldOf(h)
        /\ \A i \in Nat : x1 <= i /\ i < y1 => i \notin HeldOf(h)
        /\ y1 = End(f) \/ y1 \in HeldOf(h)
        /\ \A i \in Nat : i \in now <=> i \in HeldOf(h) \/ (x1 <= i /\ i < y1)
  BY Zenon, <1>7
<1>. QED
  BY Zenon, <1>3, <1>6, <1>8 DEF c

(* What a frame makes of a stream.                                         *)
Input(h, f, k) ==
    /\ k.stream_data = Output(h, f).stream_data
    /\ k.consumed_offset = Output(h, f).consumed_offset
    /\ k.fin_offset = Higher(h, f)
    /\ k.fin_received = (h.fin_received \/ f.fin)
    /\ k.fin_signalled =>
         h.fin_signalled \/ (k.fin_received /\ k.consumed_offset >= k.fin_offset)
    /\ k.reset_received = h.reset_received /\ k.maxdata_local = h.maxdata_local
    /\ k.other_done = h.other_done

LEMMA InputIs ==
  ASSUME NEW h \in RcvStream, NEW f \in Frame, Numbered(f.offset, f.bytes),
         InOrder(h.stream_data, h.consumed_offset),
         Ahead(h.stream_data, h.consumed_offset)
  PROVE  LET k == NetworkInput(h, f) IN k \in RcvStream /\ Input(h, f, k)
<1> DEFINE end == f.offset + Len(f.bytes)
           queue == QueueInput(h, f)
           notify == (f.fin /\ ~h.fin_received) \/ queue # h.stream_data
           out == Deliver(queue, h.consumed_offset)
           high == Highest(h, end)
           fin == h.fin_received \/ f.fin
           input == [h EXCEPT !.fin_received = fin, !.fin_offset = high]
           more == [input EXCEPT !.stream_data = out.stream_data,
                                 !.consumed_offset = out.consumed_offset]
           k == NetworkInput(h, f)
<1>1. k = IF notify THEN SignalFin(more) ELSE input
  BY DEF NetworkInput, StreamNetworkInput, Output
<1>2. high = Higher(h, f) /\ high \in Nat
  <2>1. end \in Nat /\ end = End(f) /\ h.fin_offset \in Nat
    BY DEF End, RcvStream, Frame
  <2>2. high = IF h.fin_offset <= end THEN end ELSE h.fin_offset
    BY Zenon, <2>1, MaxOfTwo DEF Highest
  <2>. HIDE DEF end
  <2>. QED
    BY <2>1, <2>2 DEF Higher
<1>3. fin \in BOOLEAN
  BY DEF RcvStream, Frame
<1>4. out = Output(h, f)
  BY DEF Output
<1>5. out.consumed_offset \in Nat /\ out.stream_data \in Seq(Block)
  BY Zenon, <1>4, OutputIs DEF InOrder
<1>. HIDE DEF high, fin, out
<1>6. /\ input \in RcvStream /\ input.stream_data = h.stream_data
      /\ input.consumed_offset = h.consumed_offset
      /\ input.fin_offset = high /\ input.fin_received = fin
      /\ input.fin_signalled = h.fin_signalled /\ input.reset_received = h.reset_received
      /\ input.maxdata_local = h.maxdata_local /\ input.other_done = h.other_done
  BY Zenon, <1>2, <1>3 DEF RcvStream
<1>. HIDE DEF input
<1>7. CASE notify
  <2>1. /\ more \in RcvStream /\ more.stream_data = out.stream_data
        /\ more.consumed_offset = out.consumed_offset
        /\ more.fin_offset = high /\ more.fin_received = fin
        /\ more.fin_signalled = h.fin_signalled /\ more.reset_received = h.reset_received
        /\ more.maxdata_local = h.maxdata_local /\ more.other_done = h.other_done
    BY Zenon, <1>5, <1>6 DEF RcvStream
  <2>. HIDE DEF more
  <2> DEFINE done == more.fin_signalled
                     \/ (more.fin_received /\ more.consumed_offset >= more.fin_offset)
  <2>2. done \in BOOLEAN
    BY <2>1 DEF RcvStream
  <2>3. k = [more EXCEPT !.fin_signalled = done]
    BY <1>1, <1>7 DEF SignalFin
  <2>4. done => more.fin_signalled
                \/ (more.fin_received /\ more.consumed_offset >= more.fin_offset)
    OBVIOUS
  <2>. HIDE DEF done, k
  <2>5. /\ k \in RcvStream /\ k.stream_data = more.stream_data
        /\ k.consumed_offset = more.consumed_offset
        /\ k.fin_offset = more.fin_offset /\ k.fin_received = more.fin_received
        /\ k.fin_signalled = done /\ k.reset_received = more.reset_received
        /\ k.maxdata_local = more.maxdata_local /\ k.other_done = more.other_done
    BY <2>1, <2>2, <2>3 DEF RcvStream
  <2>6. Input(h, f, k)
    BY Zenon, <1>2, <1>4, <2>1, <2>4, <2>5 DEF Input, fin
  <2>. QED
    BY <2>5, <2>6 DEF k
<1>8. CASE ~notify
  <2>1. k = input
    BY <1>1, <1>8
  <2>2. queue = h.stream_data
    BY <1>8
  <2>3. out.stream_data = h.stream_data /\ out.consumed_offset = h.consumed_offset
    <3>1. h.consumed_offset \in Nat
      BY DEF RcvStream
    <3>. QED
      BY Zenon, <2>2, <3>1, NothingDue DEF out
  <2>. HIDE DEF k
  <2>4. Input(h, f, k)
    BY Zenon, <1>2, <1>4, <1>6, <2>1, <2>3 DEF Input, fin
  <2>. QED
    BY <1>6, <2>1, <2>4 DEF k
<1>. QED
  BY <1>7, <1>8

(* What was read grows by the bytes that follow.                           *)
UpTo(c) == [i \in 1..c |-> i - 1]
Following(c, n) == [i \in 1..n |-> c + i - 1]
LEMMA ReadOn ==
  ASSUME NEW c \in Nat, NEW e \in Nat, c <= e
  PROVE  /\ UpTo(c) \o Following(c, e - c) \in Seq(Nat)
         /\ UpTo(c) \o Following(c, e - c) = UpTo(e)
<1> DEFINE read == [i \in 1..c |-> i - 1]
           bytes == [i \in 1..(e - c) |-> c + i - 1]
<1> DEFINE all == [i \in 1..e |-> i - 1]
<1>1. read \in Seq(Nat) /\ Len(read) = c
  OBVIOUS
<1>2. bytes \in Seq(Nat) /\ Len(bytes) = e - c
  OBVIOUS
<1>3. all \in Seq(Nat) /\ Len(all) = e
  OBVIOUS
<1>4. read \o bytes \in Seq(Nat) /\ Len(read \o bytes) = e
  BY <1>1, <1>2
<1>5. ASSUME NEW i \in 1..e PROVE (read \o bytes)[i] = all[i]
  <2>1. CASE i <= c
    <3>1. (read \o bytes)[i] = read[i]
      BY <1>1, <1>2, <2>1
    <3>2. read[i] = i - 1
      BY <2>1
    <3>. QED
      BY <3>1, <3>2
  <2>2. CASE i > c
    <3>1. (read \o bytes)[i] = bytes[i - c]
      BY <1>1, <1>2, <2>2
    <3>2. bytes[i - c] = c + (i - c) - 1
      BY <2>2
    <3>. QED
      BY <3>1, <3>2
  <2>. QED
    BY <2>1, <2>2
<1>. HIDE DEF all, read, bytes
<1>6. read \o bytes = all
  BY Zenon, <1>3, <1>4, <1>5, SameSeq
<1>. QED
  BY Zenon, <1>4, <1>6 DEF all, read, bytes, UpTo, Following

(* A stream frame is taken.                                                *)
LEMMA StreamTaken ==
  ASSUME NEW h \in RcvStream, NEW g \in SndStream, NEW read, Receiving(h, g, read),
         NEW f \in Frame, Proper(f, g), Sending(g), ~h.deleted,
         NEW k \in RcvStream, Input(h, f, k),
         k.deleted => k.fin_signalled
  PROVE  /\ Receiving(k, g, read \o Output(h, f).bytes)
         /\ read \o Output(h, f).bytes \in Seq(Nat)
         /\ \E x, y \in Nat : Filled(f, h, k, x, y)
<1> DEFINE out == Output(h, f)
           c == h.consumed_offset
<1>1. /\ Numbered(f.offset, f.bytes) /\ InOrder(h.stream_data, c)
      /\ c \in Nat /\ h.fin_offset \in Nat /\ g.sent_offset \in Nat
      /\ k.fin_offset \in Nat /\ End(f) \in Nat
  BY DEF Proper, Receiving, RcvStream, SndStream, Frame, End
<1>2. /\ out.consumed_offset \in Nat /\ c <= out.consumed_offset
      /\ out.bytes = [i \in 1..(out.consumed_offset - c) |-> c + i - 1]
      /\ InOrder(out.stream_data, out.consumed_offset)
      /\ Ahead(out.stream_data, out.consumed_offset)
  BY Zenon, <1>1, OutputIs
<1>3. \E x, y \in Nat :
        /\ f.offset <= x /\ x <= y /\ y <= End(f)
        /\ \A i \in Nat : f.offset <= i /\ i < x => i \in HeldOf(h)
        /\ \A i \in Nat : x <= i /\ i < y => i \notin HeldOf(h)
        /\ y = End(f) \/ y \in HeldOf(h)
        /\ \A i \in Nat : i \in Held(out.stream_data, out.consumed_offset) <=>
                            i \in HeldOf(h) \/ (x <= i /\ i < y)
  BY Zenon, <1>1, OutputIs
<1>4. k.stream_data = out.stream_data /\ k.consumed_offset = out.consumed_offset
  BY Zenon DEF Input
<1>. HIDE DEF out, c
<1>5. HeldOf(k) = Held(out.stream_data, out.consumed_offset)
  BY Zenon, <1>4 DEF HeldOf
<1>6. PICK x \in Nat, y \in Nat : Filled(f, h, k, x, y)
  <2>1. \E x, y \in Nat : Filled(f, h, k, x, y)
    BY Zenon, <1>3, <1>5 DEF Filled
  <2>. QED
    BY <2>1
<1>7. /\ read = [i \in 1..c |-> i - 1] /\ h.fin_offset <= g.sent_offset
      /\ h.fin_received => g.fin_sent /\ h.fin_offset = g.sent_offset
      /\ h.reset_received => g.reset_sent /\ h.fin_offset = g.sent_offset
      /\ h.fin_signalled => h.fin_received /\ c = h.fin_offset
      /\ \A i \in HeldOf(h) : i < h.fin_offset
  BY DEF Receiving, c
<1>8. /\ End(f) <= g.sent_offset /\ (f.fin => g.fin_sent /\ End(f) = g.sent_offset)
  BY Zenon DEF Proper
<1>9. /\ read \o out.bytes \in Seq(Nat)
      /\ read \o out.bytes = [i \in 1..k.consumed_offset |-> i - 1]
  <2>1. k.consumed_offset \in Nat /\ c <= k.consumed_offset
    BY Zenon, <1>2, <1>4
  <2>2. read = UpTo(c) /\ out.bytes = Following(c, k.consumed_offset - c)
    BY Zenon, <1>2, <1>4, <1>7 DEF UpTo, Following
  <2>3. /\ read \o out.bytes \in Seq(Nat)
        /\ read \o out.bytes = UpTo(k.consumed_offset)
    BY Zenon, <1>1, <2>1, <2>2, ReadOn
  <2>. QED
    BY Zenon, <2>3 DEF UpTo
<1>10. /\ k.fin_offset = Higher(h, f)
       /\ h.fin_offset <= k.fin_offset /\ End(f) <= k.fin_offset
       /\ k.fin_offset <= g.sent_offset
  BY <1>1, <1>7, <1>8 DEF Input, Higher
<1>11. InOrder(k.stream_data, k.consumed_offset) /\ Ahead(k.stream_data, k.consumed_offset)
  BY Zenon, <1>2, <1>4
<1>12. ASSUME NEW i \in HeldOf(k) PROVE i \in Nat /\ i < k.fin_offset
  <2>1. i \in Nat
    BY <1>2, <1>5, HeldAreNat
  <2>2. CASE i \in HeldOf(h)
    BY <1>1, <1>7, <1>10, <2>1, <2>2
  <2>3. CASE i < y
    BY <1>1, <1>6, <1>10, <2>1, <2>3 DEF Filled
  <2>. QED
    BY <1>6, <2>1, <2>2, <2>3 DEF Filled
<1>13. k.consumed_offset <= k.fin_offset
  <2>1. k.consumed_offset \in Nat
    BY Zenon, <1>2, <1>4
  <2>2. k.consumed_offset > 0 => k.consumed_offset - 1 \in HeldOf(k)
    BY <2>1 DEF HeldOf, Held
  <2>. QED
    BY <1>1, <1>12, <2>1, <2>2
<1>14. k.fin_received => g.fin_sent /\ k.fin_offset = g.sent_offset
  <2>1. k.fin_received => h.fin_received \/ f.fin
    BY Zenon DEF Input
  <2>. QED
    BY <1>1, <1>7, <1>8, <1>10, <2>1
<1>15. k.reset_received => g.reset_sent /\ k.fin_offset = g.sent_offset
  <2>1. k.reset_received => h.reset_received
    BY Zenon DEF Input
  <2>. QED
    BY <1>1, <1>7, <1>10, <2>1
<1>16. k.fin_signalled => k.fin_received /\ k.consumed_offset = k.fin_offset
  <2>1. /\ k.fin_signalled =>
             h.fin_signalled \/ (k.fin_received /\ k.consumed_offset >= k.fin_offset)
        /\ h.fin_received => k.fin_received
    BY Zenon DEF Input
  <2>2. h.fin_signalled => k.consumed_offset >= k.fin_offset
    BY <1>1, <1>2, <1>4, <1>7, <1>10
  <2>3. k.fin_signalled => k.fin_received /\ k.consumed_offset >= k.fin_offset
    BY Zenon, <1>7, <2>1, <2>2
  <2>. QED
    BY <1>1, <1>2, <1>4, <1>13, <2>3
<1>17. k.deleted => Notified(k)
  BY Zenon, <1>16 DEF Notified
<1>18. Receiving(k, g, read \o out.bytes)
  BY Zenon, <1>9, <1>10, <1>11, <1>12, <1>14, <1>15, <1>16, <1>17 DEF Receiving
<1>. QED
  BY <1>6, <1>9, <1>18 DEF out

LEMMA StreamArrives ==
  ASSUME Base, IncomingStream
  PROVE  \E p \in net : ArriveStep(p)
<1>1. PICK p \in net : DecodeStreamFrame(p, QueueInput(rcv[p.frame.stream], p.frame),
                                         Output(rcv[p.frame.stream], p.frame))
  BY Zenon DEF IncomingStream, Output
<1> DEFINE f == p.frame
           s == f.stream
           h == rcv[s]
           g == snd[s]
           new == NetworkInput(h, f)
           gone == new.fin_signalled /\ new.other_done
           k == [new EXCEPT !.deleted = gone]
           read == delivered[s] \o Output(h, f).bytes
<1>2. /\ f \in Frame /\ s \in Streams /\ h \in RcvStream /\ g \in SndStream
      /\ Proper(f, g) /\ Sending(g) /\ Receiving(h, g, delivered[s])
  BY Zenon DEF Base, TypeOK, SenderInv, ReceiverInv, Packet, Frame
<1>3. CASE h.deleted
  BY <1>1, <1>3 DEF ArriveStep, Ignores, DecodeStreamFrame
<1>4. CASE ~h.deleted /\ (FinalOffsetError(h, f) \/ FlowControlError(h, f.offset + Len(f.bytes)))
  <2>1. Violation(h, f)
    BY <1>1, <1>4 DEF Violation, End, DecodeStreamFrame
  <2>. QED
    BY ZenonT(30), <1>1, <1>4, <2>1 DEF ArriveStep, Ignores, DecodeStreamFrame
<1>5. CASE ~h.deleted /\ ~(FinalOffsetError(h, f) \/ FlowControlError(h, f.offset + Len(f.bytes)))
  <2>1. new \in RcvStream /\ Input(h, f, new)
    <3>1. /\ Numbered(f.offset, f.bytes) /\ InOrder(h.stream_data, h.consumed_offset)
          /\ Ahead(h.stream_data, h.consumed_offset)
      BY Zenon, <1>2 DEF Proper, Receiving
    <3>. HIDE DEF h, f
    <3>. QED
      BY Zenon, <1>2, <3>1, InputIs
  <2>. HIDE DEF new
  <2>2. gone \in BOOLEAN /\ (gone => new.fin_signalled)
    BY <2>1 DEF RcvStream
  <2>. HIDE DEF gone
  <2>3. /\ k \in RcvStream /\ k.deleted = gone /\ k.fin_signalled = new.fin_signalled
        /\ k.stream_data = new.stream_data /\ k.consumed_offset = new.consumed_offset
        /\ k.fin_offset = new.fin_offset /\ k.fin_received = new.fin_received
        /\ k.reset_received = new.reset_received /\ k.maxdata_local = new.maxdata_local
        /\ k.other_done = new.other_done
    BY <2>1, <2>2 DEF RcvStream
  <2>4. /\ rcv' = [rcv EXCEPT ![s] = k]
        /\ delivered' = [delivered EXCEPT ![s] = read]
        /\ data_received' = data_received + (new.fin_offset - h.fin_offset)
        /\ received' = received \cup {p.pn} /\ connection_error' = connection_error
    BY Zenon, <1>1, <1>5 DEF new, gone, DecodeStreamFrame, NetworkInput
  <2>. HIDE DEF k
  <2>5. Input(h, f, k) /\ (k.deleted => k.fin_signalled)
    BY Zenon, <2>1, <2>2, <2>3 DEF Input
  <2>6. /\ Receiving(k, g, read) /\ read \in Seq(Nat)
        /\ \E x, y \in Nat : Filled(f, h, k, x, y)
    <3>. HIDE DEF h, g, f
    <3>. QED
      BY Zenon, <1>2, <1>5, <2>3, <2>5, StreamTaken
  <2>. HIDE DEF read
  <2>7. /\ delivered' \in [Streams -> Seq(Nat)] /\ delivered'[s] = read
        /\ \A x \in Streams : x # s => delivered'[x] = delivered[x]
    BY Zenon, <1>2, <2>4, <2>6 DEF Base, TypeOK
  <2>8. Accepts(p, k)
    <3>1. /\ k.fin_offset = Higher(h, f) /\ k.fin_received = (h.fin_received \/ f.fin)
          /\ k.maxdata_local = h.maxdata_local
      BY <2>5 DEF Input
    <3>2. ~FlowControlError(h, End(f))
      BY <1>5 DEF End
    <3>. QED
      BY Zenon, <1>5, <2>3, <2>4, <2>6, <2>7, <3>1, <3>2 DEF Accepts
  <2>. QED
    BY Zenon, <1>1, <2>3, <2>8 DEF ArriveStep, DecodeStreamFrame
<1>. QED
  BY <1>3, <1>4, <1>5

LEMMA ResetArrives ==
  ASSUME Base, IncomingReset
  PROVE  \E p \in net : ArriveStep(p)
<1>1. PICK p \in net :
        LET f == p.frame
            h == rcv[f.stream]
        IN  /\ f.type = "reset" /\ ~connection_error
            /\ net' = net \ {p}
            /\ IF h.deleted
               THEN UNCHANGED <<rcv, data_received, received, connection_error>>
               ELSE IF \/ (h.fin_received \/ h.reset_received) /\ f.offset # h.fin_offset
                       \/ FlowControlError(h, f.offset)
               THEN /\ connection_error' = TRUE
                    /\ UNCHANGED <<rcv, data_received, received>>
               ELSE /\ rcv' = [rcv EXCEPT ![f.stream] =
                           [h EXCEPT !.fin_offset = Highest(h, f.offset),
                                     !.reset_received = TRUE,
                                     !.deleted = @ \/ h.other_done]]
                    /\ data_received' = data_received
                                          + Highest(h, f.offset) - h.fin_offset
                    /\ received' = received \cup {p.pn}
                    /\ UNCHANGED connection_error
            /\ UNCHANGED <<senderVars, maxdata_local, delivered, creditVars>>
  BY Zenon DEF IncomingReset
<1> DEFINE f == p.frame
           s == f.stream
           h == rcv[s]
           g == snd[s]
           high == Highest(h, f.offset)
           gone == h.deleted \/ h.other_done
           k == [h EXCEPT !.fin_offset = high, !.reset_received = TRUE, !.deleted = gone]
<1>2. /\ f \in Frame /\ s \in Streams /\ h \in RcvStream /\ g \in SndStream
      /\ Proper(f, g) /\ Sending(g) /\ Receiving(h, g, delivered[s])
  BY Zenon DEF Base, TypeOK, SenderInv, ReceiverInv, Packet, Frame
<1>3. /\ f.offset \in Nat /\ End(f) = f.offset /\ g.reset_sent /\ f.offset = g.sent_offset
      /\ h.fin_offset \in Nat /\ g.sent_offset \in Nat /\ f.fin = FALSE
  <2>1. g.reset_sent /\ f.offset = g.sent_offset /\ f.bytes = <<>> /\ ~f.fin
    BY <1>1, <1>2 DEF Proper
  <2>2. f.offset \in Nat /\ h.fin_offset \in Nat /\ g.sent_offset \in Nat /\ f.fin \in BOOLEAN
    BY <1>2 DEF Frame, RcvStream, SndStream
  <2>3. End(f) = f.offset
    BY <2>1, <2>2 DEF End
  <2>. QED
    BY SMTT(20), <2>1, <2>2, <2>3
<1>4. CASE h.deleted
  BY <1>1, <1>4 DEF ArriveStep, Ignores
<1>5. CASE ~h.deleted /\ (\/ (h.fin_received \/ h.reset_received) /\ f.offset # h.fin_offset
                          \/ FlowControlError(h, f.offset))
  <2>1. Violation(h, f)
    BY <1>1, <1>3, <1>5 DEF Violation
  <2>. QED
    BY <1>1, <1>5, <2>1 DEF ArriveStep, Ignores
<1>6. CASE ~h.deleted /\ ~(\/ (h.fin_received \/ h.reset_received) /\ f.offset # h.fin_offset
                           \/ FlowControlError(h, f.offset))
  <2>1. high = Higher(h, f) /\ high \in Nat /\ high = g.sent_offset
    <3>1. high = IF h.fin_offset <= f.offset THEN f.offset ELSE h.fin_offset
      BY Zenon, <1>3, MaxOfTwo DEF Highest
    <3>2. h.fin_offset <= g.sent_offset
      BY Zenon, <1>2 DEF Receiving
    <3>. QED
      BY <1>3, <3>1, <3>2 DEF Higher
  <2>2. gone \in BOOLEAN
    BY Zenon, <1>2 DEF RcvStream
  <2>3. /\ rcv' = [rcv EXCEPT ![s] = k] /\ delivered' = delivered
        /\ data_received' = data_received + high - h.fin_offset
        /\ received' = received \cup {p.pn} /\ connection_error' = connection_error
    BY <1>1, <1>6
  <2>. HIDE DEF gone, high
  <2>4. /\ k \in RcvStream /\ k.fin_signalled = h.fin_signalled /\ k.reset_received = TRUE
        /\ k.stream_data = h.stream_data /\ k.consumed_offset = h.consumed_offset
        /\ k.fin_offset = high /\ k.fin_received = h.fin_received
        /\ k.maxdata_local = h.maxdata_local
    <3>. HIDE DEF h
    <3>. QED
      BY Zenon, <1>2, <2>1, <2>2 DEF RcvStream
  <2>. HIDE DEF k
  <2>5. HeldOf(k) = HeldOf(h)
    BY <2>4 DEF HeldOf
  <2>6. Receiving(k, g, delivered[s])
    <3>1. /\ InOrder(h.stream_data, h.consumed_offset) /\ Ahead(h.stream_data, h.consumed_offset)
          /\ \A i \in HeldOf(h) : i < h.fin_offset
          /\ delivered[s] = [i \in 1..h.consumed_offset |-> i - 1]
          /\ h.fin_received => g.fin_sent /\ h.fin_offset = g.sent_offset
          /\ h.fin_signalled => h.fin_received /\ h.consumed_offset = h.fin_offset
          /\ h.fin_offset <= g.sent_offset
      BY Zenon, <1>2 DEF Receiving
    <3>2. \A i \in HeldOf(k) : i < k.fin_offset
      <4>1. HeldOf(h) \subseteq Nat
        <5>1. h.consumed_offset \in Nat
          BY <1>2 DEF RcvStream
        <5>. QED
          BY Zenon, <3>1, <5>1, HeldAreNat DEF HeldOf
      <4>2. h.fin_offset \in Nat /\ h.fin_offset <= high
        BY Zenon, <1>2, <2>1, <3>1 DEF RcvStream
      <4>3. \A i \in HeldOf(h) : i < high
        BY <2>1, <3>1, <4>1, <4>2
      <4>. QED
        BY Zenon, <2>4, <2>5, <4>3
    <3>3. k.fin_offset <= g.sent_offset
      BY <1>3, <2>1, <2>4
    <3>. QED
      BY Zenon, <1>3, <2>1, <2>4, <3>1, <3>2, <3>3 DEF Receiving, Notified
  <2>7. \E x, y \in Nat : Filled(f, h, k, x, y)
    <3>1. Filled(f, h, k, f.offset, f.offset)
      BY <1>3, <2>5 DEF Filled
    <3>. QED
      BY <1>3, <3>1
  <2>8. Accepts(p, k)
    <3>1. data_received' = data_received + (k.fin_offset - h.fin_offset)
      BY ZenonT(30), <1>3, <2>1, <2>3, <2>4 DEF Base, TypeOK
    <3>2. k.fin_received = (h.fin_received \/ f.fin)
      <4>1. h.fin_received \in BOOLEAN
        BY <1>2 DEF RcvStream
      <4>. QED
        BY SMTT(20), <1>3, <2>4, <4>1
    <3>3. ~FlowControlError(h, End(f))
      BY <1>3, <1>6
    <3>4. delivered' \in [Streams -> Seq(Nat)]
      BY <2>3 DEF Base, TypeOK
    <3>. QED
      BY Zenon, <1>6, <2>1, <2>3, <2>4, <2>6, <2>7, <3>1, <3>2, <3>3, <3>4 DEF Accepts
  <2>. QED
    BY Zenon, <1>1, <2>4, <2>8 DEF ArriveStep
<1>. QED
  BY <1>4, <1>5, <1>6

-----------------------------------------------------------------------------
(* The theorems.                                                           *)

LEMMA BaseNext == Base /\ [Next]_vars => Base'
<1>. SUFFICES ASSUME Base, [Next]_vars PROVE Base'
  OBVIOUS
<1>1. CASE StillAction
  BY <1>1, StillSteps, StillBase
<1>2. CASE \E s \in Streams : PrepareReset(s) \/ PrepareStreamFrame(s)
  BY <1>2, BaseFresh
<1>3. CASE DeclareLost
  BY <1>3, BaseLost
<1>4. CASE SendMiscFrame
  BY <1>4, BaseMisc
<1>5. CASE ProcessAck
  BY <1>5, BaseAck
<1>6. CASE IncomingStream
  BY <1>6, StreamArrives, BaseArrives
<1>7. CASE IncomingReset
  BY <1>7, ResetArrives, BaseArrives
<1>. QED
  BY <1>1, <1>2, <1>3, <1>4, <1>5, <1>6, <1>7, Kinds

(* Base is an invariant: the types of the state, what both ends know of a  *)
(* stream, and that every frame is one that was cut from it.               *)
THEOREM BaseHolds == Spec => []Base
BY BaseInit, BaseNext, PTL DEF Spec

(* The streams at both ends, the queues and the counters of the connection *)
(* keep their types, whatever is sent, lost and repeated.                  *)
THEOREM TypesKept == Spec => []TypeOK
<1>1. Base => TypeOK
  BY DEF Base
<1>. QED
  BY <1>1, BaseHolds, PTL

LEMMA NumberedIs ==
  ASSUME NEW o \in Nat, NEW b \in Seq(Nat), Numbered(o, b)
  PROVE  b = [k \in 1..Len(b) |-> o + k - 1]
<1> DEFINE c == [k \in 1..Len(b) |-> o + k - 1]
<1>1. c \in Seq(Nat) /\ Len(c) = Len(b) /\ \A k \in 1..Len(b) : b[k] = c[k]
  BY DEF Numbered
<1>. HIDE DEF c
<1>2. b = c
  BY <1>1
<1>. QED
  BY <1>2 DEF c

(* The application reads the bytes of every stream in order, each of them  *)
(* once, whatever is lost, repeated, cut and reordered                     *)
(* (picoquic_queue_network_input, picoquic_stream_data_callback).          *)
THEOREM ReadInOrder == Spec => []InOrderDelivery
<1>1. Base => InOrderDelivery
  <2>. SUFFICES ASSUME Base, NEW s \in Streams
                PROVE  LET blocks == rcv[s].stream_data
                       IN  /\ delivered[s] = [i \in 1..rcv[s].consumed_offset |-> i - 1]
                           /\ \A i \in DOMAIN blocks :
                                /\ blocks[i].bytes = [k \in 1..Len(blocks[i].bytes) |->
                                                        blocks[i].offset + k - 1]
                                /\ blocks[i].offset > (IF i = 1 THEN rcv[s].consumed_offset
                                                       ELSE End(blocks[i - 1]) - 1)
    BY Zenon DEF InOrderDelivery
  <2> DEFINE blocks == rcv[s].stream_data
             c == rcv[s].consumed_offset
  <2>1. /\ delivered[s] = [i \in 1..c |-> i - 1]
        /\ InOrder(blocks, c) /\ Ahead(blocks, c) /\ c \in Nat
    BY DEF Base, ReceiverInv, Receiving, TypeOK, RcvStream
  <2>. HIDE DEF blocks, c
  <2>2. blocks \in Seq(Block) /\ DOMAIN blocks = 1..Len(blocks) /\ Len(blocks) \in Nat
    BY <2>1 DEF InOrder
  <2>3. ASSUME NEW i \in DOMAIN blocks
        PROVE  /\ blocks[i].bytes = [k \in 1..Len(blocks[i].bytes) |->
                                       blocks[i].offset + k - 1]
               /\ blocks[i].offset > (IF i = 1 THEN c ELSE End(blocks[i - 1]) - 1)
    <3>1. /\ blocks[i].offset \in Nat /\ blocks[i].bytes \in Seq(Nat)
      BY <2>1, <2>2, BlockFacts
    <3>2. Numbered(blocks[i].offset, blocks[i].bytes)
      BY <2>1, <2>2 DEF InOrder
    <3>3. blocks[i].bytes = [k \in 1..Len(blocks[i].bytes) |-> blocks[i].offset + k - 1]
      BY Zenon, <3>1, <3>2, NumberedIs
    <3>4. CASE i = 1
      BY <2>1, <2>2, <3>1, <3>3, <3>4 DEF Ahead
    <3>5. CASE i # 1
      <4>1. i - 1 \in 1..Len(blocks) /\ i \in 1..Len(blocks) /\ i - 1 < i
        BY <2>2, <3>5
      <4>2. End(blocks[i - 1]) <= blocks[i].offset
        BY <2>1, <4>1 DEF InOrder
      <4>3. End(blocks[i - 1]) \in Nat
        BY <2>1, <4>1, BlockFacts
      <4>. QED
        BY <3>1, <3>3, <3>5, <4>2, <4>3
    <3>. QED
      BY <3>4, <3>5
  <2>. QED
    BY Zenon, <2>1, <2>3 DEF blocks, c
<1>. QED
  BY <1>1, BaseHolds, PTL

LEMMA FinNext == Base /\ FinInv /\ [Next]_vars => FinInv'
<1>. SUFFICES ASSUME Base, FinInv, [Next]_vars PROVE FinInv'
  OBVIOUS
<1>1. CASE StillAction
  BY <1>1, StillSteps, FinStill
<1>2. CASE \E s \in Streams : PrepareReset(s) \/ PrepareStreamFrame(s)
  BY <1>2, FinFresh
<1>3. CASE DeclareLost
  BY <1>3, FinLost
<1>4. CASE SendMiscFrame
  BY <1>4, FinMisc
<1>5. CASE ProcessAck
  BY <1>5, FinAck
<1>6. CASE IncomingStream
  BY <1>6, StreamArrives, FinArrives
<1>7. CASE IncomingReset
  BY <1>7, ResetArrives, FinArrives
<1>. QED
  BY <1>1, <1>2, <1>3, <1>4, <1>5, <1>6, <1>7, Kinds

(* The end of a stream with at least one byte is never forgotten, and it   *)
(* arrives where the sender ended the stream (picoquic_stream_network_input,*)
(* picoquic_check_frame_needs_repeat).                                     *)
THEOREM FinNeverLost == Spec => []FinIsKept
<1>1. Init => FinInv
  BY DEF Init, FinInv, NeedsFin, NewSndStream
<1>2. Base /\ FinInv => FinIsKept
  <2>. SUFFICES ASSUME Base, FinInv PROVE FinIsKept
    OBVIOUS
  <2>1. ASSUME NEW s \in Streams, NeedsFin(snd[s])
        PROVE  \/ rcv[s].fin_received
               \/ \E f \in {p.frame : p \in retransmit} \cup Range(first_misc_frame) :
                    f.stream = s /\ f.fin
    <3>1. \A k \in Misc : first_misc_frame[k] \in Range(first_misc_frame)
      <4>1. first_misc_frame \in Seq(Frame)
        BY DEF Base, TypeOK
      <4>2. DOMAIN first_misc_frame = Misc
        BY <4>1 DEF Misc
      <4>. QED
        BY Zenon, <4>2 DEF Range
    <3>2. rcv[s].fin_received \/ FinWaits(s)
      BY <2>1 DEF FinInv
    <3>3. ASSUME NEW p \in retransmit PROVE p.frame \in {q.frame : q \in retransmit}
      OBVIOUS
    <3>. QED
      BY Zenon, <3>1, <3>2, <3>3 DEF FinWaits
  <2>2. FinNotForgotten
    BY Zenon, <2>1 DEF FinNotForgotten, NeedsFin
  <2>3. FinIsTheEnd
    BY Zenon DEF FinIsTheEnd, Base, ReceiverInv, Receiving
  <2>. QED
    BY <2>2, <2>3 DEF FinIsKept
<1>3. Spec => []FinInv
  BY <1>1, BaseHolds, FinNext, PTL DEF Spec
<1>. QED
  BY <1>2, <1>3, BaseHolds, PTL

-----------------------------------------------------------------------------
(* Flow control.                                                           *)

LEMMA BelowIsFinite ==
  ASSUME NEW a
  PROVE  IsFiniteSet(BytesBelow(a)) /\ Cardinality(BytesBelow(a)) \in Nat
<1>1. IsFiniteSet(Offsets)
  BY FS_Interval, SizesAssumption DEF Offsets
<1>2. IsFiniteSet(Streams \X Offsets)
  BY <1>1, FS_Product, StreamsAssumption
<1>3. BytesBelow(a) \in SUBSET (Streams \X Offsets)
  BY DEF BytesBelow
<1>. QED
  BY <1>2, <1>3, FS_Subset, FS_CardinalityType

(* The bytes below the offsets are as many more as one offset grows.       *)
LEMMA CountUp ==
  ASSUME NEW a \in [Streams -> Nat], NEW s \in Streams, NEW n \in Nat,
         a[s] <= n, n <= MaxBytes
  PROVE  Cardinality(BytesBelow([a EXCEPT ![s] = n]))
           = Cardinality(BytesBelow(a)) + (n - a[s])
<1> DEFINE o == a[s]
           D == {s} \X (o..(n - 1))
           A == BytesBelow(a)
           B == BytesBelow([a EXCEPT ![s] = n])
<1>1. o \in Nat
  OBVIOUS
<1>10. o <= n
  OBVIOUS
<1>2. IsFiniteSet(A) /\ Cardinality(A) \in Nat
  BY BelowIsFinite
<1>3. IsFiniteSet(D) /\ Cardinality(D) = n - o
  <2>1. IsFiniteSet(o..(n - 1)) /\ Cardinality(o..(n - 1)) = n - o
    <3>1. o \in Int /\ n - 1 \in Int
      BY <1>1
    <3>2. /\ IsFiniteSet(o..(n - 1))
          /\ Cardinality(o..(n - 1)) = IF o > n - 1 THEN 0 ELSE (n - 1) - o + 1
      BY Zenon, <3>1, FS_Interval
    <3>. HIDE DEF o
    <3>. QED
      BY <1>1, <1>10, <3>2
  <2>2. IsFiniteSet({s}) /\ Cardinality({s}) = 1
    BY Zenon, FS_Singleton
  <2>3. IsFiniteSet(D) /\ Cardinality(D) = Cardinality({s}) * Cardinality(o..(n - 1))
    BY Zenon, <2>1, <2>2, FS_Product
  <2>. QED
    BY <1>1, <2>1, <2>2, <2>3
<1>4. B = A \cup D
  <2>1. ASSUME NEW b \in Streams \X Offsets
        PROVE  b \in B <=> b \in A \/ b \in D
    <3>1. b[1] \in Streams /\ b[2] \in Nat /\ b = <<b[1], b[2]>>
      BY SizesAssumption DEF Offsets
    <3>2. b \in B <=> b[2] < [a EXCEPT ![s] = n][b[1]]
      BY DEF BytesBelow
    <3>3. b \in A <=> b[2] < a[b[1]]
      BY DEF BytesBelow
    <3>4. b \in D <=> b[1] = s /\ o <= b[2] /\ b[2] < n
      BY <1>1, <3>1
    <3>5. CASE b[1] = s
      BY <1>1, <3>1, <3>2, <3>3, <3>4, <3>5
    <3>6. CASE b[1] # s
      BY SMTT(20), <3>1, <3>2, <3>3, <3>4, <3>6
    <3>. QED
      BY <3>5, <3>6
  <2>2. D \subseteq Streams \X Offsets
    <3>1. o..(n - 1) \subseteq Offsets
      BY <1>1, SizesAssumption DEF Offsets
    <3>. QED
      BY <3>1
  <2>3. A \subseteq Streams \X Offsets /\ B \subseteq Streams \X Offsets
    BY DEF BytesBelow
  <2>. QED
    BY Zenon, <2>1, <2>2, <2>3
<1>5. A \cap D = {}
  <2>1. ASSUME NEW b \in A \cap D PROVE FALSE
    <3>1. b[1] = s /\ o <= b[2] /\ b[2] \in Nat
      BY <1>1
    <3>2. b[2] < a[b[1]]
      BY DEF BytesBelow
    <3>. QED
      BY <1>1, <3>1, <3>2
  <2>. QED
    BY <2>1
<1>. HIDE DEF A, B, D
<1>6. Cardinality(A \cap D) = 0
  BY <1>5, FS_EmptySet
<1>7. Cardinality(A \cup D) = Cardinality(A) + Cardinality(D) - Cardinality(A \cap D)
  BY <1>2, <1>3, FS_Union
<1>8. Cardinality(B) = Cardinality(A) + (n - o)
  BY <1>1, <1>2, <1>3, <1>4, <1>6, <1>7
<1>. QED
  BY <1>8 DEF A, B

LEMMA CountLess ==
  ASSUME NEW a \in [Streams -> Nat], NEW b \in [Streams -> Nat],
         \A s \in Streams : a[s] <= b[s]
  PROVE  Cardinality(BytesBelow(a)) <= Cardinality(BytesBelow(b))
<1>1. BytesBelow(a) \in SUBSET BytesBelow(b)
  <2>1. ASSUME NEW c \in Streams \X Offsets, c[2] < a[c[1]]
        PROVE  c[2] < b[c[1]]
    <3>1. c[1] \in Streams /\ c[2] \in Nat
      BY SizesAssumption DEF Offsets
    <3>2. a[c[1]] <= b[c[1]] /\ a[c[1]] \in Nat /\ b[c[1]] \in Nat
      BY <3>1
    <3>. QED
      BY <2>1, <3>1, <3>2
  <2>. QED
    BY <2>1 DEF BytesBelow
<1>2. IsFiniteSet(BytesBelow(b))
  BY BelowIsFinite
<1>. QED
  BY <1>1, <1>2, FS_Subset

(* A fresh frame is within the credit of its stream and of the connection. *)
LEMMA CreditFresh ==
  ASSUME Base, CreditInv, NEW s \in Streams, PrepareStreamFrame(s)
  PROVE  CreditInv'
<1>1. TypeOK /\ SenderInv /\ Granted /\ Counted
  BY DEF Base, CreditInv
<1>2. AllGrow /\ \A x \in Streams : x # s => snd'[x] = snd[x]
  BY Zenon, <1>1, FrameLeaves
<1>3. PICK length \in Nat, f \in Frame : NextFrame(s, length, f)
  BY Zenon, <1>1, FrameLeaves
<1>4. /\ length \in Nat /\ length <= Allowed(s)
      /\ snd'[s].sent_offset = snd[s].sent_offset + length
      /\ snd'[s].maxdata_remote = snd[s].maxdata_remote
      /\ data_sent' = data_sent + length
      /\ snd[s].sent_offset + length <= snd[s].written
  BY Zenon, <1>3 DEF NextFrame
<1>5. UNCHANGED <<maxdata_remote, receiverVars, creditVars>>
  BY DEF PrepareStreamFrame
<1>6. /\ \A x \in Streams : snd[x].sent_offset \in Nat /\ snd[x].maxdata_remote \in Nat
      /\ snd[s].written \in Nat /\ snd[s].written <= MaxBytes
      /\ data_sent \in Nat /\ maxdata_remote \in Nat
  BY Zenon, <1>1 DEF TypeOK, SndStream, SenderInv, Sending
<1>7. /\ length <= snd[s].maxdata_remote - snd[s].sent_offset
      /\ length <= maxdata_remote - data_sent
  <2> DEFINE a == snd[s].maxdata_remote - snd[s].sent_offset
             b == maxdata_remote - data_sent
  <2>1. a \in Int /\ b \in Int
    BY <1>6
  <2>2. Allowed(s) = Min({a, b})
    BY DEF Allowed
  <2>. HIDE DEF a, b
  <2>3. Allowed(s) = IF a <= b THEN a ELSE b
    BY Zenon, <2>1, <2>2, MinOfTwo
  <2>4. length <= a /\ length <= b
    BY <1>4, <2>1, <2>3
  <2>. QED
    BY Zenon, <2>4 DEF a, b
<1>8. LimitsSame
  BY <1>2, <1>4, <1>5 DEF LimitsSame, receiverVars, creditVars
<1>9. Granted'
  BY Zenon, <1>1, <1>8, SameIsGranted
<1>10. \A x \in Streams : snd'[x].sent_offset <= snd'[x].maxdata_remote
  BY SMTT(20), <1>1, <1>2, <1>4, <1>6, <1>7 DEF Counted
<1>11. data_sent' <= maxdata_remote'
  BY <1>4, <1>5, <1>6, <1>7
<1> DEFINE n == snd[s].sent_offset + length
<1>12. SentTo' = [SentTo EXCEPT ![s] = n]
  BY Zenon, <1>2, <1>4 DEF SentTo
<1>13. /\ SentTo \in [Streams -> Nat] /\ n \in Nat /\ SentTo[s] <= n /\ n <= MaxBytes
       /\ n - SentTo[s] = length
  BY <1>1, <1>4, <1>6, CountTypes, SizesAssumption DEF SentTo
<1>. HIDE DEF n
<1>14. Cardinality(BytesBelow([SentTo EXCEPT ![s] = n]))
         = Cardinality(BytesBelow(SentTo)) + (n - SentTo[s])
  BY ZenonT(30), <1>13, CountUp
<1>15. BytesBelow(SentTo)' = BytesBelow([SentTo EXCEPT ![s] = n])
  BY <1>12 DEF BytesBelow
<1>16. data_sent' = Cardinality(BytesBelow(SentTo)')
  BY <1>1, <1>4, <1>13, <1>14, <1>15 DEF Counted
<1>17. /\ connection_error' = connection_error /\ data_received' = data_received
       /\ BytesBelow(SeenTo)' = BytesBelow(SeenTo)
  BY SMTT(20), <1>5 DEF receiverVars, SeenTo, BytesBelow
<1>18. Counted'
  BY <1>1, <1>10, <1>11, <1>16, <1>17 DEF Counted
<1>. QED
  BY <1>9, <1>18 DEF CreditInv

(* A proper frame of this sender fits the limits of the receiver.          *)
LEMMA WithinCredit ==
  ASSUME Base, CreditInv, NEW f \in Frame, Proper(f, snd[f.stream])
  PROVE  /\ ~Violation(rcv[f.stream], f)
         /\ rcv[f.stream].fin_offset <= snd[f.stream].sent_offset
         /\ End(f) <= snd[f.stream].sent_offset /\ snd[f.stream].sent_offset <= MaxBytes
<1> DEFINE s == f.stream
           h == rcv[s]
           g == snd[s]
           e == End(f)
<1>1. TypeOK /\ SenderInv /\ ReceiverInv /\ Granted /\ Counted
  BY DEF Base, CreditInv
<1>2. s \in Streams /\ h \in RcvStream /\ g \in SndStream
  BY <1>1 DEF TypeOK, Frame
<1>3. /\ h.fin_offset \in Nat /\ h.maxdata_local \in Nat /\ g.sent_offset \in Nat
      /\ g.maxdata_remote \in Nat /\ e \in Nat /\ g.written \in Nat
  <2>1. e \in Nat
    BY DEF End, Frame
  <2>2. h.fin_offset \in Nat /\ h.maxdata_local \in Nat
    <3>. HIDE DEF h
    <3>. QED
      BY <1>2 DEF RcvStream
  <2>3. g.sent_offset \in Nat /\ g.maxdata_remote \in Nat /\ g.written \in Nat
    <3>. HIDE DEF g
    <3>. QED
      BY <1>2 DEF SndStream
  <2>. QED
    BY <2>1, <2>2, <2>3
<1>4. /\ data_sent \in Nat /\ data_received \in Nat /\ maxdata_remote \in Nat
      /\ maxdata_local \in Nat /\ MaxBytes \in Nat
  BY <1>1, SizesAssumption DEF TypeOK
<1>5. /\ h.fin_offset <= g.sent_offset
      /\ h.fin_received => h.fin_offset = g.sent_offset
      /\ h.reset_received => h.fin_offset = g.sent_offset
  BY Zenon, <1>1, <1>2 DEF ReceiverInv, Receiving
<1>6. /\ e <= g.sent_offset /\ (f.fin => e = g.sent_offset)
      /\ f.type = "reset" => f.offset = g.sent_offset
  BY Zenon DEF Proper
<1>7. g.sent_offset <= MaxBytes
  <2>1. g.sent_offset <= g.written /\ g.written <= MaxBytes
    BY Zenon, <1>1, <1>2 DEF SenderInv, Sending
  <2>. QED
    BY <1>3, <1>4, <2>1
<1>8. g.sent_offset <= g.maxdata_remote /\ g.maxdata_remote <= h.maxdata_local
  BY Zenon, <1>1, <1>2 DEF Granted, Counted
<1>9. ~(e > h.maxdata_local)
  BY SMTT(20), <1>3, <1>6, <1>8
<1>10. ASSUME e > h.fin_offset
       PROVE  data_received + (e - h.fin_offset) <= maxdata_local
  <2> DEFINE a == [SeenTo EXCEPT ![s] = e]
  <2>1. /\ SeenTo \in [Streams -> Nat] /\ SentTo \in [Streams -> Nat]
        /\ SeenTo[s] = h.fin_offset /\ SentTo[s] = g.sent_offset
    BY SMTT(20), <1>1, <1>2, CountTypes DEF SeenTo, SentTo
  <2>2. SeenTo[s] <= e /\ e <= MaxBytes
    BY <1>3, <1>4, <1>6, <1>7, <1>10, <2>1
  <2>3. Cardinality(BytesBelow(a)) = Cardinality(BytesBelow(SeenTo)) + (e - SeenTo[s])
    BY ZenonT(30), <1>2, <1>3, <2>1, <2>2, CountUp
  <2>4. a \in [Streams -> Nat] /\ \A x \in Streams : a[x] <= SentTo[x]
    <3>1. \A x \in Streams : rcv[x].fin_offset <= snd[x].sent_offset
      BY ZenonT(30), <1>1 DEF ReceiverInv, Receiving
    <3>2. \A x \in Streams : SeenTo[x] <= SentTo[x]
      BY <3>1 DEF SeenTo, SentTo
    <3>. HIDE DEF s, e, h, g
    <3>. QED
      BY SMTT(20), <1>2, <1>3, <1>6, <2>1, <3>2
  <2>. HIDE DEF a
  <2>5. Cardinality(BytesBelow(a)) <= Cardinality(BytesBelow(SentTo))
    BY Zenon, <2>1, <2>4, CountLess
  <2>6. /\ data_received + (e - h.fin_offset) <= data_sent
        /\ data_sent <= maxdata_remote /\ maxdata_remote <= maxdata_local
    BY Zenon, <1>1, <2>1, <2>3, <2>5 DEF Counted, Granted
  <2>. HIDE DEF e, h, s
  <2>. QED
    BY SMTT(20), <1>3, <1>4, <2>6
<1>11. ~FlowControlError(h, e)
  <2>. HIDE DEF e, h
  <2>. QED
    BY SMTT(20), <1>3, <1>4, <1>9, <1>10 DEF FlowControlError
<1>12. f.offset + Len(f.bytes) = e
  BY DEF End
<1>13. ~FinalOffsetError(h, f)
  <2>. HIDE DEF e, h, g
  <2>. QED
    BY SMTT(20), <1>3, <1>5, <1>6, <1>12 DEF FinalOffsetError
<1>14. ~Violation(h, f)
  <2>. HIDE DEF g, h
  <2>. QED
    BY <1>5, <1>6, <1>11, <1>13 DEF Violation
<1>. QED
  BY Zenon, <1>5, <1>6, <1>7, <1>14

LEMMA CreditArrival ==
  ASSUME Base, CreditInv, NEW p \in net, ArriveStep(p)
  PROVE  CreditInv'
<1> DEFINE f == p.frame
           s == f.stream
<1>1. TypeOK /\ SenderInv /\ Granted /\ Counted
  BY DEF Base, CreditInv
<1>2. /\ UNCHANGED <<senderVars, maxdata_local, creditVars>>
      /\ f \in Frame /\ s \in Streams /\ Proper(f, snd[s])
  BY Zenon, <1>1 DEF ArriveStep, TypeOK, Packet, Frame, SenderInv
<1>3. /\ ~Violation(rcv[s], f) /\ rcv[s].fin_offset <= snd[s].sent_offset
      /\ End(f) <= snd[s].sent_offset /\ snd[s].sent_offset <= MaxBytes
  BY Zenon, <1>2, WithinCredit
<1>4. UNCHANGED <<snd, data_sent, maxdata_remote, credits, credit_net, maxdata_local>>
  BY <1>2 DEF senderVars, creditVars
<1>5. CASE Ignores(p)
  <2>1. UNCHANGED <<rcv, data_received, connection_error>>
    BY Zenon, <1>3, <1>5 DEF Ignores
  <2>2. LimitsSame
    BY <1>4, <2>1 DEF LimitsSame
  <2>3. Granted' /\ LimitsGrow
    BY Zenon, <1>1, <2>2, SameIsGranted
  <2>4. /\ UNCHANGED <<data_sent, data_received, connection_error>>
        /\ \A x \in Streams : snd'[x].sent_offset = snd[x].sent_offset
        /\ \A x \in Streams : rcv'[x].fin_offset = rcv[x].fin_offset
    BY <1>4, <2>1
  <2>5. Counted'
    BY Zenon, <1>1, <2>3, <2>4, CountsAreKept
  <2>. QED
    BY <2>3, <2>5 DEF CreditInv
<1>6. ASSUME NEW k \in RcvStream, Accepts(p, k) PROVE CreditInv'
  <2> DEFINE h == rcv[s]
             n == k.fin_offset
  <2>1. /\ rcv' = [rcv EXCEPT ![s] = k] /\ k.maxdata_local = h.maxdata_local
        /\ n = Higher(h, f) /\ connection_error' = connection_error
        /\ data_received' = data_received + (n - h.fin_offset)
    BY Zenon, <1>6 DEF Accepts
  <2>2. h \in RcvStream
    BY <1>1, <1>2 DEF TypeOK
  <2>3. /\ n \in Nat /\ h.fin_offset \in Nat /\ End(f) \in Nat /\ h.fin_offset <= n
        /\ n = h.fin_offset \/ n = End(f)
    BY Zenon, <1>2, <2>1, <2>2, HigherIs
  <2>4. LimitsSame
    <3>1. \A x \in Streams : rcv'[x].maxdata_local = rcv[x].maxdata_local
      BY <1>1, <1>2, <2>1 DEF TypeOK
    <3>. QED
      BY <1>4, <3>1 DEF LimitsSame
  <2>5. Granted' /\ LimitsGrow
    BY Zenon, <1>1, <2>4, SameIsGranted
  <2>6. SeenTo' = [SeenTo EXCEPT ![s] = n]
    BY Zenon, <1>1, <1>2, <2>1 DEF SeenTo, TypeOK
  <2>7. /\ SeenTo \in [Streams -> Nat] /\ SeenTo[s] = h.fin_offset
        /\ SeenTo[s] <= n /\ n <= MaxBytes
    <3>1. n <= MaxBytes
      <4>1. snd[s].sent_offset \in Nat
        BY <1>1, <1>2 DEF TypeOK, SndStream
      <4>. QED
        BY SMTT(20), <1>3, <2>3, <4>1, SizesAssumption
    <3>. QED
      BY Zenon, <1>1, <1>2, <2>3, <3>1, CountTypes DEF SeenTo
  <2>8. Cardinality(BytesBelow([SeenTo EXCEPT ![s] = n]))
          = Cardinality(BytesBelow(SeenTo)) + (n - SeenTo[s])
    BY Zenon, <1>2, <2>3, <2>7, CountUp
  <2>9. BytesBelow(SeenTo)' = BytesBelow([SeenTo EXCEPT ![s] = n])
    BY <2>6 DEF BytesBelow
  <2>10. data_received' = Cardinality(BytesBelow(SeenTo)')
    BY Zenon, <1>1, <2>1, <2>7, <2>8, <2>9 DEF Counted
  <2>11. BytesBelow(SentTo)' = BytesBelow(SentTo)
    BY <1>4 DEF SentTo, BytesBelow
  <2>12. Counted'
    BY <1>1, <1>4, <2>1, <2>10, <2>11 DEF Counted
  <2>. QED
    BY <2>5, <2>12 DEF CreditInv
<1>. QED
  BY <1>5, <1>6 DEF ArriveStep

LEMMA NobodyBelowZero == Cardinality(BytesBelow([s \in Streams |-> 0])) = 0
<1>1. BytesBelow([s \in Streams |-> 0]) = {}
  <2>1. \A b \in Streams \X Offsets : b[1] \in Streams /\ b[2] \in Nat
    BY SizesAssumption DEF Offsets
  <2>. QED
    BY <2>1 DEF BytesBelow
<1>. QED
  BY <1>1, FS_EmptySet

LEMMA CreditInit == Init => CreditInv
<1>. SUFFICES ASSUME Init PROVE CreditInv
  OBVIOUS
<1>1. \A s \in Streams : snd[s] = NewSndStream /\ rcv[s] = NewRcvStream
  BY DEF Init
<1>2. \A s \in Streams : /\ snd[s].sent_offset = 0 /\ snd[s].maxdata_remote = StreamWindow
                         /\ rcv[s].fin_offset = 0 /\ rcv[s].maxdata_local = StreamWindow
  BY <1>1 DEF NewSndStream, NewRcvStream
<1>3. SentTo = [s \in Streams |-> 0] /\ SeenTo = [s \in Streams |-> 0]
  BY <1>2 DEF SentTo, SeenTo
<1>4. Granted
  BY <1>2, SizesAssumption DEF Init, Granted
<1>5. Counted
  BY <1>2, <1>3, NobodyBelowZero, SizesAssumption DEF Init, Counted
<1>. QED
  BY <1>4, <1>5 DEF CreditInv

LEMMA CreditNext == Base /\ CreditInv /\ [Next]_vars => CreditInv'
<1>. SUFFICES ASSUME Base, CreditInv, [Next]_vars PROVE CreditInv'
  OBVIOUS
<1>. TypeOK /\ SenderInv
  BY DEF Base
<1>1. CASE StillAction
  BY Zenon, <1>1, CreditStill
<1>2. ASSUME NEW s \in Streams, PrepareReset(s) PROVE CreditInv'
  <2>1. \A x \in Streams : /\ snd'[x].sent_offset = snd[x].sent_offset
                           /\ snd'[x].maxdata_remote = snd[x].maxdata_remote
    BY Zenon, <1>2, ResetLeaves
  <2>2. UNCHANGED <<data_sent, maxdata_remote, receiverVars, creditVars>>
    BY <1>2 DEF PrepareReset
  <2>. QED
    BY Zenon, <2>1, <2>2, CreditKept
<1>3. ASSUME NEW s \in Streams, PrepareStreamFrame(s) PROVE CreditInv'
  BY Zenon, <1>3, CreditFresh
<1>4. CASE DeclareLost
  <2>1. SndFixed
    BY Zenon, <1>4, LostCases
  <2>2. /\ UNCHANGED <<data_sent, maxdata_remote, receiverVars, creditVars>>
        /\ \A x \in Streams : /\ snd'[x].sent_offset = snd[x].sent_offset
                              /\ snd'[x].maxdata_remote = snd[x].maxdata_remote
    BY <2>1 DEF SndFixed
  <2>. QED
    BY Zenon, <2>2, CreditKept
<1>5. CASE SendMiscFrame
  <2>1. /\ UNCHANGED <<data_sent, maxdata_remote, receiverVars, creditVars>>
        /\ \A x \in Streams : /\ snd'[x].sent_offset = snd[x].sent_offset
                              /\ snd'[x].maxdata_remote = snd[x].maxdata_remote
    BY <1>5 DEF SendMiscFrame
  <2>. QED
    BY Zenon, <2>1, CreditKept
<1>6. CASE ProcessAck
  <2>1. PICK p \in retransmit : AckStep(p)
    BY Zenon, <1>6, AckIsStep
  <2>2. UNCHANGED <<data_sent, maxdata_remote, receiverVars, creditVars>>
    BY <2>1 DEF AckStep
  <2>3. \A x \in Streams : /\ snd'[x].sent_offset = snd[x].sent_offset
                           /\ snd'[x].maxdata_remote = snd[x].maxdata_remote
    BY Zenon, <2>1 DEF AckStep
  <2>. QED
    BY Zenon, <2>2, <2>3, CreditKept
<1>7. CASE IncomingStream \/ IncomingReset
  BY Zenon, <1>7, StreamArrives, ResetArrives, CreditArrival
<1>. QED
  BY Zenon, <1>1, <1>2, <1>3, <1>4, <1>5, <1>6, <1>7, Kinds

LEMMA CreditHolds == Spec => [](Base /\ CreditInv)
<1>1. Base /\ CreditInv /\ [Next]_vars => CreditInv'
  BY CreditNext
<1>. QED
  BY <1>1, CreditInit, BaseHolds, PTL DEF Spec

(* What the sender may send was granted, what it sends is within that, and *)
(* both ends count the bytes of the connection alike, whichever credits    *)
(* are lost, late or repeated (frames.c:1500-1515).                        *)
THEOREM CreditKeptToTheByte == Spec => []CreditIsHonoured
<1>1. Base /\ CreditInv => CreditIsHonoured
  <2>. SUFFICES ASSUME Base, CreditInv PROVE CreditIsHonoured
    OBVIOUS
  <2>1. \A s \in Streams : rcv[s].fin_offset <= snd[s].sent_offset
    BY Zenon DEF Base, ReceiverInv, Receiving
  <2>. QED
    BY Zenon, <2>1 DEF CreditInv, Granted, Counted, SentTo, SeenTo, CreditIsHonoured
<1>. QED
  BY <1>1, CreditHolds, PTL

(* Neither end is ever accused of exceeding a limit or of moving the end   *)
(* of a stream (frames.c:286-310, 982-999).                                *)
THEOREM NobodyIsAccused == Spec => []NoFalseAccusation
<1>1. Base /\ CreditInv => NoFalseAccusation
  BY DEF CreditInv, Counted, NoFalseAccusation
<1>. QED
  BY <1>1, CreditHolds, PTL

-----------------------------------------------------------------------------
(* The bytes.                                                              *)

LEMMA BytesNext ==
  ASSUME MinFirst >= 2
  PROVE  Base /\ BytesInv /\ [Next]_vars => BytesInv'
<1>. SUFFICES ASSUME Base, BytesInv, [Next]_vars PROVE BytesInv'
  BY SMTT(20)
<1>1. CASE StillAction
  BY Zenon, <1>1, StillSteps, BytesStill
<1>2. CASE \E s \in Streams : PrepareReset(s) \/ PrepareStreamFrame(s)
  BY Zenon, <1>2, BytesFresh
<1>3. CASE DeclareLost
  BY Zenon, <1>3, BytesLost
<1>4. CASE SendMiscFrame
  BY Zenon, <1>4, BytesMisc
<1>5. CASE ProcessAck
  BY Zenon, <1>5, BytesAck
<1>6. CASE IncomingStream
  BY ZenonT(30), <1>6, StreamArrives, BytesArrives
<1>7. CASE IncomingReset
  BY Zenon, <1>7, ResetArrives, BytesArrives
<1>. QED
  BY Zenon, <1>1, <1>2, <1>3, <1>4, <1>5, <1>6, <1>7, Kinds

(* No byte is forgotten, however frames are lost, cut, repeated, reordered *)
(* and acknowledged, although reassembly drops bytes of a frame that       *)
(* surrounds a queued block (frames.c:933) and byte 0 counts as            *)
(* acknowledged from the start, when the first frame of a stream has two   *)
(* bytes or ends it.                                                       *)
THEOREM BytesKept == MinFirst >= 2 => (Spec => []NoByteForgotten)
<1>. SUFFICES ASSUME MinFirst >= 2 PROVE Spec => []NoByteForgotten
  OBVIOUS
<1>1. Base /\ BytesInv /\ [Next]_vars => BytesInv'
  BY Zenon, BytesNext
<1>2. Base /\ BytesInv => NoByteForgotten
  <2>. SUFFICES ASSUME Base, BytesInv PROVE NoByteForgotten
    OBVIOUS
  <2>1. DOMAIN first_misc_frame = 1..Len(first_misc_frame)
    BY DEF Base, TypeOK
  <2>2. ASSUME NEW s \in Streams, NEW i \in 0..(snd[s].sent_offset - 1) PROVE Known(s, i)
    <3>1. i \in Nat /\ i < snd[s].sent_offset
      BY DEF Base, TypeOK, SndStream
    <3>. QED
      BY Zenon, <3>1 DEF BytesInv
  <2>. QED
    BY Zenon, <2>1, <2>2 DEF NoByteForgotten, Known, Waits, Has, HeldOf
<1>3. Spec => []BytesInv
  BY <1>1, BaseHolds, BytesInit, PTL DEF Spec
<1>. QED
  BY <1>2, <1>3, BaseHolds, PTL
=============================================================================
