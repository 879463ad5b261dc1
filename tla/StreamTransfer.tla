--------------------------- MODULE StreamTransfer ---------------------------
(***************************************************************************)
(* One direction of the streams of a connection, from the application that *)
(* writes to the one that reads: stream frames, FIN and RESET_STREAM, flow *)
(* control of the streams and of the connection, repetition and splitting  *)
(* of lost frames, reassembly, and the deletion of streams at both ends.   *)
(*                                                                         *)
(* Byte number i of a stream is the value i, so what is delivered tells    *)
(* where it comes from.  A packet carries one frame.  Which packets are    *)
(* declared lost is left open: the timers of LossRecovery decide, and may  *)
(* be wrong.                                                               *)
(***************************************************************************)
EXTENDS Reassembly, FiniteSets

CONSTANTS Streams,        \* streams
          MaxBytes,       \* bound on the bytes written to a stream
          MinFirst,       \* least number of bytes in a first frame without FIN
          StreamWindow,   \* initial_max_stream_data of the receiver
          Window,         \* initial_max_data of the receiver
          MaxLost,        \* bound on packets lost by the network
          MaxSpurious,    \* bound on packets declared lost wrongly
          MaxPackets,     \* bound on packets sent
          Resets,         \* streams that the writer may reset
          Closing         \* streams whose other direction completes

ASSUME SizesAssumption ==
    /\ MaxBytes \in Nat /\ MinFirst \in Nat
    /\ StreamWindow \in Nat /\ Window \in Nat
    /\ MaxLost \in Nat /\ MaxSpurious \in Nat /\ MaxPackets \in Nat
ASSUME StreamsAssumption == IsFiniteSet(Streams) /\ Resets \cup Closing \subseteq Streams

VARIABLES snd,           \* the streams at the sender
          data_sent, maxdata_remote,                 \* its connection limits
          retransmit,    \* packets sent and neither acknowledged nor given up
          first_misc_frame,                          \* frames waiting, newest first
          send_sequence, \* next packet number
          net,           \* packets under way
          rcv,           \* the streams at the receiver
          data_received, maxdata_local, max_stream_data_needed,
          received,      \* packet numbers that the receiver acknowledges
          credits,       \* MAX_DATA and MAX_STREAM_DATA not acknowledged
          credit_net,    \* those under way
          connection_error,
          delivered,     \* ghost: bytes given to the application
          dropped,       \* ghost: lost frames that were not repeated
          lost, spurious \* ghosts for the bounds

senderVars == <<snd, data_sent, maxdata_remote, retransmit, first_misc_frame,
                send_sequence>>
receiverVars == <<rcv, data_received, maxdata_local, max_stream_data_needed,
                  received, connection_error, delivered>>
creditVars == <<credits, credit_net>>
vars == <<senderVars, net, receiverVars, creditVars, dropped, lost, spurious>>

Offsets == 0..MaxBytes
Frame == [type : {"stream", "reset"}, stream : Streams, offset : Nat,
          bytes : Seq(Nat), fin : BOOLEAN]
Packet == [pn : Nat, frame : Frame]
Credit == [type : {"max_data"}, maxdata : Nat]
          \cup [type : {"max_stream_data"}, stream : Streams, maxdata : Nat]
SndStream ==
    [written : Nat, sent_offset : Nat, fin_requested : BOOLEAN,
     fin_sent : BOOLEAN, reset_requested : BOOLEAN, reset_sent : BOOLEAN,
     maxdata_remote : Nat, sacks : SUBSET Nat,
     is_output_stream : BOOLEAN, other_done : BOOLEAN, deleted : BOOLEAN]
RcvStream ==
    [stream_data : Seq(Block), consumed_offset : Nat, fin_offset : Nat,
     fin_received : BOOLEAN, fin_signalled : BOOLEAN, reset_received : BOOLEAN,
     maxdata_local : Nat, other_done : BOOLEAN, deleted : BOOLEAN]

(* The range first_sack_item of a new stream is zeroed memory, 0..0.       *)
NewSndStream ==
    [written |-> 0, sent_offset |-> 0, fin_requested |-> FALSE,
     fin_sent |-> FALSE, reset_requested |-> FALSE, reset_sent |-> FALSE,
     maxdata_remote |-> StreamWindow, sacks |-> {0},
     is_output_stream |-> TRUE, other_done |-> FALSE, deleted |-> FALSE]
NewRcvStream ==
    [stream_data |-> <<>>, consumed_offset |-> 0, fin_offset |-> 0,
     fin_received |-> FALSE, fin_signalled |-> FALSE, reset_received |-> FALSE,
     maxdata_local |-> StreamWindow, other_done |-> FALSE, deleted |-> FALSE]

Init ==
    /\ snd = [s \in Streams |-> NewSndStream]
    /\ data_sent = 0 /\ maxdata_remote = Window
    /\ retransmit = {} /\ first_misc_frame = <<>> /\ send_sequence = 0
    /\ net = {}
    /\ rcv = [s \in Streams |-> NewRcvStream]
    /\ data_received = 0 /\ maxdata_local = Window
    /\ max_stream_data_needed = FALSE
    /\ received = {}
    /\ credits = {} /\ credit_net = {}
    /\ connection_error = FALSE
    /\ delivered = [s \in Streams |-> <<>>]
    /\ dropped = {} /\ lost = 0 /\ spurious = 0

-----------------------------------------------------------------------------
(* The sender.                                                             *)

SendFinished(h) == \/ h.fin_requested /\ h.fin_sent
                   \/ h.reset_requested /\ h.reset_sent

(* picoquic_delete_stream_if_closed.                                       *)
DeleteIfClosed(h) ==
    [h EXCEPT !.deleted = @ \/ (~h.is_output_stream /\ SendFinished(h) /\ h.other_done)]

(* picoquic_add_to_stream.  The application writes nothing after a FIN.    *)
AddToStream(s) ==
    /\ ~snd[s].deleted /\ ~snd[s].fin_requested
    /\ \E length \in 0..(MaxBytes - snd[s].written), set_fin \in BOOLEAN :
         /\ length > 0 \/ set_fin
         /\ snd[s].written + length >= MinFirst \/ set_fin
         /\ snd' = [snd EXCEPT ![s].fin_requested = set_fin,
                               ![s].written = IF snd[s].reset_sent THEN @
                                              ELSE @ + length]
    /\ UNCHANGED <<data_sent, maxdata_remote, retransmit, first_misc_frame,
                   send_sequence, net, receiverVars, creditVars, dropped, lost,
                   spurious>>

(* picoquic_reset_stream.                                                  *)
ResetStream(s) ==
    /\ s \in Resets
    /\ ~snd[s].deleted /\ ~snd[s].fin_sent /\ ~snd[s].reset_requested
    /\ snd' = [snd EXCEPT ![s].reset_requested = TRUE]
    /\ UNCHANGED <<data_sent, maxdata_remote, retransmit, first_misc_frame,
                   send_sequence, net, receiverVars, creditVars, dropped, lost,
                   spurious>>

(* A packet with the frame leaves, and joins the queue of those sent.      *)
Transmit(queue, frame) ==
    LET packet == [pn |-> send_sequence, frame |-> frame]
    IN  /\ send_sequence < MaxPackets
        /\ net' = net \cup {packet}
        /\ retransmit' = queue \cup {packet}
        /\ send_sequence' = send_sequence + 1

StreamFrame(s, offset, bytes, fin) ==
    [type |-> "stream", stream |-> s, offset |-> offset, bytes |-> bytes,
     fin |-> fin]

(* Faulty variant: the final offset counts bytes that are still queued.    *)
ResetFrameQueued(s) == [StreamFrame(s, snd[s].written, <<>>, FALSE) EXCEPT
                          !.type = "reset"]

(* picoquic_prepare_stream_reset_frame: the final offset is sent_offset.   *)
ResetFrame(s) == [StreamFrame(s, snd[s].sent_offset, <<>>, FALSE) EXCEPT
                    !.type = "reset"]

(* Faulty variant: the limit of the connection is forgotten.               *)
AllowedByStream(s) == snd[s].maxdata_remote - snd[s].sent_offset

(* allowed_space in picoquic_prepare_stream_frame.                         *)
Allowed(s) == Min({snd[s].maxdata_remote - snd[s].sent_offset,
                   maxdata_remote - data_sent})

(* The stream has something that the limits let it send                    *)
(* (picoquic_find_ready_stream).                                           *)
Ready(s) ==
    /\ snd[s].is_output_stream /\ ~snd[s].deleted
    /\ \/ /\ maxdata_remote > data_sent
          /\ snd[s].sent_offset < snd[s].maxdata_remote
          /\ \/ snd[s].written > snd[s].sent_offset
             \/ snd[s].fin_requested /\ ~snd[s].fin_sent
       \/ snd[s].reset_requested /\ ~snd[s].reset_sent

(* picoquic_prepare_stream_frame: a reset comes first, and drops what is   *)
(* queued.                                                                 *)
PrepareReset(s) ==
    /\ Ready(s) /\ snd[s].reset_requested /\ ~snd[s].reset_sent
    /\ snd' = [snd EXCEPT ![s] = DeleteIfClosed(
                  [@ EXCEPT !.reset_sent = TRUE, !.fin_sent = TRUE,
                            !.written = snd[s].sent_offset])]
    /\ Transmit(retransmit, ResetFrame(s))
    /\ UNCHANGED <<data_sent, maxdata_remote, first_misc_frame, receiverVars,
                   creditVars, dropped, lost, spurious>>

(* The space left in the packet decides how much of the data is sent; the  *)
(* FIN goes with the last byte.                                            *)
PrepareStreamFrame(s) ==
    /\ Ready(s) /\ ~(snd[s].reset_requested /\ ~snd[s].reset_sent)
    /\ \E length \in 0..Min({snd[s].written - snd[s].sent_offset, Allowed(s)}) :
         LET h     == snd[s]
             last  == h.sent_offset + length = h.written
             fin   == last /\ h.fin_requested
             bytes == [i \in 1..length |-> h.sent_offset + i - 1]
             frame == StreamFrame(s, h.sent_offset, bytes, fin)
         IN  /\ length > 0 \/ fin
             /\ h.sent_offset = 0 => length >= MinFirst \/ fin
             /\ snd' = [snd EXCEPT ![s] = DeleteIfClosed(
                           [h EXCEPT !.sent_offset = @ + length,
                                     !.fin_sent = @ \/ fin])]
             /\ data_sent' = data_sent + length
             /\ Transmit(retransmit, frame)
    /\ UNCHANGED <<maxdata_remote, first_misc_frame, receiverVars, creditVars,
                   dropped, lost, spurious>>

(* picoquic_find_ready_stream removes an exhausted stream from the list of *)
(* output streams.                                                         *)
LeaveOutput(s) ==
    /\ snd[s].is_output_stream /\ SendFinished(snd[s])
    /\ snd' = [snd EXCEPT ![s] = DeleteIfClosed([@ EXCEPT !.is_output_stream = FALSE])]
    /\ UNCHANGED <<data_sent, maxdata_remote, retransmit, first_misc_frame,
                   send_sequence, net, receiverVars, creditVars, dropped, lost,
                   spurious>>

(* The other direction of the stream is complete at the sender.            *)
OtherDirectionReceived(s) ==
    /\ s \in Closing /\ ~snd[s].other_done
    /\ snd' = [snd EXCEPT ![s] = DeleteIfClosed([@ EXCEPT !.other_done = TRUE])]
    /\ UNCHANGED <<data_sent, maxdata_remote, retransmit, first_misc_frame,
                   send_sequence, net, receiverVars, creditVars, dropped, lost,
                   spurious>>

(* Faulty variant: data is given up as soon as a reset is requested.       *)
NeedsRepeatUntilRequest(f) ==
    \/ f.type = "reset"
    \/ snd[f.stream].deleted
    \/ /\ ~snd[f.stream].reset_requested
       /\ ~(f.offset..(f.offset + Len(f.bytes)) \subseteq snd[f.stream].sacks)

(* picoquic_check_frame_needs_repeat.  The check includes the offset that  *)
(* follows the last byte.                                                  *)
NeedsRepeat(f) ==
    \/ f.type = "reset"
    \/ snd[f.stream].deleted
    \/ /\ ~snd[f.stream].reset_sent
       /\ ~(f.offset..(f.offset + Len(f.bytes)) \subseteq snd[f.stream].sacks)

(* Faulty variants: the FIN is lost; the second part starts one byte late. *)
SplitNoFin(f, n) ==
    <<StreamFrame(f.stream, f.offset, SubSeq(f.bytes, 1, n), FALSE),
      StreamFrame(f.stream, f.offset + n, SubSeq(f.bytes, n + 1, Len(f.bytes)), FALSE)>>
SplitGap(f, n) ==
    <<StreamFrame(f.stream, f.offset, SubSeq(f.bytes, 1, n), FALSE),
      StreamFrame(f.stream, f.offset + n + 1, SubSeq(f.bytes, n + 2, Len(f.bytes)), f.fin)>>

(* picoquic_split_stream_frame: n bytes fit, the rest becomes a frame.     *)
Split(f, n) ==
    <<StreamFrame(f.stream, f.offset, SubSeq(f.bytes, 1, n), FALSE),
      StreamFrame(f.stream, f.offset + n, SubSeq(f.bytes, n + 1, Len(f.bytes)), f.fin)>>

(* picoquic_copy_before_retransmit: a packet declared lost is dropped, or  *)
(* repeated whole, or in part with the rest, or all of it, queued.         *)
Repeat(p) ==
    LET f == p.frame
    IN  \/ /\ ~NeedsRepeat(f)
           /\ retransmit' = retransmit \ {p}
           /\ dropped' = dropped \cup {f}
           /\ UNCHANGED <<first_misc_frame, send_sequence, net>>
        \/ /\ NeedsRepeat(f)
           /\ Transmit(retransmit \ {p}, f)
           /\ UNCHANGED <<first_misc_frame, dropped>>
        \/ /\ NeedsRepeat(f) /\ f.type = "stream"
           /\ \E n \in 1..(Len(f.bytes) - 1) :
                /\ f.offset = 0 => n >= MinFirst
                /\ Transmit(retransmit \ {p}, Split(f, n)[1])
                /\ first_misc_frame' = <<Split(f, n)[2]>> \o first_misc_frame
           /\ UNCHANGED dropped
        \/ /\ NeedsRepeat(f) /\ f.type = "stream"
           /\ retransmit' = retransmit \ {p}
           /\ first_misc_frame' = <<f>> \o first_misc_frame
           /\ UNCHANGED <<send_sequence, net, dropped>>

(* A packet that the network lost is declared lost in time; one that is    *)
(* late, or whose acknowledgement is, may be.                              *)
DeclareLost ==
    \E p \in retransmit :
        /\ \/ /\ p \notin net /\ p.pn \notin received
              /\ UNCHANGED spurious
           \/ /\ p \in net \/ p.pn \in received
              /\ spurious < MaxSpurious
              /\ spurious' = spurious + 1
        /\ Repeat(p)
        /\ UNCHANGED <<snd, data_sent, maxdata_remote, receiverVars, creditVars, lost>>

(* picoquic_prepare_first_misc_frame.                                      *)
SendMiscFrame ==
    /\ first_misc_frame # <<>>
    /\ Transmit(retransmit, Head(first_misc_frame))
    /\ first_misc_frame' = Tail(first_misc_frame)
    /\ UNCHANGED <<snd, data_sent, maxdata_remote, receiverVars, creditVars, dropped,
                   lost, spurious>>

(* picoquic_process_ack_of_stream_frame records offset..offset+length-1.   *)
(* For an empty frame at offset zero that is 0..2^64-1; an empty range at  *)
(* another offset covers nothing.                                          *)
AckedRange(f) ==
    IF f.offset = 0 /\ f.bytes = <<>> THEN Offsets
    ELSE f.offset..(f.offset + Len(f.bytes) - 1)

(* An acknowledgement arrives for a packet of the queue.                   *)
ProcessAck ==
    \E p \in retransmit :
        /\ p.pn \in received
        /\ retransmit' = retransmit \ {p}
        /\ snd' = IF p.frame.type = "stream" /\ ~snd[p.frame.stream].deleted
                  THEN [snd EXCEPT ![p.frame.stream].sacks = @ \cup AckedRange(p.frame)]
                  ELSE snd
        /\ UNCHANGED <<data_sent, maxdata_remote, first_misc_frame, send_sequence,
                       net, receiverVars, creditVars, dropped, lost, spurious>>

(* picoquic_decode_max_data_frame, picoquic_decode_max_stream_data_frame.  *)
DecodeCredit ==
    \E c \in credit_net :
        /\ credit_net' = credit_net \ {c}
        /\ credits' = credits \ {c}
        /\ IF c.type = "max_data"
           THEN /\ maxdata_remote' = Max({maxdata_remote, c.maxdata})
                /\ UNCHANGED snd
           ELSE /\ snd' = IF snd[c.stream].deleted THEN snd
                          ELSE [snd EXCEPT ![c.stream].maxdata_remote =
                                  Max({@, c.maxdata})]
                /\ UNCHANGED maxdata_remote
        /\ UNCHANGED <<data_sent, retransmit, first_misc_frame, send_sequence, net,
                       receiverVars, dropped, lost, spurious>>

-----------------------------------------------------------------------------
(* The network.                                                            *)

Lose ==
    /\ lost < MaxLost
    /\ lost' = lost + 1
    /\ \/ \E p \in net : net' = net \ {p} /\ UNCHANGED credit_net
       \/ \E c \in credit_net : credit_net' = credit_net \ {c} /\ UNCHANGED net
    /\ UNCHANGED <<senderVars, receiverVars, credits, dropped, spurious>>

-----------------------------------------------------------------------------
(* The receiver.                                                           *)

Notified(h) == (h.fin_received /\ h.fin_signalled) \/ h.reset_received

(* picoquic_flow_control_check_stream_offset.                              *)
FlowControlError(h, offset) ==
    \/ offset > h.maxdata_local
    \/ /\ offset > h.fin_offset
       /\ data_received + (offset - h.fin_offset) > maxdata_local

(* picoquic_stream_network_input, for a stream that exists: a frame beyond *)
(* the end, or another end, is an error.                                   *)
FinalOffsetError(h, f) ==
    LET end == f.offset + Len(f.bytes)
    IN  h.fin_received /\ IF f.fin THEN h.fin_offset # end ELSE end > h.fin_offset

(* fin_offset is the highest offset seen, the FIN received or not.         *)
Highest(h, end) == Max({h.fin_offset, end})

SignalFin(h) ==
    [h EXCEPT !.fin_signalled =
        @ \/ (h.fin_received /\ h.consumed_offset >= h.fin_offset)]

(* The queue of the stream with the new bytes.                             *)
QueueInput(h, f) == picoquic_queue_network_input(h.stream_data, f.offset, f.bytes,
                                                 h.consumed_offset)

(* The stream after its new bytes were queued and delivered, given the     *)
(* queue and what the callback makes of it.                                *)
StreamNetworkInput(h, f, queue, out) ==
    LET end    == f.offset + Len(f.bytes)
        notify == (f.fin /\ ~h.fin_received) \/ queue # h.stream_data
        input  == [h EXCEPT !.fin_received = @ \/ f.fin,
                            !.fin_offset = Highest(h, end)]
    IN  IF notify
        THEN SignalFin([input EXCEPT !.stream_data = out.stream_data,
                                     !.consumed_offset = out.consumed_offset])
        ELSE input

(* A stream frame arrives.  One for a stream that is gone is ignored, and  *)
(* its packet acknowledged.                                                *)
DecodeStreamFrame(p, queue, out) ==
    LET f   == p.frame
        h   == rcv[f.stream]
        new == StreamNetworkInput(h, f, queue, out)
    IN  /\ f.type = "stream" /\ ~connection_error
        /\ net' = net \ {p}
        /\ IF h.deleted
           THEN /\ received' = received \cup {p.pn}
                /\ UNCHANGED <<rcv, data_received, max_stream_data_needed,
                               connection_error, delivered>>
           ELSE IF FinalOffsetError(h, f)
                   \/ FlowControlError(h, f.offset + Len(f.bytes))
           THEN /\ connection_error' = TRUE
                /\ UNCHANGED <<rcv, data_received, max_stream_data_needed,
                               received, delivered>>
           ELSE /\ rcv' = [rcv EXCEPT ![f.stream] =
                       [new EXCEPT !.deleted = new.fin_signalled /\ new.other_done]]
                /\ delivered' = [delivered EXCEPT ![f.stream] = @ \o out.bytes]
                /\ data_received' = data_received + (new.fin_offset - h.fin_offset)
                /\ max_stream_data_needed' =
                     (max_stream_data_needed
                      \/ (/\ ~new.fin_received /\ ~new.reset_received
                          /\ 2 * new.consumed_offset > new.maxdata_local))
                /\ received' = received \cup {p.pn}
                /\ UNCHANGED connection_error
        /\ UNCHANGED <<senderVars, maxdata_local, creditVars, dropped, lost,
                       spurious>>

(* (A bound variable with one value is evaluated once.)                    *)
IncomingStream ==
    \E p \in net :
    \E queue \in {QueueInput(rcv[p.frame.stream], p.frame)} :
    \E out \in {Deliver(queue, rcv[p.frame.stream].consumed_offset)} :
        DecodeStreamFrame(p, queue, out)

(* picoquic_decode_stream_reset_frame.  One for a stream that is gone is   *)
(* refused with no error, and its packet is not acknowledged.              *)
IncomingReset ==
    \E p \in net :
        LET f == p.frame
            h == rcv[f.stream]
        IN  /\ f.type = "reset" /\ ~connection_error
            /\ net' = net \ {p}
            /\ IF h.deleted
               THEN UNCHANGED <<rcv, data_received, received, connection_error>>
               ELSE IF \/ (h.fin_received \/ h.reset_received) /\ f.offset # h.fin_offset
                       \/ FlowControlError(h, f.offset)
               THEN /\ connection_error' = TRUE
                    /\ UNCHANGED <<rcv, data_received, received>>
               ELSE /\ rcv' = [rcv EXCEPT ![f.stream] =
                           [h EXCEPT !.fin_offset = Highest(h, f.offset),
                                     !.reset_received = TRUE,
                                     !.deleted = @ \/ h.other_done]]
                    /\ data_received' = data_received
                                          + Highest(h, f.offset) - h.fin_offset
                    /\ received' = received \cup {p.pn}
                    /\ UNCHANGED connection_error
            /\ UNCHANGED <<senderVars, maxdata_local, max_stream_data_needed,
                           delivered, creditVars, dropped, lost, spurious>>

(* The other direction of the stream is complete at the receiver.          *)
OtherDirectionSent(s) ==
    /\ s \in Closing /\ ~rcv[s].other_done
    /\ rcv' = [rcv EXCEPT ![s].other_done = TRUE, ![s].deleted = Notified(rcv[s])]
    /\ UNCHANGED <<senderVars, net, data_received, maxdata_local,
                   max_stream_data_needed, received, connection_error, delivered,
                   creditVars, dropped, lost, spurious>>

(* picoquic_prepare_max_data_frame, when picoquic_should_send_max_data.    *)
PrepareMaxData ==
    LET c == [type |-> "max_data", maxdata |-> maxdata_local + 2 * data_received]
    IN  /\ 2 * data_received > maxdata_local
        /\ maxdata_local' = c.maxdata
        /\ credits' = credits \cup {c}
        /\ credit_net' = credit_net \cup {c}
        /\ UNCHANGED <<senderVars, net, rcv, data_received, max_stream_data_needed,
                       received, connection_error, delivered, dropped, lost,
                       spurious>>

(* picoquic_prepare_required_max_stream_data_frames.                       *)
NeedsCredit(h) == /\ ~h.deleted /\ ~h.fin_received /\ ~h.reset_received
                  /\ 2 * h.consumed_offset > h.maxdata_local
NewLimit(h) == h.maxdata_local + 2 * h.consumed_offset
PrepareMaxStreamData ==
    LET needed == {s \in Streams : NeedsCredit(rcv[s])}
        frames == {[type |-> "max_stream_data", stream |-> s,
                    maxdata |-> NewLimit(rcv[s])] : s \in needed}
    IN  /\ max_stream_data_needed
        /\ max_stream_data_needed' = FALSE
        /\ rcv' = [s \in Streams |-> IF s \in needed
                       THEN [rcv[s] EXCEPT !.maxdata_local = NewLimit(rcv[s])]
                       ELSE rcv[s]]
        /\ credits' = credits \cup frames
        /\ credit_net' = credit_net \cup frames
        /\ UNCHANGED <<senderVars, net, data_received, maxdata_local, received,
                       connection_error, delivered, dropped, lost, spurious>>

(* Faulty variant: the latest credit counts as superseded.                 *)
SupersededUpTo(c) ==
    IF c.type = "max_data" THEN c.maxdata <= maxdata_local
    ELSE c.maxdata <= rcv[c.stream].maxdata_local

(* Credits that need no repetition (frames.c:2285-2312).                   *)
Superseded(c) ==
    IF c.type = "max_data" THEN c.maxdata < maxdata_local
    ELSE \/ rcv[c.stream].deleted
         \/ rcv[c.stream].fin_received \/ rcv[c.stream].reset_received
         \/ c.maxdata < rcv[c.stream].maxdata_local

(* A credit that the network lost is repeated, or forgotten.               *)
RepeatCredit ==
    \E c \in credits \ credit_net :
        /\ IF Superseded(c) THEN credits' = credits \ {c} /\ UNCHANGED credit_net
           ELSE credit_net' = credit_net \cup {c} /\ UNCHANGED credits
        /\ UNCHANGED <<senderVars, net, receiverVars, dropped, lost, spurious>>

Next ==
    \/ \E s \in Streams : \/ AddToStream(s) \/ ResetStream(s)
                          \/ PrepareReset(s) \/ PrepareStreamFrame(s)
                          \/ LeaveOutput(s)
                          \/ OtherDirectionReceived(s) \/ OtherDirectionSent(s)
    \/ DeclareLost \/ SendMiscFrame \/ ProcessAck \/ DecodeCredit
    \/ Lose
    \/ IncomingStream \/ IncomingReset
    \/ PrepareMaxData \/ PrepareMaxStreamData \/ RepeatCredit

Spec == Init /\ [][Next]_vars

(* Everything that an end has to do it does in time; the applications do   *)
(* what they like.                                                         *)
Fairness ==
    /\ \A s \in Streams : /\ WF_vars(PrepareReset(s))
                          /\ WF_vars(PrepareStreamFrame(s))
    /\ WF_vars(DeclareLost) /\ WF_vars(SendMiscFrame) /\ WF_vars(ProcessAck)
    /\ WF_vars(DecodeCredit) /\ WF_vars(RepeatCredit)
    /\ WF_vars(IncomingStream) /\ WF_vars(IncomingReset)
    /\ WF_vars(PrepareMaxData) /\ WF_vars(PrepareMaxStreamData)

LiveSpec == Spec /\ Fairness

-----------------------------------------------------------------------------
(* Properties.                                                             *)

TypeOK ==
    /\ snd \in [Streams -> SndStream] /\ rcv \in [Streams -> RcvStream]
    /\ data_sent \in Nat /\ maxdata_remote \in Nat
    /\ data_received \in Nat /\ maxdata_local \in Nat
    /\ retransmit \subseteq Packet /\ net \subseteq Packet
    /\ first_misc_frame \in Seq(Frame)
    /\ send_sequence \in Nat /\ received \subseteq Nat
    /\ credits \subseteq Credit /\ credit_net \subseteq Credit
    /\ delivered \in [Streams -> Seq(Nat)]

(* The application reads the bytes of a stream in order, each of them      *)
(* once, whatever frames overlap and in whatever order they arrive, and    *)
(* what waits is ahead of what was read (frames.c:865-965).                *)
InOrderDelivery ==
    \A s \in Streams :
        LET blocks == rcv[s].stream_data
        IN  /\ delivered[s] = [i \in 1..rcv[s].consumed_offset |-> i - 1]
            /\ \A i \in DOMAIN blocks :
                 /\ blocks[i].bytes = [k \in 1..Len(blocks[i].bytes) |->
                                         blocks[i].offset + k - 1]
                 /\ blocks[i].offset > (IF i = 1 THEN rcv[s].consumed_offset
                                        ELSE End(blocks[i - 1]) - 1)

(* No byte is forgotten: the receiver has it, or a packet or a waiting     *)
(* frame of the sender still carries it.  Reassembly drops bytes of a      *)
(* frame that surrounds a queued block (frames.c:933), and still no        *)
(* acknowledged byte is missing.                                           *)
Carries(f, s, i) == /\ f.type = "stream" /\ f.stream = s
                    /\ i \in f.offset..(f.offset + Len(f.bytes) - 1)
NoByteForgotten ==
    \A s \in Streams : \A i \in 0..(snd[s].sent_offset - 1) :
        \/ i \in Held(rcv[s].stream_data, rcv[s].consumed_offset)
        \/ snd[s].reset_sent \/ rcv[s].deleted
        \/ \E p \in retransmit : Carries(p.frame, s, i)
        \/ \E k \in DOMAIN first_misc_frame : Carries(first_misc_frame[k], s, i)

(* Nor is the FIN of a stream with at least one byte.                      *)
FinNotForgotten ==
    \A s \in Streams :
        snd[s].fin_sent /\ ~snd[s].reset_sent /\ snd[s].sent_offset > 0
        => \/ rcv[s].fin_received
           \/ \E f \in {p.frame : p \in retransmit} \cup Range(first_misc_frame) :
                f.stream = s /\ f.fin

(* The FIN is signalled only when every byte was read, and the stream ends *)
(* where the sender ended it.                                              *)
FinIsTheEnd ==
    \A s \in Streams :
        /\ rcv[s].fin_received => /\ snd[s].fin_sent
                                  /\ rcv[s].fin_offset = snd[s].sent_offset
        /\ rcv[s].fin_signalled => rcv[s].consumed_offset = snd[s].sent_offset

(* The two together: the end of a stream arrives, in its place.            *)
FinIsKept == FinNotForgotten /\ FinIsTheEnd

(* An end that respects the limits it was given is never accused of a      *)
(* violation, however its frames are cut, repeated and reordered           *)
(* (frames.c:286-310, 982-999).                                            *)
NoFalseAccusation == ~connection_error

(* What a sender may send never exceeds what the receiver granted, and     *)
(* both ends count the bytes of the connection alike (frames.c:1500-1515). *)
BytesBelow(offset) == {b \in Streams \X Offsets : b[2] < offset[b[1]]}
CreditIsHonoured ==
    /\ maxdata_remote <= maxdata_local
    /\ data_sent <= maxdata_remote
    /\ data_sent = Cardinality(BytesBelow([s \in Streams |-> snd[s].sent_offset]))
    /\ data_received = Cardinality(BytesBelow([s \in Streams |-> rcv[s].fin_offset]))
    /\ \A s \in Streams :
         /\ snd[s].sent_offset <= snd[s].maxdata_remote
         /\ snd[s].maxdata_remote <= rcv[s].maxdata_local
         /\ rcv[s].fin_offset <= snd[s].sent_offset

(* Every stream that is written to its FIN, and is not empty, is read to   *)
(* its FIN: credit never runs dry, and no loss is final.                   *)
EveryStreamCompletes ==
    \A s \in Streams : (snd[s].fin_requested /\ snd[s].written > 0) ~>
                          (rcv[s].fin_signalled \/ snd[s].reset_requested)

(* The bytes of a lost frame are dropped only when the receiver has them,  *)
(* or the stream was reset (comment at frames.c:2276: "Check whether the   *)
(* ack was already received").                                             *)
DroppedBytesWereReceived ==
    \A f \in dropped :
        \/ snd[f.stream].reset_sent
        \/ f.offset..(f.offset + Len(f.bytes) - 1) \subseteq
             Held(rcv[f.stream].stream_data, rcv[f.stream].consumed_offset)
=============================================================================
