----------------------------- MODULE Connection -----------------------------
(***************************************************************************)
(* One connection between a client and a server, from the first Initial    *)
(* packet to the end of the closing period: the states of                  *)
(* picoquic_state_enum, the three packet number spaces, the crypto streams *)
(* of the Initial and Handshake epochs, the keys TLS installs, Retry,      *)
(* version negotiation, a busy server, 0-RTT, stateless resets, the close  *)
(* frames and the timers that end a connection.                            *)
(*                                                                         *)
(*   picoquic_incoming_segment and its handlers   packet.c 619-1976        *)
(*   picoquic_prepare_segment and its handlers    sender.c 1425-2892       *)
(*   picoquic_tls_stream_process                  tls_api.c 1764-1962      *)
(*                                                                         *)
(* A handler of the code is an operator on the record of a connection; an  *)
(* action is one call of picoquic_prepare_segment, one segment received,   *)
(* one call of the application or one timer.  The segments coalesced in a  *)
(* datagram are packets of their own.  TLS is an external component: the   *)
(* client's hello and the server's are one part each (epoch 0), the        *)
(* server's flight is ServerParts parts and the client's Finished is one   *)
(* (epoch 2).  One unit of data per end stands for the streams and for the *)
(* frames every connection sends once it has 1-RTT keys; a client with     *)
(* early keys has one more unit, for 0-RTT.  The times of the timers are   *)
(* left out: a packet may be repeated at any time, FaultBound bounds the   *)
(* repetitions that come while packets or acknowledgements are under way,  *)
(* with the faults of the network.  Draft-20, where handshake packets that *)
(* come late are acknowledged, is left out.  The states client_renegotiate,*)
(* client_init_resent, client_retry_received and                           *)
(* client_handshake_progress are never entered by the code, and            *)
(* server_almost_ready only when TLS completes before the server's flight  *)
(* has left.                                                               *)
(***************************************************************************)
EXTENDS Integers, Sequences, FiniteSets, SequencesExt, FiniteSetsExt

CONSTANTS
    Modes,         \* how the server is set up, chosen once; in "end", as in
                   \* "plain", and applications and timers may end the connection
    Calm,          \* the modes in which there are no faults
    ServerParts,   \* packets of the server's handshake flight
    Cwin,          \* packets the congestion window lets in flight
    ChallengeRepeatMax, \* PICOQUIC_CHALLENGE_REPEAT_MAX
    Closers,       \* the ends whose application may call picoquic_close
    Rejecters,     \* the ends whose application may refuse a callback
    Timeouts,      \* may the timers that end a live connection fire
    MaxRepeats,    \* bound on the repetitions, and idle packets, of a space
    FaultBound     \* bound on the faults of the network and of the timers

AllModes == {"plain", "auth", "token", "busy", "version", "early", "rejected", "end"}

ASSUME ConnectionAssumption ==
    /\ Modes \subseteq AllModes /\ Calm \subseteq Modes
    /\ ServerParts \in Nat \ {0} /\ Cwin \in Nat \ {0}
    /\ ChallengeRepeatMax \in Nat
    /\ Timeouts \in BOOLEAN
    /\ MaxRepeats \in Nat /\ FaultBound \in Nat

VARIABLES
    cnx,           \* per end, the connection context
    net,           \* per end, the packets on their way to it
    mode,          \* the set-up, an element of Modes
    inst,          \* the server contexts made so far
    faults         \* packets lost, duplicated, overtaken or repeated early

vars == <<cnx, net, mode, inst, faults>>

Ends == {"client", "server"}
Peer(e) == IF e = "client" THEN "server" ELSE "client"

(* picoquic_state_enum, in its order; the code compares states with <.     *)
Order == <<"client_init", "client_init_sent", "server_init", "server_handshake",
           "client_handshake_start", "handshake_failure",
           "handshake_failure_resend", "client_almost_ready",
           "server_false_start", "client_ready_start", "ready",
           "disconnecting", "closing_received", "closing", "draining",
           "disconnected">>
Rank == [s \in Range(Order) |-> CHOOSE i \in 1..Len(Order) : Order[i] = s]
Before(c, s) == Rank[c.state] < Rank[s]

Ended == {"handshake_failure", "handshake_failure_resend", "disconnecting",
          "closing_received", "closing", "draining", "disconnected"}

Spaces == {"I", "H", "A"}
SpaceOf(type) == CASE type = "initial" -> "I" [] type = "handshake" -> "H"
                   [] OTHER -> "A"
Hello == 1                                  \* the one part of epoch 0
TypeOf(pc) == CASE pc = "I" -> "initial" [] pc = "H" -> "handshake"
                [] OTHER -> "1rtt"
NoFrames == [crypto |-> 0, data |-> {}, ack |-> {}, close |-> "no",
             challenge |-> FALSE, response |-> FALSE]

(* picoquic_create_cnx and picoquic_initialize_tls_stream.  queue is the   *)
(* retransmit queue, oldest first; off counts the parts sent, len the      *)
(* parts TLS pushed, rcvd the parts received of the peer's stream, both by *)
(* the space of the epoch.  cid is the server context this end belongs to  *)
(* (0: the client only knows the identifier it made up).                   *)
NewSpace == [next |-> 0, queue |-> <<>>, repeats |-> 0, got |-> {},
             ack_needed |-> FALSE]
NewContext(s, n, token) ==
    [state |-> s, keys |-> {}, cid |-> n, token |-> token, error |-> FALSE,
     len |-> [I |-> IF s = "client_init" THEN 1 ELSE 0, H |-> 0],
     off |-> [I |-> 0, H |-> 0], rcvd |-> [I |-> {}, H |-> {}],
     sp |-> [pc \in Spaces |-> NewSpace],
     data |-> {"frames"}, read |-> {}, told |-> {}, finished |-> FALSE,
     onertt |-> FALSE, verified |-> TRUE, challenges |-> 0,
     response |-> FALSE, asked |-> FALSE]
NoContext == [NewContext("disconnected", 0, FALSE) EXCEPT !.told = {"none"}]

Exists(e) == "none" \notin cnx[e].told

Early == mode \in {"early", "rejected"}

Init ==
    /\ mode \in Modes
    /\ cnx = [client |-> [NewContext("client_init", 0, FALSE) EXCEPT
                             !.keys = IF Early THEN {"early"} ELSE {},
                             !.data = IF Early THEN @ \cup {"early"} ELSE @],
              server |-> NoContext]
    /\ net = [e \in Ends |-> <<>>]
    /\ inst = 0
    /\ faults = IF mode \in Calm THEN FaultBound ELSE 0

-----------------------------------------------------------------------------
(* What the handlers share.                                                *)

(* picoquic_connection_error.                                              *)
ConnectionError(c) ==
    IF c.state \in Ended THEN c
    ELSE [c EXCEPT !.error = TRUE,
                   !.state = IF Before(c, "server_false_start")
                             THEN "handshake_failure" ELSE "disconnecting"]

(* The application may refuse the almost_ready and ready callbacks.        *)
Answers(e) == IF mode = "end" /\ e \in Rejecters THEN BOOLEAN ELSE {TRUE}
Callback(c, accepts) == IF accepts THEN c ELSE ConnectionError(c)

Disconnect(c, why) == [c EXCEPT !.state = "disconnected", !.told = @ \cup {why}]

(* picoquic_implicit_handshake_ack: the loop follows next_packet, which    *)
(* leads from the oldest packet nowhere, so only that one is removed.      *)
ImplicitHandshakeAck(c, pc) ==
    [c EXCEPT !.sp[pc].queue = IF @ = <<>> THEN @ ELSE Tail(@)]

(* picoquic_ready_state_transition.                                        *)
ReadyStateTransition(c, accepts) ==
    Callback(ImplicitHandshakeAck(
                 ImplicitHandshakeAck([c EXCEPT !.state = "ready"], "I"), "H"),
             accepts)

InTransit(c) == Len(c.sp["I"].queue) + Len(c.sp["H"].queue) + Len(c.sp["A"].queue)
TlsReady(c) == \/ c.off["I"] < c.len["I"]
               \/ "hs" \in c.keys /\ c.off["H"] < c.len["H"]
NextCrypto(c, pc) == IF c.off[pc] < c.len[pc] THEN c.off[pc] + 1 ELSE 0
CurrentSpace(c) ==
    IF c.off["I"] = c.len["I"] /\ "hs" \in c.keys THEN "H" ELSE "I"

-----------------------------------------------------------------------------
(* Sending: picoquic_finalize_and_protect_packet puts the packet in the    *)
(* queue of its space, picoquic_prepare_ack_frame clears ack_needed.  The  *)
(* packets sent so far stand for the send time.                            *)
Clock(c) == c.sp["I"].next + c.sp["H"].next + c.sp["A"].next
Sent(c, type, f) ==
    LET pc == SpaceOf(type) IN
    [c EXCEPT !.sp[pc].next = @ + 1,
              !.sp[pc].queue =
                 Append(@, [pn |-> c.sp[pc].next, type |-> type, crypto |-> f.crypto,
                            data |-> f.data, time |-> Clock(c)]),
              !.sp[pc].ack_needed = @ /\ f.ack = {}]

Emit(e, c, type, f) ==
    LET pc == SpaceOf(type) IN
    /\ cnx' = [cnx EXCEPT ![e] = Sent(c, type, f)]
    /\ net' = [net EXCEPT ![Peer(e)] =
                 Append(@, [type |-> type, pn |-> c.sp[pc].next, cid |-> c.cid,
                            token |-> c.token, f |-> f])]

Quiet(e, c) == cnx' = [cnx EXCEPT ![e] = c] /\ UNCHANGED net

(* A packet with nothing to repeat is dropped when its time comes.         *)
Worth(q) == q.crypto # 0 \/ q.data # {}
Pruned(c) ==
    [c EXCEPT !.sp = [pc \in Spaces |->
        [c.sp[pc] EXCEPT !.queue =
            LET W == {i \in 1..Len(@) : Worth(@[i])} IN
            IF W = {} THEN <<>> ELSE SubSeq(@, Min(W), Len(@))]]]

(* picoquic_retransmit_needed and the acknowledgement its callers add: the *)
(* oldest packet with something to repeat, a 0-RTT packet that is not yet  *)
(* due left in place, and a 0-RTT packet repeated as 1-RTT.  When the      *)
(* packet was repeated too often the connection is given up.               *)
Repeatable(c, pc) ==
    {k \in 1..Len(c.sp[pc].queue) :
        /\ c.sp[pc].repeats < (IF pc = "A" /\ Early THEN 3 ELSE 1) * MaxRepeats
        /\ Worth(c.sp[pc].queue[k])
        /\ \A j \in 1..(k - 1) : \/ ~Worth(c.sp[pc].queue[j])
                                 \/ c.sp[pc].queue[j].type = "0rtt"
        /\ c.sp[pc].queue[k].type = "0rtt" => ~Before(c, "client_ready_start")}

(* A timer is early when packets are still under way, when the peer is     *)
(* about to acknowledge, or before that of a packet sent earlier.          *)
(* Rejected 0-RTT packets are repeated at once.  What is left of the       *)
(* handshake in the ready state is repeated for nothing, and counted with  *)
(* the early ones.                                                         *)
Served(c) == IF c.state = "ready" THEN {"A"} ELSE Spaces
IsEarly(e, c, pc, q) ==
    /\ ~(q.type = "0rtt" /\ mode = "rejected")
    /\ \/ pc \notin Served(c)
       \/ \E x \in Ends : net[x] # <<>>
       \/ q.pn \in cnx[Peer(e)].sp[pc].got /\ cnx[Peer(e)].sp[pc].ack_needed
       \/ \E other \in Served(c) : \E k \in Repeatable(c, other) :
             c.sp[other].queue[k].time < q.time

Fault == faults < FaultBound /\ faults' = faults + 1
CountEarly(early) == IF early THEN Fault ELSE UNCHANGED faults

Repeat(e, c, pc) ==
    \E k \in Repeatable(c, pc) :
        LET queue == c.sp[pc].queue
            q == queue[k]
            rest == SelectSeq(SubSeq(queue, 1, k - 1),
                              LAMBDA x : x.type = "0rtt" /\ Worth(x))
                    \o SubSeq(queue, k + 1, Len(queue))
            c1 == [c EXCEPT !.sp[pc].queue = rest, !.sp[pc].repeats = @ + 1]
        IN \/ /\ Emit(e, c1, IF q.type = "0rtt" THEN "1rtt" ELSE q.type,
                       [NoFrames EXCEPT !.crypto = q.crypto, !.data = q.data,
                                        !.ack = c.sp[pc].got])
              /\ CountEarly(IsEarly(e, c, pc, q))
           \/ /\ mode = "end" /\ Timeouts
              /\ Quiet(e, Disconnect(c1, "close"))
              /\ UNCHANGED faults

(* Fault: what is left of an older space is acknowledged, not repeated.    *)
FaultyOldContext(e, c, pc) ==
    /\ c.sp[pc].ack_needed
    /\ Emit(e, c, TypeOf(pc), [NoFrames EXCEPT !.ack = c.sp[pc].got])
    /\ UNCHANGED faults

(* picoquic_prepare_packet_old_context.                                    *)
OldContext(e, c, pc) ==
    \/ Repeat(e, c, pc)
    \/ /\ c.sp[pc].ack_needed
       /\ Emit(e, c, TypeOf(pc), [NoFrames EXCEPT !.ack = c.sp[pc].got])
       /\ UNCHANGED faults

-----------------------------------------------------------------------------
(* picoquic_prepare_packet_client_init.                                    *)

(* The crypto frame was prepared; when it was the last of its epoch the    *)
(* state moves on.                                                         *)
CryptoSent(c, pc) == [c EXCEPT !.off[pc] = @ + 1]
ClientProgress(c, pc, accepts) ==
    LET c1 == CryptoSent(c, pc) IN
    CASE c1.off[pc] < c1.len[pc] -> c1
      [] c1.state = "client_init" -> [c1 EXCEPT !.state = "client_init_sent"]
      [] c1.state = "client_almost_ready" ->
            Callback([c1 EXCEPT !.state = "client_ready_start"], accepts)
      [] OTHER -> c1

ClientSendsCrypto(c) == TlsReady(c) /\ Cwin > InTransit(c)
ClientHasNew(c, pc) ==
    \/ ClientSendsCrypto(c)
    \/ c.state # "client_almost_ready" /\ c.sp[pc].ack_needed

ClientNew(e, c, pc) ==
    \E accepts \in Answers(e) :
    LET crypto == IF ClientSendsCrypto(c) THEN NextCrypto(c, pc) ELSE 0
        c1 == IF crypto = 0 THEN c ELSE ClientProgress(c, pc, accepts)
    IN /\ ClientHasNew(c, pc)
       /\ Emit(e, [c1 EXCEPT !.response = FALSE], TypeOf(pc),
               [NoFrames EXCEPT
                   !.crypto = crypto,
                   !.ack = IF c.sp[pc].ack_needed THEN c.sp[pc].got ELSE {},
                   !.response = c.response])
       /\ UNCHANGED faults

(* picoquic_prepare_packet_0rtt, when there was nothing else to send.      *)
ClientEarlyData(e, c, pc) ==
    /\ "early" \in c.keys /\ "early" \in c.data
    /\ ~ClientHasNew(c, pc)
    /\ Emit(e, [c EXCEPT !.data = @ \ {"early"}], "0rtt",
            [NoFrames EXCEPT !.data = {"early"}])
    /\ UNCHANGED faults

ClientInit(e, c) ==
    LET pc == CurrentSpace(c) IN
    /\ c.state \in {"client_init", "client_init_sent", "client_handshake_start",
                    "client_almost_ready"}
    /\ \/ pc = "H" /\ OldContext(e, c, "I")
       \/ /\ pc = "H" => ~c.sp["I"].ack_needed
          /\ \/ /\ c.state \in {"client_init_sent", "client_handshake_start"}
                /\ Repeat(e, c, pc)
             \/ ClientNew(e, c, pc)
             \/ ClientEarlyData(e, c, pc)

-----------------------------------------------------------------------------
(* picoquic_prepare_packet_server_init.                                    *)

(* A full congestion window makes the server verify the path once.  Until  *)
(* the response the call sends a challenge when its timer is due, gives up *)
(* after the last one, and before that time sends the header alone.        *)
Blocked(c) == TlsReady(c) /\ Cwin <= InTransit(c) /\ c.challenges = 0

ServerChallenges(e, c, pc) ==
    \/ /\ c.challenges < ChallengeRepeatMax
       /\ Emit(e, [c EXCEPT !.challenges = @ + 1], TypeOf(pc),
               [NoFrames EXCEPT !.challenge = TRUE, !.ack = c.sp[pc].got])
    \/ /\ c.challenges >= ChallengeRepeatMax
       /\ Quiet(e, Disconnect(c, "close"))
    \/ /\ c.challenges > 0 /\ c.sp[pc].repeats < MaxRepeats
       /\ Emit(e, [c EXCEPT !.sp[pc].repeats = @ + 1], TypeOf(pc), NoFrames)

(* With client authentication the server waits for the client's flight     *)
(* before it uses 1-RTT keys.                                              *)
ServerProgress(c, pc, accepts) ==
    LET c1 == CryptoSent(c, pc) IN
    CASE c1.off[pc] < c1.len[pc] -> c1
      [] pc = "H" /\ mode # "auth" ->
            Callback([c1 EXCEPT !.state = "server_false_start"], accepts)
      [] OTHER -> [c1 EXCEPT !.state = "server_handshake"]

ServerNew(e, c, pc) ==
    \E accepts \in Answers(e) :
    LET crypto == NextCrypto(c, pc)
        c1 == IF crypto = 0 THEN c ELSE ServerProgress(c, pc, accepts)
    IN Emit(e, [c1 EXCEPT !.response = FALSE], TypeOf(pc),
            [NoFrames EXCEPT !.crypto = crypto, !.ack = c.sp[pc].got,
                             !.response = c.response])

ServerInit(e, c0) ==
    LET pc == CurrentSpace(c0)
        c == IF Blocked(c0) THEN [c0 EXCEPT !.verified = FALSE] ELSE c0
    IN
    /\ c.state \in {"server_init", "server_handshake"}
    /\ \/ pc = "H" /\ OldContext(e, c0, "I")
       \/ /\ pc = "H" => ~c.sp["I"].ack_needed
          /\ IF ~c.verified
             THEN ServerChallenges(e, c, pc) /\ UNCHANGED faults
             ELSE IF (TlsReady(c) /\ Cwin > InTransit(c)) \/ c.sp[pc].ack_needed
             THEN ServerNew(e, c, pc) /\ UNCHANGED faults
             ELSE Repeat(e, c, pc)

-----------------------------------------------------------------------------
(* picoquic_prepare_packet_ready.  The Initial and Handshake spaces are    *)
(* served until they are empty in the ready state.                         *)
HandshakeIdle(c) ==
    \A pc \in {"I", "H"} : ~c.sp[pc].ack_needed /\ c.sp[pc].queue = <<>>

SendsData(c) == c.data # {} /\ Cwin > InTransit(c)
ReadyHasNew(c) == SendsData(c) \/ c.response \/ c.sp["A"].ack_needed

ReadyNew(e, c) ==
    IF ReadyHasNew(c)
    THEN LET data == IF SendsData(c) THEN c.data ELSE {} IN
         Emit(e, [c EXCEPT !.data = @ \ data, !.response = FALSE], "1rtt",
              [NoFrames EXCEPT !.data = data, !.response = c.response,
                               !.ack = c.sp["A"].got])
    ELSE c # cnx[e] /\ Quiet(e, c)

Ready(e, c0) ==
    /\ c0.state \in {"server_false_start", "client_ready_start", "ready"}
    /\ \E accepts \in Answers(e) :
       LET c == IF c0.state = "server_false_start" /\ "dec" \in c0.keys
                THEN ReadyStateTransition(c0, accepts) ELSE c0
           done == c.state = "ready" /\ HandshakeIdle(c)
           c1 == [c EXCEPT !.finished = @ \/ done]
       IN \/ ~c.finished /\ OldContext(e, c, "I")
          \/ ~c.finished /\ ~c.sp["I"].ack_needed /\ OldContext(e, c, "H")
          \/ /\ \/ c.finished
                \/ ~c.sp["I"].ack_needed /\ ~c.sp["H"].ack_needed
             /\ \/ Repeat(e, c1, "A")
                \/ ReadyNew(e, c1) /\ UNCHANGED faults

-----------------------------------------------------------------------------
(* picoquic_prepare_packet_closing.                                        *)
CloseFrame(c) == IF c.error THEN "connection" ELSE "application"
Told(c) == [c EXCEPT !.told = @ \cup {"close"}]

SendClose(e, c, pc, next) ==
    Emit(e, [Told(c) EXCEPT !.state = next, !.sp[pc].ack_needed = FALSE],
         TypeOf(pc), [NoFrames EXCEPT !.ack = c.sp[pc].got,
                                      !.close = CloseFrame(c)])

Closing(e, c) ==
    /\ CASE c.state = "handshake_failure" ->
              IF "hs" \in c.keys /\ c.sp["H"].got # {}
              THEN SendClose(e, c, "H", "disconnected")
              ELSE SendClose(e, c, "I", IF "hs" \in c.keys
                                        THEN "handshake_failure_resend"
                                        ELSE "disconnected")
         [] c.state = "handshake_failure_resend" ->
              SendClose(e, c, "H", "disconnected")
         [] c.state = "disconnecting" -> SendClose(e, c, "A", "closing")
         [] c.state = "closing_received" ->
              Emit(e, [c EXCEPT !.state = "draining"], "1rtt",
                   [NoFrames EXCEPT !.close = "connection"])
         [] c.state = "closing" /\ c.sp["A"].ack_needed ->
              Emit(e, [c EXCEPT !.sp["A"].ack_needed = FALSE], "1rtt",
                   [NoFrames EXCEPT !.close = CloseFrame(c)])
         [] OTHER -> FALSE
    /\ UNCHANGED faults

(* picoquic_prepare_segment.  A call may find no packet to repeat and do   *)
(* no more than drop the pure acknowledgements it passed by.               *)
Prepare(e) ==
    LET c == cnx[e] IN
    /\ Exists(e)
    /\ \/ ClientInit(e, c) \/ ServerInit(e, c) \/ Ready(e, c) \/ Closing(e, c)
       \/ /\ c.state \notin Ended /\ Pruned(c) # c /\ \A x \in Ends : net[x] = <<>>
          /\ Quiet(e, Pruned(c)) /\ UNCHANGED faults
    /\ UNCHANGED <<mode, inst>>

(* The end of the closing and draining periods.                            *)
ClosingEnds(e) ==
    /\ Exists(e)
    /\ cnx[e].state \in {"closing", "draining"}
    /\ Quiet(e, [cnx[e] EXCEPT !.state = "disconnected"])
    /\ UNCHANGED <<mode, inst, faults>>

(* The silence and handshake timers of picoquic_prepare_segment, when the  *)
(* peer is gone for good and, with Timeouts, at any time.                  *)
Gone(e) == IF Exists(e) THEN cnx[e].state = "disconnected"
           ELSE e = "client" \/ inst > 0
Abandoned(e) == Gone(Peer(e)) /\ net[e] = <<>>
SilenceTimeout(e) ==
    /\ Exists(e)
    /\ (mode = "end" /\ Timeouts) \/ Abandoned(e)
    /\ Before(cnx[e], "disconnecting")
    /\ Quiet(e, Disconnect(cnx[e], "close"))
    /\ UNCHANGED <<mode, inst, faults>>

-----------------------------------------------------------------------------
(* The application.                                                        *)

(* picoquic_close, once.                                                   *)
PicoquicClose(e) ==
    LET c == cnx[e] IN
    /\ Exists(e) /\ mode = "end" /\ e \in Closers
    /\ Before(c, "disconnecting") /\ ~c.asked
    /\ Quiet(e, [c EXCEPT !.asked = TRUE,
                          !.state = IF @ \in {"ready", "server_false_start",
                                              "client_ready_start"}
                                    THEN "disconnecting"
                                    ELSE "handshake_failure"])
    /\ UNCHANGED <<mode, inst, faults>>

(* picoquic_delete_cnx, by the loop of the application once the connection *)
(* is disconnected.                                                        *)
Delete(e) ==
    /\ Exists(e)
    /\ cnx[e].state = "disconnected"
    /\ Quiet(e, NoContext)
    /\ UNCHANGED <<mode, inst, faults>>

-----------------------------------------------------------------------------
(* Receiving.                                                              *)

(* Fault: any packet of the application space shows that the peer has the  *)
(* keys, a 0-RTT packet too.                                               *)
FaultyConfirm(c, pc, ack, accepts) ==
    LET acked(q) == q.pn \in ack
        c1 == IF /\ c.state \in {"client_ready_start", "server_false_start"}
                 /\ pc = "A" /\ \E q \in Range(c.sp[pc].queue) : acked(q)
              THEN ReadyStateTransition(c, accepts) ELSE c
    IN [c1 EXCEPT !.sp[pc].queue = SelectSeq(@, LAMBDA q : ~acked(q))]

(* Fault: the acknowledgement makes the connection ready in any state.     *)
FaultyRevive(c, pc, ack, accepts) ==
    LET acked(q) == q.pn \in ack
        c1 == IF \E q \in Range(c.sp[pc].queue) : acked(q) /\ q.type = "1rtt"
              THEN ReadyStateTransition(c, accepts) ELSE c
    IN [c1 EXCEPT !.sp[pc].queue = SelectSeq(@, LAMBDA q : ~acked(q))]

(* picoquic_decode_ack_frame and picoquic_process_ack_range: a 1-RTT       *)
(* packet acknowledged shows that the peer has the keys.                   *)
DecodeAck(c, pc, ack, accepts) ==
    LET acked(q) == q.pn \in ack
        c1 == IF /\ c.state \in {"client_ready_start", "server_false_start"}
                 /\ \E q \in Range(c.sp[pc].queue) : acked(q) /\ q.type = "1rtt"
              THEN ReadyStateTransition(c, accepts) ELSE c
    IN [c1 EXCEPT !.sp[pc].queue = SelectSeq(@, LAMBDA q : ~acked(q))]

(* picoquic_decode_connection_close_frame and                              *)
(* picoquic_decode_application_close_frame.                                *)
ConnectionCloseState(c) ==
    IF Before(c, "client_ready_start") \/ "dec" \notin c.keys
    THEN "disconnected" ELSE "closing_received"
ApplicationCloseState(c) ==
    IF Before(c, "client_ready_start") THEN "disconnected" ELSE "closing_received"
DecodeClose(c, kind) ==
    [c EXCEPT !.state = IF kind = "connection" THEN ConnectionCloseState(c)
                        ELSE ApplicationCloseState(c),
              !.told = @ \cup {"close"}]

(* picoquic_decode_frames; an application close is not allowed before      *)
(* 1-RTT and makes the rest of the packet be ignored.                      *)
DecodeFrames(c, p, accepts) ==
    LET pc == SpaceOf(p.type)
        c1 == DecodeAck(c, pc, p.f.ack, accepts)
        c2 == IF p.f.crypto = 0 THEN c1
              ELSE [c1 EXCEPT !.rcvd[pc] = @ \cup {p.f.crypto}]
        c3 == [c2 EXCEPT !.read = @ \cup p.f.data,
                         !.response = @ \/ p.f.challenge,
                         !.verified = @ \/ p.f.response]
        eliciting == p.f.crypto # 0 \/ p.f.data # {} \/ p.f.close # "no"
    IN IF p.f.close = "application" /\ pc # "A"
       THEN [ok |-> FALSE, c |-> ConnectionError(c3)]
       ELSE LET c4 == IF p.f.close = "no" THEN c3 ELSE DecodeClose(c3, p.f.close)
            IN [ok |-> TRUE, c |-> [c4 EXCEPT !.sp[pc].ack_needed = @ \/ eliciting]]

(* picoquic_tls_stream_process around the external TLS library.            *)
TlsClient(c) ==
    LET c1 == IF Hello \in c.rcvd["I"] THEN [c EXCEPT !.keys = @ \cup {"hs"}] ELSE c
    IN IF c1.rcvd["H"] = 1..ServerParts /\ "enc" \notin c1.keys
       THEN [c1 EXCEPT !.keys = @ \cup {"enc", "dec"}, !.len["H"] = 1,
                       !.state = IF @ = "client_handshake_start"
                                 THEN "client_almost_ready" ELSE @]
       ELSE c1
TlsServer(c) ==
    LET c1 == IF Hello \in c.rcvd["I"] /\ "hs" \notin c.keys
              THEN [c EXCEPT !.keys = {"hs", "enc"}
                                      \cup (IF mode = "early" THEN {"early"} ELSE {}),
                             !.len = [I |-> 1, H |-> ServerParts]]
              ELSE c
    IN IF c1.rcvd["H"] # {} /\ "dec" \notin c1.keys
       THEN [c1 EXCEPT !.keys = @ \cup {"dec"},
                       !.state = IF @ = "server_handshake"
                                 THEN "server_false_start" ELSE @]
       ELSE c1

(* picoquic_record_pn_received, for a packet that was accepted.            *)
Record(c, p) ==
    IF c.state = "disconnected" THEN c
    ELSE [c EXCEPT !.sp[SpaceOf(p.type)].got = @ \cup {p.pn}]

(* An empty packet is a protocol violation; otherwise the frames are read. *)
Accept(c, p, accepts) ==
    IF p.f = NoFrames THEN [ok |-> FALSE, c |-> ConnectionError(c)]
    ELSE DecodeFrames(c, p, accepts)

(* picoquic_incoming_server_cleartext: Initial and Handshake packets at    *)
(* the client.  Once there are Handshake keys Initial packets are noted    *)
(* and not read, and the Initial sent is no longer needed.                 *)
ServerCleartext(c0, p, accepts) ==
    LET c == [c0 EXCEPT !.cid = p.cid,
                        !.state = IF @ = "client_init_sent"
                                  THEN "client_handshake_start" ELSE @]
        restricted == c.state # "client_handshake_start"
        d == Accept(c, p, accepts)
        t == IF restricted THEN d.c ELSE TlsClient(d.c)
    IN IF \/ c0.cid \notin {0, p.cid}
          \/ c0.cid = 0 /\ p.type # "initial" /\ restricted
       THEN c0
       ELSE IF \/ c.state = "ready"
               \/ /\ p.type = "initial" /\ "hs" \in c.keys
                  /\ c.state \in {"client_handshake_start", "client_almost_ready",
                                  "client_ready_start"}
       THEN Record(c, p)
       ELSE IF ~d.ok THEN d.c
       ELSE Record(IF ~restricted /\ "hs" \in t.keys THEN ImplicitHandshakeAck(t, "I")
                   ELSE t, p)

(* picoquic_incoming_client_handshake.                                     *)
ClientHandshake(c, p, accepts) ==
    LET d == Accept(c, p, accepts)
    IN IF c.state = "ready" THEN Record(c, p)
       ELSE IF c.state \in {"server_init", "server_handshake", "server_false_start"}
       THEN IF d.ok THEN Record(TlsServer(d.c), p) ELSE d.c
       ELSE c

(* picoquic_incoming_0rtt.                                                 *)
ZeroRtt(c, p, accepts) ==
    LET d == Accept(c, p, accepts)
    IN IF c.state = "server_false_start" \/ (c.state = "ready" /\ ~c.onertt)
       THEN IF d.ok THEN Record(TlsServer(d.c), p) ELSE d.c
       ELSE c

(* picoquic_incoming_encrypted.                                            *)
Encrypted(e, c, p, accepts) ==
    LET d == Accept([c EXCEPT !.onertt = TRUE], p, accepts)
        t == IF e = "client" THEN TlsClient(d.c) ELSE TlsServer(d.c)
    IN CASE Before(c, "client_almost_ready") -> c
         [] c.state = "closing" ->
              Record(IF p.f.close = "no" THEN [c EXCEPT !.sp["A"].ack_needed = TRUE]
                     ELSE [c EXCEPT !.state = IF e = "client" THEN "disconnected"
                                              ELSE "draining"], p)
         [] c.state \in {"closing_received", "draining", "disconnected"} -> c
         [] OTHER -> IF d.ok THEN Record(t, p) ELSE d.c

(* picoquic_remove_packet_protection: the packets the keys can open.       *)
Opens(c, p) ==
    CASE p.type = "initial" -> TRUE
      [] p.type = "handshake" -> "hs" \in c.keys
      [] p.type = "1rtt" -> "dec" \in c.keys
      [] OTHER -> "early" \in c.keys

(* picoquic_incoming_initial on a context; busy servers refuse.            *)
IncomingInitial(c, p, accepts) ==
    IF c.state = "ready" THEN Record(c, p)
    ELSE IF mode = "busy"
    THEN Record([c EXCEPT !.state = "handshake_failure", !.error = TRUE], p)
    ELSE LET d == DecodeFrames(c, p, accepts) IN
         IF d.ok THEN Record(TlsServer(d.c), p) ELSE d.c

(* picoquic_incoming_segment for a packet of an existing context: a packet *)
(* seen before is only acknowledged again.                                 *)
Handled(e, c, p, accepts) ==
    CASE ~Opens(c, p) -> c
      [] p.pn \in c.sp[SpaceOf(p.type)].got ->
            [c EXCEPT !.sp[SpaceOf(p.type)].ack_needed = TRUE]
      [] p.type = "1rtt" -> Encrypted(e, c, p, accepts)
      [] p.type = "0rtt" -> ZeroRtt(c, p, accepts)
      [] e = "client" -> ServerCleartext(c, p, accepts)
      [] p.type = "handshake" -> ClientHandshake(c, p, accepts)
      [] OTHER -> IncomingInitial(c, p, accepts)

(* Packets sent without a context: picoquic_prepare_version_negotiation,   *)
(* picoquic_queue_stateless_retry, picoquic_process_unexpected_cnxid.      *)
Stateless(type, n) == [type |-> type, pn |-> 0, cid |-> n, token |-> FALSE,
                       f |-> NoFrames]
VersionNegotiation == Stateless("vn", 0)
StatelessRetry == Stateless("retry", 0)
StatelessReset(p) == Stateless("reset", p.cid)

(* The server looks its context up by the identifier in the packet; the    *)
(* identifier the client made up leads to the context it created.          *)
Finds(e, p) ==
    /\ Exists(e)
    /\ \/ e = "client"
       \/ p.cid = 0 /\ p.token = cnx[e].token
       \/ p.cid = cnx[e].cid

(* The i-th packet on its way to an end is taken, or left there as well    *)
(* (it was duplicated), and out is sent back.                              *)
Consume(e, i, keep, out) ==
    net' = [net EXCEPT ![e] = IF keep THEN @ ELSE RemoveAt(@, i),
                       ![Peer(e)] = @ \o out]

(* An Initial that finds no context: version negotiation, Retry, or a new  *)
(* context, which is deleted again when the packet is in error.            *)
CreatesContext(p, i, keep) ==
    CASE mode = "version" ->
           /\ Consume("server", i, keep, <<VersionNegotiation>>)
           /\ UNCHANGED <<cnx, inst>>
      [] mode = "token" /\ ~p.token ->
           /\ Consume("server", i, keep, <<StatelessRetry>>)
           /\ UNCHANGED <<cnx, inst>>
      [] OTHER ->
           LET c == IncomingInitial(NewContext("server_init", inst + 1, p.token),
                                    p, TRUE)
               bad == p.f.close # "no" /\ mode # "busy"
           IN /\ cnx' = [cnx EXCEPT !["server"] = IF bad THEN @ ELSE c]
              /\ inst' = IF bad THEN inst ELSE inst + 1
              /\ Consume("server", i, keep, <<>>)

(* picoquic_process_unexpected_cnxid: a 1-RTT packet of an unknown         *)
(* connection is answered by a stateless reset, others are dropped.        *)
Unexpected(e, p, i, keep) ==
    /\ Consume(e, i, keep, IF e = "server" /\ p.type = "1rtt"
                           THEN <<StatelessReset(p)>> ELSE <<>>)
    /\ UNCHANGED <<cnx, inst>>

(* picoquic_reset_packet_context and picoquic_reset_cnx: packet numbers    *)
(* and 0-RTT packets are kept, the crypto stream starts again.             *)
ResetPacketContext(sp) == [sp EXCEPT !.queue = <<>>, !.got = {}]

(* Fault: the crypto stream is not started again.                          *)
FaultyResetCnx(c) ==
    [c EXCEPT !.sp = [pc \in Spaces |-> IF pc = "A" THEN @[pc]
                                        ELSE ResetPacketContext(@[pc])]]

ResetCnx(c) ==
    [c EXCEPT !.off = [I |-> 0, H |-> 0],
              !.sp = [pc \in Spaces |-> IF pc = "A" THEN @[pc]
                                        ELSE ResetPacketContext(@[pc])]]

(* picoquic_incoming_retry: the first Retry counts.                        *)
IncomingRetry(c) ==
    IF c.state = "client_init_sent" /\ ~c.token
    THEN ResetCnx([c EXCEPT !.token = TRUE]) ELSE c

(* picoquic_incoming_version_negotiation.                                  *)
IncomingVersionNegotiation(c) ==
    IF c.state = "client_init_sent" THEN Disconnect(c, "version_negotiation") ELSE c

(* picoquic_incoming_stateless_reset, when the secret is the one the       *)
(* server gave with its transport parameters.                              *)
IncomingStatelessReset(c, p) ==
    IF "enc" \in c.keys /\ p.cid = c.cid THEN Disconnect(c, "stateless_reset") ELSE c

IncomingStateless(c, p) ==
    CASE p.type = "retry" -> IncomingRetry(c)
      [] p.type = "vn" -> IncomingVersionNegotiation(c)
      [] OTHER -> IncomingStatelessReset(c, p)

(* picoquic_incoming_segment.                                              *)
Receive(e, i, keep) ==
    LET p == net[e][i] IN
    /\ IF Finds(e, p)
       THEN /\ \E accepts \in Answers(e) :
                  cnx' = [cnx EXCEPT ![e] =
                             IF p.type \in {"retry", "vn", "reset"}
                             THEN IncomingStateless(@, p)
                             ELSE Handled(e, @, p, accepts)]
            /\ Consume(e, i, keep, <<>>)
            /\ UNCHANGED inst
       ELSE IF e = "server" /\ p.type = "initial" /\ p.cid = 0
       THEN CreatesContext(p, i, keep)
       ELSE Unexpected(e, p, i, keep)
    /\ UNCHANGED mode

-----------------------------------------------------------------------------
(* The network delivers in order, except for the packets it loses,         *)
(* duplicates or lets overtake others.                                     *)
Deliver(e) == net[e] # <<>> /\ Receive(e, 1, FALSE) /\ UNCHANGED faults
Overtake(e) == \E i \in 2..Len(net[e]) : Receive(e, i, FALSE) /\ Fault
Duplicate(e) == net[e] # <<>> /\ Receive(e, 1, TRUE) /\ Fault
Lose(e) ==
    /\ net[e] # <<>>
    /\ net' = [net EXCEPT ![e] = Tail(@)]
    /\ Fault
    /\ UNCHANGED <<cnx, mode, inst>>

Next ==
    \E e \in Ends :
        \/ Prepare(e) \/ ClosingEnds(e) \/ SilenceTimeout(e)
        \/ PicoquicClose(e) \/ Delete(e)
        \/ Deliver(e) \/ Overtake(e) \/ Duplicate(e) \/ Lose(e)

Spec == Init /\ [][Next]_vars

(* Calls are made, packets arrive and periods end as long as there is one  *)
(* that can; the timers that give up are only counted on when the peer is  *)
(* gone.                                                                   *)
SilenceAfter(e) == Abandoned(e) /\ SilenceTimeout(e)
Progress == \E e \in Ends : \/ Prepare(e) \/ Deliver(e)
                            \/ ClosingEnds(e) \/ SilenceAfter(e)
Fairness == WF_vars(Progress)
LiveSpec == Spec /\ Fairness

-----------------------------------------------------------------------------
(* Properties.                                                             *)

(* A part of a crypto stream that was sent and that the peer's context     *)
(* still lacks is in the queue of its space, to be repeated: neither an    *)
(* acknowledgement, nor the implicit one of the state transitions, nor the *)
(* reset of a Retry takes away what the handshake needs.                   *)
Lacks(e, pc, x) ==
    LET c == cnx[e]
        d == cnx[Peer(e)]
    IN IF Exists(Peer(e))
       THEN d.state \notin Ended /\ c.cid \in {0, d.cid} /\ x \notin d.rcvd[pc]
       ELSE e = "client" /\ inst = 0
CryptoNotForgotten ==
    \A e \in Ends, pc \in {"I", "H"} :
        Exists(e) /\ cnx[e].state \notin Ended =>
            \A x \in 1..cnx[e].off[pc] :
                Lacks(e, pc, x) =>
                    \E q \in Range(cnx[e].sp[pc].queue) : q.crypto = x

(* The client is in the ready state only when the server it talks to has   *)
(* the client's Finished: acknowledged 0-RTT packets do not count.         *)
HandshakeConfirmed ==
    (Exists("client") /\ cnx["client"].state = "ready"
     /\ Exists("server") /\ cnx["server"].cid = cnx["client"].cid)
        => "dec" \in cnx["server"].keys

(* A context that began to end, by an error, a close or a timer, never     *)
(* goes back to an open state, whatever late packets arrive, and does not  *)
(* reach the disconnected state without a callback that says so: close,    *)
(* stateless reset or version negotiation.                                 *)
EndIsFinal ==
    [][\A e \in Ends :
         /\ Exists(e) /\ cnx[e].state \in Ended => cnx'[e].state \in Ended
         /\ Exists(e)' /\ cnx'[e].state = "disconnected" => cnx'[e].told # {}]_vars

(* A connection settles, although packets are lost, duplicated and         *)
(* overtaken: both ends become ready and read each other's data or, when   *)
(* it fails or somebody ends it, at any time, both are disconnected, even  *)
(* if the close cannot be read (sender.c:2148-2365, packet.c:853-905).     *)
AllData(e) == {"frames"} \cup (IF e = "server" /\ Early THEN {"early"} ELSE {})
ConnectionSettles ==
    []<>(\/ \A e \in Ends : cnx[e].state = "ready" /\ cnx[e].read = AllData(e)
         \/ \A e \in Ends : cnx[e].state = "disconnected")
=============================================================================
