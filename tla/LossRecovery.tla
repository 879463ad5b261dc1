---------------------------- MODULE LossRecovery ----------------------------
(***************************************************************************)
(* Loss recovery in the application packet number space: sending, ACK      *)
(* processing, retransmission, and the acknowledgement of ACK frames, at   *)
(* both ends of a connection and over a network that loses, duplicates and *)
(* reorders (sender.c:697-1278 and 2422-2825, frames.c:1891-2820,          *)
(* packet.c:1656-1941).                                                    *)
(*                                                                         *)
(* A frame is a name.  Stream frames are remembered when acknowledged and  *)
(* then not repeated (frames.c:2264-2280); the others stand for the frames *)
(* that are always repeated.  The retransmit queue is the set of its       *)
(* packets: the queue is in packet number order, since packets enter at    *)
(* its end with the next number.  The list of received numbers is the set  *)
(* it stands for, pruned as SackSet.tla allows; SackList.tla implements    *)
(* that.  Clocks are abstracted: a timer may have expired or not.          *)
(***************************************************************************)
EXTENDS Integers, FiniteSets

CONSTANTS ClientFrames, ServerFrames,  \* what each end has to send
          StreamFrames,                \* those that are stream frames
          Duplicates,          \* the network may deliver a packet repeatedly
          MaxLosses,           \* bound on explicit losses, when it may not
          MaxSpurious,         \* bound on timers that expire too early
          MaxPn,               \* bound on the packets an end sends
          Holes,               \* sequence_hole_pseudo_period is set
          Probers,             \* ends that send MTU probes
          MaxRetransmissions,  \* PICOQUIC_MAX_RETRANSMISSIONS, 1000
          AckGap,              \* 8, frames.c:2814
          PingGap              \* 64, sender.c:2741

ASSUME FramesAssumption ==
    /\ "ping" \notin ClientFrames \cup ServerFrames
    /\ StreamFrames \subseteq ClientFrames \cup ServerFrames
ASSUME SwitchesAssumption ==
    Duplicates \in BOOLEAN /\ Holes \in BOOLEAN
    /\ Probers \subseteq {"client", "server"}
ASSUME BoundsAssumption ==
    /\ MaxLosses \in Nat /\ MaxSpurious \in Nat /\ MaxPn \in Nat
    /\ MaxRetransmissions \in Nat /\ AckGap \in Nat /\ PingGap \in Nat

VARIABLES
  state,                 \* "ready", "disconnecting" or "disconnected"
  todo,                  \* frames waiting to be sent
  send_sequence,
  retransmit,            \* the packets sent and not acknowledged
  retransmitted,         \* those repeated, kept to detect spurious repeats
  in_transit,            \* bytes_in_transit, counted in packets
  highest_acknowledged,  \* -1 at first
  nb_retransmit,
  ack_of_ack_requested,
  acked,                 \* stream frames whose bytes are acknowledged
  sacked,                \* packet numbers received and not pruned
  ack_needed,
  highest_ack_sent,
  delivered,             \* frames handed to the receiving application
  net,                   \* packets under way to an end
  losses, spurious,      \* counters for the bounds
  processed,             \* history: every packet number ever processed
  told                   \* history: every number in a processed ACK frame

sending   == <<send_sequence, retransmit, retransmitted, in_transit>>
acking    == <<highest_acknowledged, ack_of_ack_requested, acked>>
receiving == <<sacked, delivered, processed, told>>
vars == <<state, todo, sending, acking, nb_retransmit, receiving, ack_needed,
          highest_ack_sent, net, losses, spurious>>

Ends == {"client", "server"}
Peer(e) == IF e = "client" THEN "server" ELSE "client"
FramesOf(e) == IF e = "client" THEN ClientFrames ELSE ServerFrames

(* A packet in a queue or on the network.  A trap is a number left out on  *)
(* purpose; a probe is padded to a larger MTU.                             *)
Packet == [pn : Nat, kind : {"data", "trap", "probe"},
           frames : SUBSET (ClientFrames \cup ServerFrames \cup {"ping"}),
           ack : SUBSET Nat]

Largest(S) == CHOOSE n \in S : \A k \in S : k <= n
EndOfSack(e) == IF sacked[e] = {} THEN 0 ELSE Largest(sacked[e])

InTransit(packets) == Cardinality({p \in packets : p.kind # "trap"})

-----------------------------------------------------------------------------
Init ==
    /\ state = [e \in Ends |-> "ready"]
    /\ todo = [e \in Ends |-> FramesOf(e)]
    /\ send_sequence = [e \in Ends |-> 0]
    /\ retransmit = [e \in Ends |-> {}]
    /\ retransmitted = [e \in Ends |-> {}]
    /\ in_transit = [e \in Ends |-> 0]
    /\ highest_acknowledged = [e \in Ends |-> -1]
    /\ nb_retransmit = [e \in Ends |-> 0]
    /\ ack_of_ack_requested = [e \in Ends |-> FALSE]
    /\ acked = [e \in Ends |-> {}]
    /\ sacked = [e \in Ends |-> {}]
    /\ ack_needed = [e \in Ends |-> FALSE]
    /\ highest_ack_sent = [e \in Ends |-> 0]
    /\ delivered = [e \in Ends |-> {}]
    /\ net = [e \in Ends |-> {}]
    /\ losses = 0
    /\ spurious = [e \in Ends |-> 0]
    /\ processed = [e \in Ends |-> {}]
    /\ told = [e \in Ends |-> {}]

-----------------------------------------------------------------------------
(* Sending.                                                                *)

(* picoquic_insert_hole_in_send_sequence_if_needed: the queue and the next *)
(* number after it, when it does insert.                                   *)
Trap(n) == [pn |-> n, kind |-> "trap", frames |-> {}, ack |-> {}]

MayInsertHole(e) ==
    /\ Holes
    /\ retransmit[e] # {}
    /\ \A p \in retransmit[e] : p.kind = "trap" => p.pn + 1 # send_sequence[e]

Queue(e, hole) ==
    IF hole THEN retransmit[e] \cup {Trap(send_sequence[e])} ELSE retransmit[e]

(* Faulty variant: a hole does not use up its number.                      *)
NextPnOfHole(e, hole) == IF hole THEN send_sequence[e] ELSE send_sequence[e]

NextPn(e, hole) == IF hole THEN send_sequence[e] + 1 ELSE send_sequence[e]

(* The network still has the packet, or its acknowledgement, or the peer   *)
(* is about to send one: the timer of the packet would be early.           *)
Early(e, p) ==
    \/ \E m \in net[Peer(e)] : m.pn = p.pn
    \/ \E m \in net[e] : p.pn \in m.ack
    \/ p.pn \in sacked[Peer(e)] /\ ack_needed[Peer(e)]

(* picoquic_retransmit_needed walks from the oldest packet and stops at    *)
(* the first that is not lost.                                             *)
LostUpTo(queue, n) == {p \in queue : p.pn <= n}
Points(queue) == {-1} \cup {p.pn : p \in queue}

(* Faulty variant: only a later acknowledgement reveals a loss.            *)
ExpireRackOnly(e, lost) ==
    /\ \A p \in lost : highest_acknowledged[e] > p.pn
    /\ UNCHANGED spurious

Expire(e, lost) ==
    LET early == {p \in lost : p.kind # "trap" /\ Early(e, p)} IN
    /\ spurious[e] + Cardinality(early) <= MaxSpurious
    /\ spurious' = [spurious EXCEPT ![e] = @ + Cardinality(early)]

(* The frames that picoquic_copy_before_retransmit copies.                 *)
ToRepeat(e, p) == IF p.kind = "data" THEN p.frames \ acked[e] ELSE {}

(* picoquic_prepare_ack_frame.                                             *)
PrepareAckFrame(e) ==
    /\ ack_needed' = [ack_needed EXCEPT ![e] = FALSE]
    /\ highest_ack_sent' = [highest_ack_sent EXCEPT
                              ![e] = IF sacked[e] = {} THEN @ ELSE EndOfSack(e)]

(* Faulty variant: the charge of dequeued packets is not taken back.       *)
FinalizeKeepsCharge(e, hole, kept, repeated, kind, frames, ack) ==
    LET n == NextPn(e, hole)
        p == [pn |-> n, kind |-> kind, frames |-> frames, ack |-> ack]
    IN
    /\ n <= MaxPn
    /\ send_sequence' = [send_sequence EXCEPT ![e] = n + 1]
    /\ retransmit' = [retransmit EXCEPT ![e] = kept \cup {p}]
    /\ in_transit' = [in_transit EXCEPT ![e] = @ + 1]
    /\ retransmitted' = [retransmitted EXCEPT ![e] = @ \cup repeated]
    /\ net' = [net EXCEPT ![Peer(e)] = @ \cup {p}]

(* picoquic_finalize_and_protect_packet and picoquic_queue_for_retransmit, *)
(* after the packets not in `kept` were dequeued, those in `repeated` to   *)
(* the retransmitted list.                                                 *)
Finalize(e, hole, kept, repeated, kind, frames, ack) ==
    LET n == NextPn(e, hole)
        p == [pn |-> n, kind |-> kind, frames |-> frames, ack |-> ack]
    IN
    /\ n <= MaxPn
    /\ send_sequence' = [send_sequence EXCEPT ![e] = n + 1]
    /\ retransmit' = [retransmit EXCEPT ![e] = kept \cup {p}]
    /\ in_transit' = [in_transit EXCEPT
                        ![e] = @ + 1 - InTransit(retransmit[e] \ kept)]
    /\ retransmitted' = [retransmitted EXCEPT ![e] = @ \cup repeated]
    /\ net' = [net EXCEPT ![Peer(e)] = @ \cup {p}]

(* Nothing to send after all.                                              *)
SendNothing(e, hole, kept, repeated) ==
    /\ NextPn(e, hole) <= MaxPn
    /\ send_sequence' = [send_sequence EXCEPT ![e] = NextPn(e, hole)]
    /\ retransmit' = [retransmit EXCEPT ![e] = kept]
    /\ in_transit' = [in_transit EXCEPT
                        ![e] = @ - InTransit(retransmit[e] \ kept)]
    /\ retransmitted' = [retransmitted EXCEPT ![e] = @ \cup repeated]
    /\ UNCHANGED net

(* Lost packets with nothing to repeat are freed, except that probes stay  *)
(* on the retransmitted list.                                              *)
NothingToRepeat(e, lost) == \A p \in lost : ToRepeat(e, p) = {}
ProbesIn(lost) == {p \in lost : p.kind = "probe"}

(* picoquic_is_ack_needed; when the ACK delay decides, it may or may not   *)
(* have elapsed.                                                           *)
AckChoices(e) ==
    LET must == ack_needed[e] /\ highest_ack_sent[e] + 2 <= EndOfSack(e)
        may  == ack_needed[e] \/ highest_ack_sent[e] + AckGap <= EndOfSack(e)
    IN  (IF may THEN {TRUE} ELSE {}) \cup (IF must THEN {} ELSE {FALSE})

(* Among many unacknowledged ACKs, ask for an acknowledgement.             *)
MayPing(e, hole, frames) ==
    /\ frames \cap StreamFrames = {}
    /\ highest_acknowledged[e] + PingGap < NextPn(e, hole)
    /\ ~ack_of_ack_requested[e]

(* picoquic_prepare_packet in the ready state, when nothing is repeated: a *)
(* packet with waiting frames and perhaps an ACK, as the congestion window *)
(* and the packet size allow; else an MTU probe; else nothing.             *)
PrepareNew(e) ==
    /\ state[e] = "ready"
    /\ \E hole \in {FALSE} \cup (IF MayInsertHole(e) THEN {TRUE} ELSE {}),
          n \in Points(retransmit[e]) :
         LET lost == LostUpTo(retransmit[e], n)
             kept == Queue(e, hole) \ lost
         IN
         /\ NothingToRepeat(e, lost)
         /\ Expire(e, lost)
         /\ \/ \E frames \in SUBSET todo[e], withAck \in AckChoices(e),
                  ping \in BOOLEAN :
                 LET ack == IF withAck THEN sacked[e] ELSE {} IN
                 /\ frames # {} \/ ack # {}
                 /\ ping => MayPing(e, hole, frames)
                 /\ Finalize(e, hole, kept, ProbesIn(lost), "data",
                             frames \cup (IF ping THEN {"ping"} ELSE {}), ack)
                 /\ todo' = [todo EXCEPT ![e] = @ \ frames]
                 /\ IF withAck THEN PrepareAckFrame(e)
                               ELSE UNCHANGED <<ack_needed, highest_ack_sent>>
                 /\ ack_of_ack_requested' =
                      [ack_of_ack_requested EXCEPT ![e] = @ \/ ping]
            \/ /\ e \in Probers
               /\ todo[e] = {}
               /\ ProbesIn(kept) = {}
               /\ Finalize(e, hole, kept, ProbesIn(lost), "probe", {"ping"}, {})
               /\ UNCHANGED <<todo, ack_needed, highest_ack_sent,
                              ack_of_ack_requested>>
            \/ /\ hole \/ lost # {}
               /\ SendNothing(e, hole, kept, ProbesIn(lost))
               /\ UNCHANGED <<todo, ack_needed, highest_ack_sent,
                              ack_of_ack_requested>>
    /\ UNCHANGED <<state, nb_retransmit, highest_acknowledged, acked,
                   receiving, losses>>

(* delta_seq <= 0: nothing sent later was acknowledged.                    *)
TimerBased(e, p) == highest_acknowledged[e] <= p.pn

(* Faulty variant: what does not fit in the new packet is dropped.         *)
OverflowDropped(e, p, copied) == todo[e] \cup (copied \ p.frames)

(* Frames that do not fit in the new packet, on a path with a smaller MTU, *)
(* wait as misc frames.                                                    *)
Overflow(e, p, copied) == todo[e] \cup (ToRepeat(e, p) \ copied)

(* picoquic_prepare_packet, when packet p is repeated: older lost packets  *)
(* have nothing to repeat, the repetition carries an ACK, and too many     *)
(* timeouts in a row end the connection.                                   *)
PrepareRepeat(e) ==
    /\ state[e] = "ready"
    /\ \E hole \in {FALSE} \cup (IF MayInsertHole(e) THEN {TRUE} ELSE {}),
          p \in retransmit[e] :
         LET lost == LostUpTo(retransmit[e], p.pn)
             kept == Queue(e, hole) \ lost
             repeated == ProbesIn(lost) \cup {p}
         IN
         /\ ToRepeat(e, p) # {}
         /\ NothingToRepeat(e, lost \ {p})
         /\ Expire(e, lost)
         /\ \E copied \in SUBSET ToRepeat(e, p) \ {{}} :
              /\ todo' = [todo EXCEPT ![e] = Overflow(e, p, copied)]
              /\ \/ /\ TimerBased(e, p)
                    /\ nb_retransmit[e] > MaxRetransmissions
                    /\ state' = [state EXCEPT ![e] = "disconnected"]
                    /\ SendNothing(e, hole, kept, repeated)
                    /\ UNCHANGED <<nb_retransmit, ack_needed, highest_ack_sent>>
                 \/ /\ ~(TimerBased(e, p) /\ nb_retransmit[e] > MaxRetransmissions)
                    /\ nb_retransmit' =
                         [nb_retransmit EXCEPT
                            ![e] = IF TimerBased(e, p) THEN @ + 1 ELSE @]
                    /\ PrepareAckFrame(e)
                    /\ Finalize(e, hole, kept, repeated, "data", copied,
                                sacked[e])
                    /\ UNCHANGED state
    /\ UNCHANGED <<acking, receiving, losses>>

-----------------------------------------------------------------------------
(* Receiving.                                                              *)

(* A larger number than any acknowledged so far.                           *)
Fresh(e, ack) == \E n \in ack : n > highest_acknowledged[e]

(* Faulty variant: everything up to the largest number is taken for        *)
(* acknowledged.                                                           *)
ReachedUpToLargest(e, ack, recent) ==
    {p \in retransmit[e] : ack # {} /\ p.pn <= Largest(ack) /\ recent}

(* The queued packets that picoquic_process_ack_range finds acknowledged.  *)
(* Its walk towards older packets starts where picoquic_update_rtt left    *)
(* off: at the largest number acknowledged when that is fresh and recent   *)
(* (ack_delay < PICOQUIC_ACK_DELAY_MAX), and otherwise at the oldest.      *)
Reached(e, ack, recent) ==
    {p \in retransmit[e] : /\ p.pn \in ack
                           /\ \/ Fresh(e, ack) /\ recent
                              \/ \A q \in retransmit[e] : p.pn <= q.pn}

Sprung(reached) == {p \in reached : p.kind = "trap"}

(* Acknowledged packets above a trap are dequeued before it springs.       *)
Cleared(reached) ==
    {p \in reached : \A t \in Sprung(reached) : p.pn > t.pn}

(* Numbers that the acknowledgement of ACK frames may prune.               *)
Prunable(e, cleared) ==
    (UNION {p.ack : p \in cleared}) \cap (sacked[e] \ {EndOfSack(e)})

(* An ACK of a number not sent yet is an error, and is not processed.      *)
Acceptable(e, ack) == \A n \in ack : n < send_sequence[e]

(* picoquic_decode_ack_frame_maybe_ecn.  Of the retransmitted list, the    *)
(* acknowledged packets are spurious repeats; `old` ones time out.         *)
DecodeAckFrame(e, ack, cleared, old) ==
    /\ highest_acknowledged' =
         [highest_acknowledged EXCEPT ![e] = IF Fresh(e, ack) THEN Largest(ack)
                                                              ELSE @]
    /\ ack_of_ack_requested' =
         [ack_of_ack_requested EXCEPT ![e] = @ /\ ~Fresh(e, ack)]
    /\ retransmit' = [retransmit EXCEPT ![e] = @ \ cleared]
    /\ in_transit' = [in_transit EXCEPT ![e] = @ - InTransit(cleared)]
    /\ retransmitted' =
         [retransmitted EXCEPT ![e] = {p \in @ \ old : p.pn \notin ack}]
    /\ nb_retransmit' =
         [nb_retransmit EXCEPT ![e] = IF cleared = {} THEN @ ELSE 0]
    /\ acked' = [acked EXCEPT
                   ![e] = @ \cup (StreamFrames \cap
                                    UNION {p.frames : p \in cleared})]
    /\ told' = [told EXCEPT ![e] = @ \cup ack]

(* Faulty variant: the number after the packet's is recorded.              *)
RecordNextPn(e, m, pruned) ==
    /\ sacked' = [sacked EXCEPT ![e] = (@ \ pruned) \cup {m.pn + 1}]
    /\ processed' = [processed EXCEPT ![e] = @ \cup {m.pn}]

(* picoquic_record_pn_received.                                            *)
RecordPnReceived(e, m, pruned) ==
    /\ sacked' = [sacked EXCEPT ![e] = (@ \ pruned) \cup {m.pn}]
    /\ processed' = [processed EXCEPT ![e] = @ \cup {m.pn}]

TakeFromNet(e, m) ==
    net' = [net EXCEPT ![e] = IF Duplicates THEN @ ELSE @ \ {m}]

(* picoquic_incoming_segment: duplicates are only acknowledged again.      *)
IncomingDuplicate(e) ==
    /\ state[e] = "ready"
    /\ \E m \in net[e] :
         /\ m.pn \in sacked[e]
         /\ TakeFromNet(e, m)
         /\ ack_needed' = [ack_needed EXCEPT ![e] = TRUE]
    /\ UNCHANGED <<state, todo, sending, acking, nb_retransmit, receiving,
                   highest_ack_sent, losses, spurious>>

(* A packet that was not received yet, as far as the list tells.  A bad    *)
(* ACK is a connection error, and the packet is dropped.                   *)
IncomingPacket(e) ==
    /\ state[e] = "ready"
    /\ \E m \in net[e], recent \in BOOLEAN, old \in SUBSET retransmitted[e] :
         LET ack     == IF Acceptable(e, m.ack) THEN m.ack ELSE {}
             reached == Reached(e, ack, recent)
             cleared == Cleared(reached)
         IN
         /\ m.pn \notin sacked[e]
         /\ m.ack = {} => recent /\ old = {}
         /\ TakeFromNet(e, m)
         /\ DecodeAckFrame(e, ack, cleared, old)
         /\ \E pruned \in SUBSET Prunable(e, cleared) :
              IF Acceptable(e, m.ack) /\ Sprung(reached) = {}
              THEN /\ RecordPnReceived(e, m, pruned)
                   /\ delivered' = [delivered EXCEPT
                                      ![e] = @ \cup (m.frames \ {"ping"})]
                   /\ ack_needed' = [ack_needed EXCEPT ![e] = @ \/ m.frames # {}]
                   /\ UNCHANGED state
              ELSE /\ state' = [state EXCEPT ![e] = "disconnecting"]
                   /\ sacked' = [sacked EXCEPT ![e] = @ \ pruned]
                   /\ UNCHANGED <<processed, delivered, ack_needed>>
    /\ UNCHANGED <<todo, send_sequence, highest_ack_sent, losses, spurious>>

Lose(e) ==
    /\ ~Duplicates
    /\ losses < MaxLosses
    /\ losses' = losses + 1
    /\ \E m \in net[e] : net' = [net EXCEPT ![e] = @ \ {m}]
    /\ UNCHANGED <<state, todo, sending, acking, nb_retransmit, receiving,
                   ack_needed, highest_ack_sent, spurious>>

-----------------------------------------------------------------------------
Next == \E e \in Ends : \/ PrepareNew(e)
                        \/ PrepareRepeat(e)
                        \/ IncomingPacket(e)
                        \/ IncomingDuplicate(e)
                        \/ Lose(e)

Spec == Init /\ [][Next]_vars

(* An end that has something to do is woken up (picoquic_reinsert_by_wake_ *)
(* time, at the end of both handlers), and the network does not hold       *)
(* packets back for ever.                                                  *)
FairSpec == Spec /\ \A e \in Ends : /\ WF_vars(PrepareNew(e))
                                    /\ WF_vars(PrepareRepeat(e))
                                    /\ WF_vars(IncomingPacket(e))
                                    /\ WF_vars(IncomingDuplicate(e))

-----------------------------------------------------------------------------
(* Properties.                                                             *)

CoreTypes ==
    /\ state \in [Ends -> {"ready", "disconnecting", "disconnected"}]
    /\ todo \in [Ends -> SUBSET (ClientFrames \cup ServerFrames \cup {"ping"})]
    /\ send_sequence \in [Ends -> Nat]
    /\ retransmit \in [Ends -> SUBSET Packet]
    /\ retransmitted \in [Ends -> SUBSET Packet]
    /\ acked \in [Ends -> SUBSET StreamFrames]
    /\ sacked \in [Ends -> SUBSET Nat]
    /\ delivered \in [Ends -> SUBSET (ClientFrames \cup ServerFrames)]
    /\ net \in [Ends -> SUBSET Packet]
    /\ processed \in [Ends -> SUBSET Nat]
    /\ told \in [Ends -> SUBSET Nat]

TypeOK ==
    /\ CoreTypes
    /\ in_transit \in [Ends -> Int]
    /\ highest_acknowledged \in [Ends -> Int]
    /\ nb_retransmit \in [Ends -> Nat]
    /\ ack_of_ack_requested \in [Ends -> BOOLEAN]
    /\ ack_needed \in [Ends -> BOOLEAN]
    /\ highest_ack_sent \in [Ends -> Nat]
    /\ losses \in Nat
    /\ spurious \in [Ends -> Nat]

(* An ACK never covers a packet that the other end has not processed, so   *)
(* what is dequeued as acknowledged was received (frames.c:2459).          *)
AcksAreTruthful == \A e \in Ends : told[e] \subseteq processed[Peer(e)]

(* A frame stays with its sender, waiting or in a packet that may yet be   *)
(* repeated, until the other end has it: whatever was lost, repeated in    *)
(* part, or acknowledged late (sender.c:1012, frames.c:2249).              *)
NoFrameForgotten ==
    \A e \in Ends : state[e] = "ready" =>
        \A f \in FramesOf(e) : \/ f \in todo[e]
                               \/ \E p \in retransmit[e] : f \in p.frames
                               \/ f \in delivered[Peer(e)]

(* A number is pruned from the received list only when the sender of the   *)
(* packet has processed an ACK of it (frames.c:2126).                      *)
PrunedWereAcknowledged ==
    \A e \in Ends : processed[e] \ sacked[e] \subseteq told[Peer(e)]

(* A packet number is used for one packet only, since it makes the nonce   *)
(* of the packet's encryption: never for a repetition, nor after a hole    *)
(* (sender.c:863, 1149).                                                   *)
NumbersAreUnique ==
    \A e \in Ends : \A m, k \in net[e] : m.pn = k.pn => m = k

(* Ends that follow the protocol never acknowledge a hole left in the      *)
(* sequence, nor a number not sent yet: the traps for optimistic           *)
(* acknowledgements (sender.c:817) do not catch them.                      *)
TrapsSpareHonestPeers == \A e \in Ends : state[e] # "disconnecting"

(* bytes_in_transit accounts for the packets in the queue, traps excepted, *)
(* after any mix of acknowledgements and repetitions (sender.c:715, 752).  *)
InTransitIsQueue == \A e \in Ends : in_transit[e] = InTransit(retransmit[e])

(* The inductive invariant.  What end e has sent, and what end r knows of  *)
(* it: numbers are used once, ACKs list what was processed, the content of *)
(* a processed packet has taken effect, and no frame is left out           *)
(* (sender.c:697-1278, frames.c:2459-2624).                                *)
Books(e, r) ==
    /\ \A p \in retransmit[e] \cup net[r] :
         /\ p.pn < send_sequence[e]
         /\ p.frames \subseteq FramesOf(e) \cup {"ping"}
         /\ p.ack \subseteq processed[e]
         /\ p.kind # "data" => p.frames \subseteq {"ping"}
    /\ \A m \in net[r] :
         /\ m.kind # "trap"
         /\ \A p \in retransmit[e] \cup net[r] : p.pn = m.pn => p = m
    /\ \A p \in retransmit[e] : p.pn \in processed[r] =>
         /\ p.kind # "trap"
         /\ p.frames \ {"ping"} \subseteq delivered[r]
         /\ p.ack \subseteq told[r]
    /\ \A n \in processed[r] : n < send_sequence[e]
    /\ todo[e] \subseteq FramesOf(e) \cup {"ping"}
    /\ acked[e] \subseteq delivered[r]
    /\ delivered[r] \subseteq FramesOf(e)
    /\ sacked[e] \subseteq processed[e]
    /\ told[e] \subseteq processed[r]
    /\ processed[e] \ sacked[e] \subseteq told[r]
    /\ state[e] # "disconnecting"
    /\ state[e] = "ready" =>
         \A f \in FramesOf(e) : \/ f \in todo[e]
                                \/ \E p \in retransmit[e] : f \in p.frames
                                \/ f \in delivered[r]

Bookkeeping == CoreTypes /\ \A e \in Ends : Books(e, Peer(e))

(* With the books, the inductive invariant for the count of the packets in *)
(* transit: a queue is finite, so that counting it means something.        *)
Charged ==
    /\ in_transit \in [Ends -> Int]
    /\ \A e \in Ends : /\ IsFiniteSet(retransmit[e])
                       /\ in_transit[e] = InTransit(retransmit[e])

(* Every frame is delivered, unless an end gives up after too many         *)
(* timeouts (sender.c:1213).                                               *)
EveryFrameDelivered ==
    \A e \in Ends : \A f \in FramesOf(e) :
        <>(f \in delivered[Peer(e)] \/ \E x \in Ends : state[x] # "ready")

(* Refinement: loss recovery implements the frame service, an end          *)
(* answering for the frames that wait or are in a packet of its queue      *)
(* (sender.c:697-1278, frames.c:2459).                                     *)
Held(e) ==
    IF state[e] = "ready"
    THEN (todo[e] \cup UNION {p.frames : p \in retransmit[e]}) \ {"ping"}
    ELSE {}

Service == INSTANCE FrameService WITH
             held   <- [e \in Ends |-> Held(e)],
             got    <- [e \in Ends |-> delivered[Peer(e)]],
             failed <- [e \in Ends |-> state[e] # "ready"]

ImplementsFrameService == Service!Spec
=============================================================================
