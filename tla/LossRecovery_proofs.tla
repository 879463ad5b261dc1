------------------------- MODULE LossRecovery_proofs -------------------------
(***************************************************************************)
(* Proofs that loss recovery is safe for every set of frames, every number *)
(* of packets, and every order of losses, repetitions and timeouts.        *)
(***************************************************************************)
EXTENDS LossRecovery, FiniteSetTheorems, TLAPS

(* Each end is the other's peer.                                           *)
LEMMA Peers ==
  ASSUME NEW e \in Ends
  PROVE  Peer(e) \in Ends /\ Peer(e) # e /\ Peer(Peer(e)) = e /\ Ends = {e, Peer(e)}
BY DEF Ends, Peer

(* The sets of frames are disjoint from "ping".                            *)
LEMMA Pings ==
  ASSUME NEW e \in Ends
  PROVE  /\ FramesOf(e) \subseteq ClientFrames \cup ServerFrames
         /\ "ping" \notin FramesOf(e)
BY FramesAssumption DEF FramesOf

(* The invariant, spelled out for one end and its peer.                    *)
LEMMA BooksOfBoth ==
  ASSUME NEW e \in Ends, CoreTypes, Books(e, Peer(e)), Books(Peer(e), e)
  PROVE  Bookkeeping
BY Peers DEF Bookkeeping

(* A packet queued or under way.                                           *)
LEMMA PacketFields ==
  ASSUME NEW p \in Packet
  PROVE  /\ p.pn \in Nat
         /\ p.kind \in {"data", "trap", "probe"}
         /\ p.frames \subseteq ClientFrames \cup ServerFrames \cup {"ping"}
         /\ p.ack \subseteq Nat
BY DEF Packet

(* What sending does to the books: `sent` is the set of new packets, at    *)
(* most one on the network and perhaps a trap, numbered from               *)
(* send_sequence on; `kept` are the old packets left in the queue.         *)
LEMMA SendKeepsBooks ==
  ASSUME Bookkeeping,
         NEW e \in Ends, NEW r, r = Peer(e),
         NEW next \in Nat, send_sequence[e] <= next,
         NEW kept \in SUBSET retransmit[e],
         NEW queued \in SUBSET Packet, NEW sent \in SUBSET queued,
         \A p \in queued :
           /\ send_sequence[e] <= p.pn /\ p.pn < next
           /\ p.frames \subseteq FramesOf(e) \cup {"ping"}
           /\ p.ack \subseteq sacked[e]
           /\ p.kind # "data" => p.frames \subseteq {"ping"},
         \A p \in queued, m \in sent : p.pn = m.pn => p = m,
         \A m \in sent : m.kind # "trap",
         NEW more \in SUBSET (FramesOf(e) \cup {"ping"}),
         state' \in [Ends -> {"ready", "disconnected"}],
         \A x \in Ends : state'[x] = "ready" => state[x] = "ready",
         state'[e] = "ready" =>
           \A f \in FramesOf(e) : \/ f \in more
                                  \/ \E p \in kept \cup queued : f \in p.frames
                                  \/ f \in delivered[r],
         send_sequence' = [send_sequence EXCEPT ![e] = next],
         retransmit' = [retransmit EXCEPT ![e] = kept \cup queued],
         retransmitted' \in [Ends -> SUBSET Packet],
         net' = [net EXCEPT ![r] = @ \cup sent],
         todo' = [todo EXCEPT ![e] = more],
         UNCHANGED <<acked, receiving>>
  PROVE  Bookkeeping'
<1>1. /\ r \in Ends /\ r # e /\ Peer(r) = e
      /\ Books(e, r) /\ Books(r, e)
      /\ CoreTypes
  BY Peers DEF Bookkeeping
<1>2. /\ send_sequence[e] \in Nat /\ retransmit[e] \subseteq Packet
      /\ net[r] \subseteq Packet
      /\ retransmit'[e] = kept \cup queued /\ net'[r] = net[r] \cup sent
      /\ send_sequence'[e] = next /\ todo'[e] = more
      /\ retransmit'[r] = retransmit[r] /\ net'[e] = net[e]
      /\ send_sequence'[r] = send_sequence[r] /\ todo'[r] = todo[r]
      /\ acked' = acked /\ sacked' = sacked /\ delivered' = delivered
      /\ processed' = processed /\ told' = told
  BY <1>1 DEF CoreTypes, receiving
<1>3. CoreTypes'
  <2>1. more \subseteq ClientFrames \cup ServerFrames \cup {"ping"}
    BY Pings
  <2>. QED
    BY <1>1, <1>2, <2>1 DEF CoreTypes, receiving
<1>4. Books(r, e)'
  BY SMTT(30), <1>1, <1>2 DEF Books
<1>5. Books(e, r)'
  <2>1. \A p \in retransmit[e] \cup net[r] :
          p.pn \in Nat /\ p.pn < send_sequence[e]
    BY <1>1, <1>2, PacketFields DEF Books
  <2>2. \A p \in queued : p.pn \in Nat /\ p.pn \notin processed[r]
    BY SMTT(30), <1>1, PacketFields DEF Books, CoreTypes
  <2>3. \A p \in retransmit'[e] \cup net'[r] :
          /\ p.pn < send_sequence'[e]
          /\ p.frames \subseteq FramesOf(e) \cup {"ping"}
          /\ p.ack \subseteq processed[e]
          /\ p.kind # "data" => p.frames \subseteq {"ping"}
    BY <1>1, <1>2, <2>1 DEF Books
  <2>4. \A m \in net'[r] :
          /\ m.kind # "trap"
          /\ \A p \in retransmit'[e] \cup net'[r] : p.pn = m.pn => p = m
    <3>1. SUFFICES ASSUME NEW m \in net[r] \cup sent,
                          NEW p \in kept \cup queued \cup net[r],
                          p.pn = m.pn
                   PROVE  m.kind # "trap" /\ p = m
      BY <1>2
    <3>2. CASE m \in net[r]
      BY <1>1, <1>2, <2>1, <2>2, <3>1, <3>2 DEF Books
    <3>3. CASE m \in sent
      BY <1>1, <1>2, <2>1, <2>2, <3>1, <3>3 DEF Books
    <3>. QED
      BY <3>2, <3>3
  <2>5. \A p \in retransmit'[e] : p.pn \in processed[r] =>
          /\ p.kind # "trap"
          /\ p.frames \ {"ping"} \subseteq delivered[r]
          /\ p.ack \subseteq told[r]
    BY <1>1, <1>2, <2>2 DEF Books
  <2>6. \A n \in processed[r] : n < next
    BY <1>1, <1>2 DEF Books, CoreTypes
  <2>7. state'[e] # "disconnecting"
    OBVIOUS
  <2>8. state'[e] = "ready" =>
          \A f \in FramesOf(e) : \/ f \in todo'[e]
                                 \/ \E p \in retransmit'[e] : f \in p.frames
                                 \/ f \in delivered[r]
    BY <1>2
  <2>. QED
    BY <1>1, <1>2, <2>3, <2>4, <2>5, <2>6, <2>7, <2>8 DEF Books
<1>. QED
  BY <1>1, <1>3, <1>4, <1>5, Peers DEF Bookkeeping

(* Frames of lost packets that are not repeated have arrived.              *)
LEMMA LostHaveArrived ==
  ASSUME Bookkeeping, NEW e \in Ends, NEW lost \in SUBSET retransmit[e],
         NothingToRepeat(e, lost),
         NEW p \in lost, NEW f \in FramesOf(e), f \in p.frames
  PROVE  f \in delivered[Peer(e)]
<1>1. Books(e, Peer(e)) /\ f # "ping"
  BY Pings DEF Bookkeeping
<1>2. p.kind = "data"
  BY <1>1 DEF Books
<1>3. f \in acked[e]
  BY <1>2 DEF NothingToRepeat, ToRepeat
<1>. QED
  BY <1>1, <1>3 DEF Books

(* The trap that a hole leaves in the queue is a packet with a new number. *)
LEMMA TrapIsNew ==
  ASSUME Bookkeeping, NEW e \in Ends, NEW hole \in BOOLEAN,
         NEW lost \in SUBSET retransmit[e]
  PROVE  /\ send_sequence[e] \in Nat /\ NextPn(e, hole) \in Nat
         /\ Trap(send_sequence[e]) \in Packet
         /\ Queue(e, hole) \ lost =
              (retransmit[e] \ lost)
                \cup (IF hole THEN {Trap(send_sequence[e])} ELSE {})
<1>1. CoreTypes /\ Books(e, Peer(e))
  BY DEF Bookkeeping
<1>2. send_sequence[e] \in Nat /\ NextPn(e, hole) \in Nat
  BY <1>1 DEF CoreTypes, NextPn
<1>3. Trap(send_sequence[e]) \in Packet /\ Trap(send_sequence[e]).pn = send_sequence[e]
  BY <1>2 DEF Trap, Packet
<1>4. Trap(send_sequence[e]) \notin lost
  BY SMTT(30), <1>1, <1>2, <1>3 DEF Books
<1>. HIDE DEF Trap
<1>. QED
  BY <1>2, <1>3, <1>4 DEF Queue

(* The books after a packet was sent, and after none was.                  *)
Accounted(e, lost, kind, frames, ack, more) ==
    /\ kind \in {"data", "probe"}
    /\ kind = "probe" => frames \subseteq {"ping"}
    /\ frames \subseteq FramesOf(e) \cup {"ping"}
    /\ ack \subseteq sacked[e]
    /\ more \subseteq FramesOf(e) \cup {"ping"}
    /\ \A f \in todo[e] : f \in FramesOf(e) => f \in more \cup frames
    /\ \A p \in lost : \A f \in FramesOf(e) :
         f \in p.frames => f \in more \cup frames \cup delivered[Peer(e)]

(* A packet that is sent keeps the books.                                  *)
LEMMA FinalizeKeepsBooks ==
  ASSUME Bookkeeping, NEW e \in Ends, NEW hole \in BOOLEAN,
         NEW lost \in SUBSET retransmit[e],
         NEW repeated \in SUBSET retransmit[e],
         NEW left, left = Queue(e, hole) \ lost,
         NEW kind, NEW frames, NEW ack, NEW more,
         Finalize(e, hole, left, repeated, kind, frames, ack),
         Accounted(e, lost, kind, frames, ack, more),
         todo' = [todo EXCEPT ![e] = more],
         state' = state,
         UNCHANGED <<acked, receiving>>
  PROVE  Bookkeeping'
<1> DEFINE n == NextPn(e, hole)
           p0 == [pn |-> n, kind |-> kind, frames |-> frames, ack |-> ack]
           trap == Trap(send_sequence[e])
           kept == retransmit[e] \ lost
           sent == {p0}
           queued == {p0} \cup (IF hole THEN {trap} ELSE {})
<1>1. /\ CoreTypes /\ Books(e, Peer(e)) /\ Books(Peer(e), e)
      /\ Peer(e) \in Ends /\ Peer(e) # e
  BY Peers DEF Bookkeeping
<1>12. /\ kind \in {"data", "probe"}
       /\ kind = "probe" => frames \subseteq {"ping"}
       /\ frames \in SUBSET (FramesOf(e) \cup {"ping"})
       /\ ack \in SUBSET sacked[e]
       /\ more \in SUBSET (FramesOf(e) \cup {"ping"})
       /\ \A f \in todo[e] : f \in FramesOf(e) => f \in more \cup frames
       /\ \A p \in lost : \A f \in FramesOf(e) :
            f \in p.frames => f \in more \cup frames \cup delivered[Peer(e)]
  BY DEF Accounted
<1>2. /\ send_sequence[e] \in Nat /\ n \in Nat
      /\ trap \in Packet
      /\ Queue(e, hole) \ lost = kept \cup (IF hole THEN {trap} ELSE {})
  BY TrapIsNew
<1>3. /\ trap.pn = send_sequence[e] /\ trap.frames = {} /\ trap.ack = {}
      /\ hole => n = send_sequence[e] + 1
      /\ ~hole => n = send_sequence[e]
  BY DEF Trap, NextPn
<1>4. p0 \in Packet /\ p0.pn = n /\ p0.frames = frames /\ p0.ack = ack
      /\ p0.kind = kind
  <2>1. frames \subseteq ClientFrames \cup ServerFrames \cup {"ping"}
    BY <1>12, Pings
  <2>2. ack \subseteq Nat
    BY <1>1, <1>12 DEF CoreTypes
  <2>. QED
    BY <1>2, <1>12, <2>1, <2>2 DEF Packet
<1>5. /\ send_sequence' = [send_sequence EXCEPT ![e] = n + 1]
      /\ retransmit' = [retransmit EXCEPT ![e] = kept \cup queued]
      /\ retransmitted' = [retransmitted EXCEPT ![e] = @ \cup repeated]
      /\ net' = [net EXCEPT ![Peer(e)] = @ \cup sent]
  <2>1. (Queue(e, hole) \ lost) \cup {p0} = kept \cup queued
    BY SMTT(30), <1>2
  <2>. QED
    BY ZenonT(40), <2>1 DEF Finalize
<1>6. state'[e] = "ready" =>
        \A f \in FramesOf(e) : \/ f \in more
                               \/ \E p \in kept \cup queued : f \in p.frames
                               \/ f \in delivered[Peer(e)]
  <2>1. p0 \in kept \cup queued
    BY SMTT(30)
  <2>2. \A p \in retransmit[e] : p \in lost \/ p \in kept \cup queued
    BY SMTT(30)
  <2>3. state[e] = "ready" =>
          \A f \in FramesOf(e) : \/ f \in todo[e]
                                 \/ \E p \in retransmit[e] : f \in p.frames
                                 \/ f \in delivered[Peer(e)]
    BY ZenonT(40), <1>1 DEF Books
  <2>. HIDE DEF p0, kept, queued
  <2>. QED
    BY SMTT(30), <1>4, <1>12, <2>1, <2>2, <2>3
<1> HIDE DEF n, p0, trap
<1>7. /\ n + 1 \in Nat /\ send_sequence[e] <= n + 1
      /\ kept \in SUBSET retransmit[e]
      /\ queued \in SUBSET Packet /\ sent \in SUBSET queued
  BY <1>2, <1>3, <1>4, <1>12
<1>8. \A p \in queued : /\ send_sequence[e] <= p.pn /\ p.pn < n + 1
                        /\ p.frames \subseteq FramesOf(e) \cup {"ping"}
                        /\ p.ack \subseteq sacked[e]
                        /\ p.kind # "data" => p.frames \subseteq {"ping"}
  BY <1>2, <1>3, <1>4, <1>12
<1>9. /\ \A p \in queued, m \in sent : p.pn = m.pn => p = m
      /\ \A m \in sent : m.kind # "trap"
  BY SMTT(30), <1>2, <1>3, <1>4, <1>12
<1>10. /\ state' \in [Ends -> {"ready", "disconnected"}]
       /\ \A x \in Ends : state'[x] = "ready" => state[x] = "ready"
  BY DEF Bookkeeping, CoreTypes, Books
<1>11. retransmitted' \in [Ends -> SUBSET Packet]
  BY <1>1, <1>5 DEF CoreTypes
<1> HIDE DEF kept, queued, sent
<1>. QED
  BY ZenonT(40), <1>2, <1>5, <1>6, <1>7, <1>8, <1>9, <1>10, <1>11, <1>12, SendKeepsBooks

(* A call that sends nothing keeps the books.                              *)
LEMMA SendNothingKeepsBooks ==
  ASSUME Bookkeeping, NEW e \in Ends, NEW hole \in BOOLEAN,
         NEW lost \in SUBSET retransmit[e],
         NEW repeated \in SUBSET retransmit[e],
         NEW left, left = Queue(e, hole) \ lost,
         SendNothing(e, hole, left, repeated),
         NEW more \in SUBSET (FramesOf(e) \cup {"ping"}),
         todo' = [todo EXCEPT ![e] = more],
         state' \in {state, [state EXCEPT ![e] = "disconnected"]},
         UNCHANGED <<acked, receiving>>,
         state'[e] = "ready" => todo[e] \subseteq more,
         state'[e] = "ready" =>
           \A p \in lost : \A f \in FramesOf(e) :
              f \in p.frames => f \in delivered[Peer(e)]
  PROVE  Bookkeeping'
<1> DEFINE n == NextPn(e, hole)
           trap == Trap(send_sequence[e])
           kept == retransmit[e] \ lost
           queued == IF hole THEN {trap} ELSE {}
<1>1. /\ CoreTypes /\ Books(e, Peer(e)) /\ Books(Peer(e), e)
      /\ Peer(e) \in Ends /\ Peer(e) # e
  BY Peers DEF Bookkeeping
<1>2. /\ send_sequence[e] \in Nat /\ n \in Nat
      /\ trap \in Packet
      /\ Queue(e, hole) \ lost = kept \cup queued
  BY TrapIsNew
<1>3. /\ trap.pn = send_sequence[e] /\ trap.frames = {} /\ trap.ack = {}
      /\ hole => n = send_sequence[e] + 1
      /\ ~hole => n = send_sequence[e]
  BY DEF Trap, NextPn
<1>5. /\ send_sequence' = [send_sequence EXCEPT ![e] = n]
      /\ retransmit' = [retransmit EXCEPT ![e] = Queue(e, hole) \ lost]
      /\ retransmitted' = [retransmitted EXCEPT ![e] = @ \cup repeated]
      /\ net' = [net EXCEPT ![Peer(e)] = @ \cup {}]
  BY SMTT(30), <1>1 DEF SendNothing, CoreTypes
<1>10. /\ state' \in [Ends -> {"ready", "disconnected"}]
       /\ \A x \in Ends : state'[x] = "ready" => state[x] = "ready"
  BY SMTT(30) DEF Bookkeeping, CoreTypes, Books
<1>6. state'[e] = "ready" =>
        \A f \in FramesOf(e) : \/ f \in more
                               \/ \E p \in kept \cup queued : f \in p.frames
                               \/ f \in delivered[Peer(e)]
  <2>2. \A p \in retransmit[e] : p \in lost \/ p \in kept \cup queued
    BY SMTT(30)
  <2>3. state'[e] = "ready" =>
          \A f \in FramesOf(e) : \/ f \in todo[e]
                                 \/ \E p \in retransmit[e] : f \in p.frames
                                 \/ f \in delivered[Peer(e)]
    BY SMTT(30), <1>1, <1>10 DEF Books
  <2>. HIDE DEF kept, queued
  <2>. QED
    BY SMTT(30), <2>2, <2>3
<1> HIDE DEF n, trap
<1>7. /\ send_sequence[e] <= n
      /\ kept \in SUBSET retransmit[e]
      /\ queued \in SUBSET Packet /\ {} \in SUBSET queued
  BY <1>2, <1>3
<1>8. \A p \in queued : /\ send_sequence[e] <= p.pn /\ p.pn < n
                        /\ p.frames \subseteq FramesOf(e) \cup {"ping"}
                        /\ p.ack \subseteq sacked[e]
                        /\ p.kind # "data" => p.frames \subseteq {"ping"}
  BY SMTT(30), <1>2, <1>3
<1>11. retransmitted' \in [Ends -> SUBSET Packet]
  BY <1>1, <1>5 DEF CoreTypes
<1> HIDE DEF kept, queued
<1>. QED
  BY ZenonT(40), <1>2, <1>5, <1>6, <1>7, <1>8, <1>10, <1>11, SendKeepsBooks

-----------------------------------------------------------------------------
(* The invariant holds at first, and every action keeps it.                *)
LEMMA InitBooks ==
  ASSUME Init
  PROVE  Bookkeeping
<1>1. CoreTypes
  BY SMTT(30), Pings DEF Init, CoreTypes
<1>2. ASSUME NEW e \in Ends
      PROVE  Books(e, Peer(e))
  BY SMTT(30), <1>2, Peers DEF Init, Books
<1>. QED
  BY <1>1, <1>2 DEF Bookkeeping

(* What the two ways of preparing a packet come down to.                   *)
LEMMA PrepareNewCases ==
  ASSUME NEW e \in Ends, PrepareNew(e)
  PROVE  \E hole, lost, kept :
          /\ hole \in BOOLEAN /\ lost \in SUBSET retransmit[e]
          /\ NothingToRepeat(e, lost)
          /\ kept = Queue(e, hole) \ lost
          /\ \/ \E new \in SUBSET todo[e], ack \in {sacked[e], {}},
                   ping \in {{"ping"}, {}} :
                  /\ Finalize(e, hole, kept, ProbesIn(lost), "data",
                              new \cup ping, ack)
                  /\ todo' = [todo EXCEPT ![e] = @ \ new]
             \/ /\ Finalize(e, hole, kept, ProbesIn(lost), "probe", {"ping"}, {})
                /\ UNCHANGED todo
             \/ /\ SendNothing(e, hole, kept, ProbesIn(lost))
                /\ UNCHANGED todo
<1>1. PICK hole \in {FALSE} \cup (IF MayInsertHole(e) THEN {TRUE} ELSE {}),
           n \in Points(retransmit[e]) :
        LET lost == LostUpTo(retransmit[e], n)
            kept == Queue(e, hole) \ lost
        IN
        /\ NothingToRepeat(e, lost)
        /\ Expire(e, lost)
        /\ \/ \E frames \in SUBSET todo[e], withAck \in AckChoices(e),
                 ping \in BOOLEAN :
                LET ack == IF withAck THEN sacked[e] ELSE {} IN
                /\ frames # {} \/ ack # {}
                /\ ping => MayPing(e, hole, frames)
                /\ Finalize(e, hole, kept, ProbesIn(lost), "data",
                            frames \cup (IF ping THEN {"ping"} ELSE {}), ack)
                /\ todo' = [todo EXCEPT ![e] = @ \ frames]
                /\ IF withAck THEN PrepareAckFrame(e)
                              ELSE UNCHANGED <<ack_needed, highest_ack_sent>>
                /\ ack_of_ack_requested' =
                     [ack_of_ack_requested EXCEPT ![e] = @ \/ ping]
           \/ /\ e \in Probers
              /\ todo[e] = {}
              /\ ProbesIn(kept) = {}
              /\ Finalize(e, hole, kept, ProbesIn(lost), "probe", {"ping"}, {})
              /\ UNCHANGED <<todo, ack_needed, highest_ack_sent,
                             ack_of_ack_requested>>
           \/ /\ hole \/ lost # {}
              /\ SendNothing(e, hole, kept, ProbesIn(lost))
              /\ UNCHANGED <<todo, ack_needed, highest_ack_sent,
                             ack_of_ack_requested>>
  BY Zenon DEF PrepareNew
<1> DEFINE lost == LostUpTo(retransmit[e], n)
           kept == Queue(e, hole) \ lost
<1>2. lost \in SUBSET retransmit[e] /\ hole \in BOOLEAN
  BY ZenonT(40) DEF LostUpTo
<1>3. NothingToRepeat(e, lost)
  BY ZenonT(40), <1>1
<1>4. \/ \E new \in SUBSET todo[e], ack \in {sacked[e], {}},
            ping \in {{"ping"}, {}} :
           /\ Finalize(e, hole, kept, ProbesIn(lost), "data",
                       new \cup ping, ack)
           /\ todo' = [todo EXCEPT ![e] = @ \ new]
      \/ /\ Finalize(e, hole, kept, ProbesIn(lost), "probe", {"ping"}, {})
         /\ UNCHANGED todo
      \/ /\ SendNothing(e, hole, kept, ProbesIn(lost))
         /\ UNCHANGED todo
  <2>1. CASE \E frames \in SUBSET todo[e], withAck \in AckChoices(e),
                ping \in BOOLEAN :
               /\ Finalize(e, hole, kept, ProbesIn(lost), "data",
                           frames \cup (IF ping THEN {"ping"} ELSE {}),
                           IF withAck THEN sacked[e] ELSE {})
               /\ todo' = [todo EXCEPT ![e] = @ \ frames]
    <3>1. PICK frames \in SUBSET todo[e], withAck \in AckChoices(e),
               ping \in BOOLEAN :
            /\ Finalize(e, hole, kept, ProbesIn(lost), "data",
                        frames \cup (IF ping THEN {"ping"} ELSE {}),
                        IF withAck THEN sacked[e] ELSE {})
            /\ todo' = [todo EXCEPT ![e] = @ \ frames]
      BY ZenonT(40), <2>1
    <3> DEFINE a == IF withAck THEN sacked[e] ELSE {}
               g == IF ping THEN {"ping"} ELSE {}
    <3>2. a \in {sacked[e], {}} /\ g \in {{"ping"}, {}}
      BY SMTT(30)
    <3>3. /\ Finalize(e, hole, kept, ProbesIn(lost), "data", frames \cup g, a)
          /\ todo' = [todo EXCEPT ![e] = @ \ frames]
      BY <3>1
    <3> HIDE DEF a, g, kept, lost
    <3>. QED
      BY ZenonT(40), <3>2, <3>3
  <2>. QED
    BY ZenonT(40), <1>1, <2>1
<1> HIDE DEF lost
<1>. QED
  BY ZenonT(40), <1>2, <1>3, <1>4

(* A packet of new frames keeps the books.                                 *)
LEMMA PrepareNewKeepsBooks ==
  ASSUME Bookkeeping, NEW e \in Ends, PrepareNew(e)
  PROVE  Bookkeeping'
<1>1. PICK hole, lost, kept :
          /\ hole \in BOOLEAN /\ lost \in SUBSET retransmit[e]
          /\ NothingToRepeat(e, lost)
          /\ kept = Queue(e, hole) \ lost
          /\ \/ \E new \in SUBSET todo[e], ack \in {sacked[e], {}},
                   ping \in {{"ping"}, {}} :
                  /\ Finalize(e, hole, kept, ProbesIn(lost), "data",
                              new \cup ping, ack)
                  /\ todo' = [todo EXCEPT ![e] = @ \ new]
             \/ /\ Finalize(e, hole, kept, ProbesIn(lost), "probe", {"ping"}, {})
                /\ UNCHANGED todo
             \/ /\ SendNothing(e, hole, kept, ProbesIn(lost))
                /\ UNCHANGED todo
  BY ZenonT(40), PrepareNewCases
<1>0. hole \in BOOLEAN /\ lost \in SUBSET retransmit[e]
  BY <1>1
<1> USE <1>0
<1>2. ProbesIn(lost) \in SUBSET retransmit[e]
  BY SMTT(30) DEF ProbesIn
<1>3. state' = state /\ UNCHANGED <<acked, receiving>>
  BY ZenonT(40) DEF PrepareNew
<1>4. /\ todo[e] \subseteq FramesOf(e) \cup {"ping"}
      /\ todo = [todo EXCEPT ![e] = todo[e]]
  BY SMTT(30) DEF Bookkeeping, Books, CoreTypes
<1>5. \A p \in lost : \A f \in FramesOf(e) :
         f \in p.frames => f \in delivered[Peer(e)]
  BY ZenonT(40), <1>1, LostHaveArrived
<1>6. ASSUME NEW new \in SUBSET todo[e], NEW ack \in {sacked[e], {}},
             NEW ping \in {{"ping"}, {}},
             Finalize(e, hole, kept, ProbesIn(lost), "data", new \cup ping, ack),
             todo' = [todo EXCEPT ![e] = @ \ new]
      PROVE  Bookkeeping'
  <2> DEFINE frames == new \cup ping
             more == todo[e] \ new
  <2>1. /\ Finalize(e, hole, kept, ProbesIn(lost), "data", frames, ack)
        /\ todo' = [todo EXCEPT ![e] = more]
    BY <1>6
  <2>2. Accounted(e, lost, "data", frames, ack, more)
    BY SMTT(30), <1>4, <1>5 DEF Accounted
  <2> HIDE DEF frames, more
  <2>. QED
    BY ZenonT(40), <1>1, <1>2, <1>3, <2>1, <2>2, FinalizeKeepsBooks
<1>7. CASE /\ Finalize(e, hole, kept, ProbesIn(lost), "probe",
                       {"ping"}, {})
           /\ UNCHANGED todo
  <2> DEFINE ack == {}
             frames == {"ping"}
             more == todo[e]
  <2>2. /\ Finalize(e, hole, kept, ProbesIn(lost), "probe", frames, ack)
        /\ todo' = [todo EXCEPT ![e] = more]
    BY <1>4, <1>7
  <2>3. Accounted(e, lost, "probe", frames, ack, more)
    BY <1>4, <1>5 DEF Accounted
  <2> HIDE DEF ack, frames, more
  <2>. QED
    BY ZenonT(40), <1>1, <1>2, <1>3, <2>2, <2>3, FinalizeKeepsBooks
<1>8. CASE /\ SendNothing(e, hole, kept, ProbesIn(lost))
           /\ UNCHANGED todo
  <2> DEFINE more == todo[e]
  <2>1. /\ todo' = [todo EXCEPT ![e] = more]
        /\ more \in SUBSET (FramesOf(e) \cup {"ping"})
        /\ todo[e] \subseteq more
    BY <1>4, <1>8
  <2> HIDE DEF more
  <2>. QED
    BY ZenonT(40), <1>1, <1>2, <1>3, <1>5, <1>8, <2>1, SendNothingKeepsBooks
<1>. QED
  BY ZenonT(40), <1>1, <1>6, <1>7, <1>8

(* The ways a repetition may go.                                           *)
LEMMA PrepareRepeatCases ==
  ASSUME NEW e \in Ends, PrepareRepeat(e)
  PROVE  \E hole, p, lost, repeated, copied, kept :
          /\ hole \in BOOLEAN /\ p \in retransmit[e]
          /\ lost \in SUBSET retransmit[e] /\ repeated \in SUBSET retransmit[e]
          /\ lost \ {p} \in SUBSET retransmit[e] /\ NothingToRepeat(e, lost \ {p})
          /\ kept = Queue(e, hole) \ lost
          /\ ToRepeat(e, p) # {} /\ copied \in SUBSET ToRepeat(e, p)
          /\ todo' = [todo EXCEPT ![e] = Overflow(e, p, copied)]
          /\ \/ /\ state' = [state EXCEPT ![e] = "disconnected"]
                /\ SendNothing(e, hole, kept, repeated)
             \/ /\ Finalize(e, hole, kept, repeated, "data", copied, sacked[e])
                /\ UNCHANGED state
<1>1. PICK hole \in {FALSE} \cup (IF MayInsertHole(e) THEN {TRUE} ELSE {}),
           p \in retransmit[e] :
        LET lost == LostUpTo(retransmit[e], p.pn)
            kept == Queue(e, hole) \ lost
            repeated == ProbesIn(lost) \cup {p}
        IN
        /\ ToRepeat(e, p) # {}
        /\ NothingToRepeat(e, lost \ {p})
        /\ Expire(e, lost)
        /\ \E copied \in SUBSET ToRepeat(e, p) \ {{}} :
             /\ todo' = [todo EXCEPT ![e] = Overflow(e, p, copied)]
             /\ \/ /\ TimerBased(e, p)
                   /\ nb_retransmit[e] > MaxRetransmissions
                   /\ state' = [state EXCEPT ![e] = "disconnected"]
                   /\ SendNothing(e, hole, kept, repeated)
                   /\ UNCHANGED <<nb_retransmit, ack_needed, highest_ack_sent>>
                \/ /\ ~(TimerBased(e, p) /\ nb_retransmit[e] > MaxRetransmissions)
                   /\ nb_retransmit' =
                        [nb_retransmit EXCEPT
                           ![e] = IF TimerBased(e, p) THEN @ + 1 ELSE @]
                   /\ PrepareAckFrame(e)
                   /\ Finalize(e, hole, kept, repeated, "data", copied,
                               sacked[e])
                   /\ UNCHANGED state
  BY Zenon DEF PrepareRepeat
<1> DEFINE lost == LostUpTo(retransmit[e], p.pn)
           kept == Queue(e, hole) \ lost
           repeated == ProbesIn(lost) \cup {p}
<1>2. PICK copied \in SUBSET ToRepeat(e, p) \ {{}} :
        /\ todo' = [todo EXCEPT ![e] = Overflow(e, p, copied)]
        /\ \/ /\ state' = [state EXCEPT ![e] = "disconnected"]
              /\ SendNothing(e, hole, kept, repeated)
           \/ /\ Finalize(e, hole, kept, repeated, "data", copied, sacked[e])
              /\ UNCHANGED state
  BY ZenonT(40), <1>1
<1>3. /\ lost \in SUBSET retransmit[e] /\ lost \ {p} \in SUBSET retransmit[e]
      /\ repeated \in SUBSET retransmit[e]
      /\ hole \in BOOLEAN /\ copied \in SUBSET ToRepeat(e, p)
  BY ZenonT(40) DEF LostUpTo, ProbesIn
<1>4. NothingToRepeat(e, lost \ {p}) /\ ToRepeat(e, p) # {}
  BY ZenonT(40), <1>1
<1> HIDE DEF lost, repeated
<1>. QED
  BY ZenonT(40), <1>2, <1>3, <1>4

(* A repetition keeps the books.                                           *)
LEMMA PrepareRepeatKeepsBooks ==
  ASSUME Bookkeeping, NEW e \in Ends, PrepareRepeat(e)
  PROVE  Bookkeeping'
<1>1. PICK hole, p, lost, repeated, copied, kept :
          /\ hole \in BOOLEAN /\ p \in retransmit[e]
          /\ lost \in SUBSET retransmit[e] /\ repeated \in SUBSET retransmit[e]
          /\ lost \ {p} \in SUBSET retransmit[e] /\ NothingToRepeat(e, lost \ {p})
          /\ kept = Queue(e, hole) \ lost
          /\ ToRepeat(e, p) # {} /\ copied \in SUBSET ToRepeat(e, p)
          /\ todo' = [todo EXCEPT ![e] = Overflow(e, p, copied)]
          /\ \/ /\ state' = [state EXCEPT ![e] = "disconnected"]
                /\ SendNothing(e, hole, kept, repeated)
             \/ /\ Finalize(e, hole, kept, repeated, "data", copied, sacked[e])
                /\ UNCHANGED state
  BY ZenonT(40), PrepareRepeatCases
<1>0. /\ hole \in BOOLEAN /\ p \in retransmit[e]
      /\ lost \in SUBSET retransmit[e] /\ repeated \in SUBSET retransmit[e]
  BY SMTT(30), <1>1
<1> USE <1>0
<1>2. kept = Queue(e, hole) \ lost
  BY SMTT(30), <1>1
<1>4. UNCHANGED <<acked, receiving>>
  BY ZenonT(40) DEF PrepareRepeat, acking
<1>5. CoreTypes /\ Books(e, Peer(e)) /\ Peer(e) \in Ends
  BY SMTT(30), Peers DEF Bookkeeping
<1>6. /\ p.kind = "data"
      /\ ToRepeat(e, p) = p.frames \ acked[e]
      /\ p.frames \subseteq FramesOf(e) \cup {"ping"}
      /\ acked[e] \subseteq delivered[Peer(e)]
      /\ todo[e] \subseteq FramesOf(e) \cup {"ping"}
  BY ZenonT(40), <1>1, <1>5 DEF ToRepeat, Books
<1>7. \A q \in lost \ {p} : \A f \in FramesOf(e) :
         f \in q.frames => f \in delivered[Peer(e)]
  BY ZenonT(40), <1>1, LostHaveArrived
<1>8. /\ Overflow(e, p, copied) = todo[e] \cup (ToRepeat(e, p) \ copied)
      /\ copied \subseteq ToRepeat(e, p)
  BY ZenonT(40), <1>1 DEF Overflow
<1> DEFINE more == Overflow(e, p, copied)
<1>10. more \in SUBSET (FramesOf(e) \cup {"ping"})
  BY <1>6, <1>8
<1>11. CASE /\ state' = [state EXCEPT ![e] = "disconnected"]
            /\ SendNothing(e, hole, kept, repeated)
  <2>1. state'[e] # "ready"
    BY SMTT(30), <1>5, <1>11 DEF CoreTypes
  <2>2. todo' = [todo EXCEPT ![e] = more]
    BY <1>1
  <2> HIDE DEF more
  <2>. QED
    BY ZenonT(40), <1>2, <1>4, <1>10, <1>11, <2>1, <2>2, SendNothingKeepsBooks
<1>12. CASE /\ Finalize(e, hole, kept, repeated, "data", copied, sacked[e])
            /\ UNCHANGED state
  <2>1. Accounted(e, lost, "data", copied, sacked[e], more)
    BY SMTT(30), <1>6, <1>7, <1>8, <1>10 DEF Accounted
  <2>2. todo' = [todo EXCEPT ![e] = more]
    BY <1>1
  <2> HIDE DEF more
  <2>. QED
    BY ZenonT(40), <1>2, <1>4, <1>12, <2>1, <2>2, FinalizeKeepsBooks
<1>. QED
  BY <1>1, <1>11, <1>12

(* What an arriving ACK clears had reached the other end, and no trap is   *)
(* among it.                                                               *)
LEMMA ClearedHaveArrived ==
  ASSUME Bookkeeping, NEW e \in Ends, NEW m \in net[e], NEW recent \in BOOLEAN
  PROVE  /\ Acceptable(e, m.ack)
         /\ m.ack \subseteq processed[Peer(e)]
         /\ Sprung(Reached(e, m.ack, recent)) = {}
         /\ \A p \in Cleared(Reached(e, m.ack, recent)) :
              /\ p \in retransmit[e]
              /\ p.frames \ {"ping"} \subseteq delivered[Peer(e)]
              /\ p.ack \subseteq told[Peer(e)]
<1>1. /\ Books(e, Peer(e)) /\ Books(Peer(e), e) /\ Peer(e) \in Ends
  BY SMTT(30), Peers DEF Bookkeeping
<1>2. m.ack \subseteq processed[Peer(e)]
  BY SMTT(30), <1>1 DEF Books
<1>3. Acceptable(e, m.ack)
  BY SMTT(30), <1>1, <1>2 DEF Books, Acceptable
<1>4. \A p \in Reached(e, m.ack, recent) :
        p \in retransmit[e] /\ p.pn \in processed[Peer(e)]
  BY SMTT(30), <1>2 DEF Reached
<1>5. \A p \in Reached(e, m.ack, recent) :
        /\ p.kind # "trap"
        /\ p.frames \ {"ping"} \subseteq delivered[Peer(e)]
        /\ p.ack \subseteq told[Peer(e)]
  BY SMTT(30), <1>1, <1>4 DEF Books
<1>. QED
  BY ZenonT(40), <1>2, <1>3, <1>4, <1>5 DEF Sprung, Cleared

(* An arriving packet keeps the books.                                     *)
LEMMA IncomingPacketKeepsBooks ==
  ASSUME Bookkeeping, NEW e \in Ends, IncomingPacket(e)
  PROVE  Bookkeeping'
<1> DEFINE r == Peer(e)
<1>1. PICK m \in net[e], recent \in BOOLEAN, old \in SUBSET retransmitted[e] :
        LET ack     == IF Acceptable(e, m.ack) THEN m.ack ELSE {}
            reached == Reached(e, ack, recent)
            cleared == Cleared(reached)
        IN
        /\ m.pn \notin sacked[e]
        /\ m.ack = {} => recent /\ old = {}
        /\ TakeFromNet(e, m)
        /\ DecodeAckFrame(e, ack, cleared, old)
        /\ \E pruned \in SUBSET Prunable(e, cleared) :
             IF Acceptable(e, m.ack) /\ Sprung(reached) = {}
             THEN /\ RecordPnReceived(e, m, pruned)
                  /\ delivered' = [delivered EXCEPT
                                     ![e] = @ \cup (m.frames \ {"ping"})]
                  /\ ack_needed' = [ack_needed EXCEPT ![e] = @ \/ m.frames # {}]
                  /\ UNCHANGED state
             ELSE /\ state' = [state EXCEPT ![e] = "disconnecting"]
                  /\ sacked' = [sacked EXCEPT ![e] = @ \ pruned]
                  /\ UNCHANGED <<processed, delivered, ack_needed>>
  BY Zenon DEF IncomingPacket
<1> DEFINE cleared == Cleared(Reached(e, m.ack, recent))
<1>2. /\ r \in Ends /\ r # e /\ Peer(r) = e /\ Ends = {e, r}
      /\ CoreTypes /\ Books(e, r) /\ Books(r, e)
  BY SMTT(30), Peers DEF Bookkeeping
<1>3. /\ Acceptable(e, m.ack)
      /\ m.ack \subseteq processed[r]
      /\ Sprung(Reached(e, m.ack, recent)) = {}
      /\ \A p \in cleared : /\ p \in retransmit[e]
                            /\ p.frames \ {"ping"} \subseteq delivered[r]
                            /\ p.ack \subseteq told[r]
  BY ClearedHaveArrived
<1>4. PICK pruned \in SUBSET Prunable(e, cleared) :
        /\ RecordPnReceived(e, m, pruned)
        /\ delivered' = [delivered EXCEPT ![e] = @ \cup (m.frames \ {"ping"})]
        /\ UNCHANGED state
  BY ZenonT(40), <1>1, <1>3
<1>5. TakeFromNet(e, m) /\ DecodeAckFrame(e, m.ack, cleared, old)
  BY ZenonT(40), <1>1, <1>3
<1>6. m \in Packet
  BY <1>2 DEF CoreTypes
<1>7. pruned \subseteq told[r]
  <2>1. \A k \in pruned : \E p \in cleared : k \in p.ack
    BY ZenonT(40) DEF Prunable
  <2> HIDE DEF cleared
  <2>. QED
    BY ZenonT(40), <1>3, <2>1
<1>8. StreamFrames \cap UNION {p.frames : p \in cleared} \subseteq delivered[r]
  <2>1. \A f \in UNION {p.frames : p \in cleared} :
           \E p \in cleared : f \in p.frames
    OBVIOUS
  <2>2. "ping" \notin StreamFrames
    BY ZenonT(40), FramesAssumption
  <2> HIDE DEF cleared
  <2>. QED
    BY ZenonT(40), <1>3, <2>1, <2>2
<1> HIDE DEF cleared
<1>9. /\ retransmit' = [retransmit EXCEPT ![e] = @ \ cleared]
      /\ retransmitted' \in [Ends -> SUBSET Packet]
      /\ acked' = [acked EXCEPT
                     ![e] = @ \cup (StreamFrames \cap
                                      UNION {p.frames : p \in cleared})]
      /\ told' = [told EXCEPT ![e] = @ \cup m.ack]
      /\ sacked' = [sacked EXCEPT ![e] = (@ \ pruned) \cup {m.pn}]
      /\ processed' = [processed EXCEPT ![e] = @ \cup {m.pn}]
      /\ net' = [net EXCEPT ![e] = IF Duplicates THEN @ ELSE @ \ {m}]
      /\ UNCHANGED <<state, todo, send_sequence>>
  <2>1. retransmitted' = [retransmitted EXCEPT
                            ![e] = {p \in @ \ old : p.pn \notin m.ack}]
    BY SMTT(30), <1>5 DEF DecodeAckFrame
  <2>2. retransmitted' \in [Ends -> SUBSET Packet]
    BY SMTT(30), <1>2, <2>1 DEF CoreTypes
  <2>3. UNCHANGED <<state, todo, send_sequence>>
    BY <1>4 DEF IncomingPacket
  <2>. QED
    BY <1>4, <1>5, <2>2, <2>3 DEF DecodeAckFrame, RecordPnReceived, TakeFromNet
<1> DEFINE more == StreamFrames \cap UNION {p.frames : p \in cleared}
<1>10. more \in SUBSET StreamFrames /\ acked' = [acked EXCEPT ![e] = @ \cup more]
       /\ more \subseteq delivered[r]
  BY SMTT(30), <1>8, <1>9
<1> HIDE DEF more
<1>11. CoreTypes'
  <2>1. m.frames \ {"ping"} \subseteq ClientFrames \cup ServerFrames
    BY <1>6, PacketFields
  <2>2. m.pn \in Nat /\ m.ack \subseteq Nat
    BY SMTT(30), <1>6, PacketFields
  <2>3. /\ state' \in [Ends -> {"ready", "disconnecting", "disconnected"}]
        /\ todo' \in [Ends -> SUBSET (ClientFrames \cup ServerFrames \cup {"ping"})]
        /\ send_sequence' \in [Ends -> Nat]
        /\ retransmit' \in [Ends -> SUBSET Packet]
        /\ retransmitted' \in [Ends -> SUBSET Packet]
    BY SMTT(30), <1>2, <1>9 DEF CoreTypes
  <2>4. /\ acked' \in [Ends -> SUBSET StreamFrames]
        /\ sacked' \in [Ends -> SUBSET Nat]
        /\ processed' \in [Ends -> SUBSET Nat]
        /\ told' \in [Ends -> SUBSET Nat]
    BY SMTT(30), <1>2, <1>9, <1>10, <2>2 DEF CoreTypes
  <2>5. delivered' \in [Ends -> SUBSET (ClientFrames \cup ServerFrames)]
    BY ZenonT(40), <1>2, <1>4, <2>1 DEF CoreTypes
  <2>6. net' \in [Ends -> SUBSET Packet]
    BY ZenonT(40), <1>2, <1>9 DEF CoreTypes
  <2>. QED
    BY <2>3, <2>4, <2>5, <2>6 DEF CoreTypes
<1>12. /\ retransmit'[e] = retransmit[e] \ cleared
       /\ acked'[e] = acked[e] \cup more
       /\ told'[e] = told[e] \cup m.ack
       /\ sacked'[e] = (sacked[e] \ pruned) \cup {m.pn}
       /\ processed'[e] = processed[e] \cup {m.pn}
       /\ net'[e] \subseteq net[e]
       /\ delivered'[e] = delivered[e] \cup (m.frames \ {"ping"})
       /\ retransmit'[r] = retransmit[r] /\ acked'[r] = acked[r]
       /\ told'[r] = told[r] /\ sacked'[r] = sacked[r]
       /\ processed'[r] = processed[r] /\ net'[r] = net[r]
       /\ delivered'[r] = delivered[r]
       /\ state' = state /\ todo' = todo /\ send_sequence' = send_sequence
  BY ZenonT(40), <1>2, <1>4, <1>9, <1>10 DEF CoreTypes
<1> HIDE DEF r
<1>13. Books(e, r)'
  <2>1. state[e] = "ready" =>
          \A f \in FramesOf(e) : \/ f \in todo[e]
                                 \/ \E p \in retransmit[e] \ cleared : f \in p.frames
                                 \/ f \in delivered[r]
    <3>1. SUFFICES ASSUME state[e] = "ready", NEW f \in FramesOf(e),
                          NEW p \in cleared, f \in p.frames
                   PROVE  f \in delivered[r]
      BY ZenonT(40), <1>2 DEF Books
    <3>. QED
      BY ZenonT(40), <1>3, <3>1, Pings
  <2>2. processed'[e] \ sacked'[e] \subseteq told[r]
    BY ZenonT(40), <1>2, <1>7, <1>12 DEF Books
  <2>3. acked'[e] \subseteq delivered[r] /\ told'[e] \subseteq processed[r]
        /\ sacked'[e] \subseteq processed'[e]
    BY ZenonT(40), <1>2, <1>3, <1>10, <1>12 DEF Books
  <2>4. \A p \in retransmit'[e] \cup net'[r] :
         /\ p.pn < send_sequence[e]
         /\ p.frames \subseteq FramesOf(e) \cup {"ping"}
         /\ p.ack \subseteq processed'[e]
         /\ p.kind # "data" => p.frames \subseteq {"ping"}
    BY ZenonT(90), <1>2, <1>12 DEF Books
  <2>5. \A k \in net'[r] :
         /\ k.kind # "trap"
         /\ \A p \in retransmit'[e] \cup net'[r] : p.pn = k.pn => p = k
    BY ZenonT(90), <1>2, <1>12 DEF Books
  <2>6. /\ \A p \in retransmit'[e] : p.pn \in processed[r] =>
             /\ p.kind # "trap"
             /\ p.frames \ {"ping"} \subseteq delivered[r]
             /\ p.ack \subseteq told[r]
        /\ \A k \in processed[r] : k < send_sequence[e]
        /\ todo[e] \subseteq FramesOf(e) \cup {"ping"}
        /\ delivered[r] \subseteq FramesOf(e)
        /\ state[e] # "disconnecting"
    BY ZenonT(40), <1>2, <1>12 DEF Books
  <2>. QED
    BY ZenonT(40), <1>12, <2>1, <2>2, <2>3, <2>4, <2>5, <2>6 DEF Books
<1>14. Books(r, e)'
  <2>1. \A p \in retransmit[r] : p.pn = m.pn => p = m
    BY ZenonT(40), <1>2 DEF Books
  <2>2. m.kind # "trap" /\ m.pn < send_sequence[r]
        /\ m.frames \subseteq FramesOf(r) \cup {"ping"}
    BY ZenonT(40), <1>2 DEF Books
  <2>3. \A p \in retransmit[r] : p.pn \in processed'[e] =>
         /\ p.kind # "trap"
         /\ p.frames \ {"ping"} \subseteq delivered'[e]
         /\ p.ack \subseteq told'[e]
    BY ZenonT(40), <1>2, <1>12, <2>1, <2>2 DEF Books
  <2>4. \A p \in retransmit[r] \cup net'[e] :
         /\ p.pn < send_sequence[r]
         /\ p.frames \subseteq FramesOf(r) \cup {"ping"}
         /\ p.ack \subseteq processed[r]
         /\ p.kind # "data" => p.frames \subseteq {"ping"}
    BY ZenonT(40), <1>2, <1>12 DEF Books
  <2>5. \A k \in net'[e] :
         /\ k.kind # "trap"
         /\ \A p \in retransmit[r] \cup net'[e] : p.pn = k.pn => p = k
    BY ZenonT(90), <1>2, <1>12 DEF Books
  <2>6. /\ \A k \in processed'[e] : k < send_sequence[r]
        /\ delivered'[e] \subseteq FramesOf(r)
        /\ acked[r] \subseteq delivered'[e]
        /\ told[r] \subseteq processed'[e]
        /\ processed[r] \ sacked[r] \subseteq told'[e]
    BY ZenonT(40), <1>2, <1>12, <2>2 DEF Books
  <2>7. state[r] = "ready" =>
          \A f \in FramesOf(r) : \/ f \in todo[r]
                                 \/ \E p \in retransmit[r] : f \in p.frames
                                 \/ f \in delivered'[e]
    BY <1>2, <1>12 DEF Books
  <2>. QED
    BY ZenonT(40), <1>2, <1>12, <2>3, <2>4, <2>5, <2>6, <2>7 DEF Books
<1>. QED
  BY ZenonT(40), <1>11, <1>13, <1>14, <1>2 DEF Bookkeeping, r

(* A step that only takes packets from the network.                        *)
LEMMA TakingKeepsBooks ==
  ASSUME Bookkeeping, NEW e \in Ends, NEW rest \in SUBSET net[e],
         net' = [net EXCEPT ![e] = rest],
         UNCHANGED <<state, todo, sending, acked, receiving>>
  PROVE  Bookkeeping'
<1>1. /\ Peer(e) \in Ends /\ Peer(e) # e /\ Peer(Peer(e)) = e
      /\ CoreTypes /\ Books(e, Peer(e)) /\ Books(Peer(e), e)
      /\ Ends = {e, Peer(e)}
  BY SMTT(30), Peers DEF Bookkeeping
<1>2. CoreTypes'
  BY SMTT(30), <1>1 DEF CoreTypes, sending, receiving
<1>3. /\ net'[e] \subseteq net[e] /\ net'[Peer(e)] = net[Peer(e)]
      /\ UNCHANGED <<state, todo, send_sequence, retransmit, acked, sacked,
                     delivered, processed, told>>
  BY SMTT(30), <1>1 DEF CoreTypes, sending, receiving
<1>4. Books(e, Peer(e))'
  BY ZenonT(40), <1>1, <1>3 DEF Books
<1>5. Books(Peer(e), e)'
  BY <1>1, <1>3 DEF Books
<1>. QED
  BY <1>1, <1>2, <1>4, <1>5 DEF Bookkeeping

(* Every step keeps the books.                                             *)
LEMMA NextKeepsBooks ==
  ASSUME Bookkeeping, [Next]_vars
  PROVE  Bookkeeping'
<1>1. ASSUME NEW e \in Ends, IncomingDuplicate(e)
      PROVE  Bookkeeping'
  <2>1. PICK m \in net[e] : TakeFromNet(e, m)
    BY <1>1 DEF IncomingDuplicate
  <2>2. UNCHANGED <<state, todo, sending, acked, receiving>>
    BY ZenonT(40), <1>1 DEF IncomingDuplicate, acking
  <2> DEFINE rest == IF Duplicates THEN net[e] ELSE net[e] \ {m}
  <2>3. rest \in SUBSET net[e] /\ net' = [net EXCEPT ![e] = rest]
    BY <2>1 DEF TakeFromNet
  <2> HIDE DEF rest
  <2>. QED
    BY ZenonT(40), <2>2, <2>3, TakingKeepsBooks
<1>2. ASSUME NEW e \in Ends, Lose(e)
      PROVE  Bookkeeping'
  <2>1. PICK m \in net[e] : net' = [net EXCEPT ![e] = @ \ {m}]
    BY ZenonT(40), <1>2 DEF Lose
  <2>2. UNCHANGED <<state, todo, sending, acked, receiving>>
    BY <1>2 DEF Lose, acking
  <2> DEFINE rest == net[e] \ {m}
  <2>3. rest \in SUBSET net[e] /\ net' = [net EXCEPT ![e] = rest]
    BY <2>1
  <2> HIDE DEF rest
  <2>. QED
    BY ZenonT(40), <2>2, <2>3, TakingKeepsBooks
<1>3. CASE UNCHANGED vars
  <2>1. UNCHANGED <<state, todo, send_sequence, retransmit, retransmitted, net,
                    acked, sacked, delivered, processed, told>>
    BY <1>3 DEF vars, sending, acking, receiving
  <2>. QED
    BY <2>1 DEF Bookkeeping, CoreTypes, Books
<1>. QED
  BY <1>1, <1>2, <1>3, PrepareNewKeepsBooks, PrepareRepeatKeepsBooks,
     IncomingPacketKeepsBooks DEF Next

(* The books are right in every state that is reached, for every set of    *)
(* frames and every bound: the inductive invariant from which the others   *)
(* follow (sender.c:697-1278, frames.c:2459-2624).                         *)
THEOREM BookkeepingHolds == Spec => []Bookkeeping
BY InitBooks, NextKeepsBooks, PTL DEF Spec

(* An acknowledgement never covers a packet that was not processed         *)
(* (frames.c:2459).                                                        *)
THEOREM TruthfulAcks == Spec => []AcksAreTruthful
<1>1. Bookkeeping => AcksAreTruthful
  BY SMTT(30) DEF Bookkeeping, Books, AcksAreTruthful
<1>. QED
  BY <1>1, BookkeepingHolds, PTL

(* Whatever is lost, repeated in part or acknowledged late, a frame waits, *)
(* is in a packet that may yet be repeated, or has arrived (sender.c:1012, *)
(* frames.c:2249).                                                         *)
THEOREM NothingForgotten == Spec => []NoFrameForgotten
<1>1. Bookkeeping => NoFrameForgotten
  BY SMTT(30) DEF Bookkeeping, Books, NoFrameForgotten
<1>. QED
  BY <1>1, BookkeepingHolds, PTL

(* The acknowledgement of an ACK frame prunes only numbers whose sender    *)
(* has processed an acknowledgement of them (frames.c:2126).               *)
THEOREM SoundPruning == Spec => []PrunedWereAcknowledged
<1>1. Bookkeeping => PrunedWereAcknowledged
  BY SMTT(30) DEF Bookkeeping, Books, PrunedWereAcknowledged
<1>. QED
  BY <1>1, BookkeepingHolds, PTL

(* Packets on the network with the same number are the same packet, so no  *)
(* nonce is used twice (sender.c:863).                                     *)
THEOREM UniqueNumbers == Spec => []NumbersAreUnique
<1>1. ASSUME Bookkeeping, NEW e \in Ends
      PROVE  \A m, k \in net[e] : m.pn = k.pn => m = k
  <2>1. Books(Peer(e), e)
    BY <1>1, Peers DEF Bookkeeping
  <2>. QED
    BY <2>1 DEF Books
<1>2. Bookkeeping => NumbersAreUnique
  BY SMTT(30), <1>1 DEF NumbersAreUnique
<1>. QED
  BY <1>2, BookkeepingHolds, PTL

(* Ends that follow the protocol never spring the traps that holes leave   *)
(* for optimistic acknowledgements (sender.c:817, frames.c:2475).          *)
THEOREM HonestPeersAreSpared == Spec => []TrapsSpareHonestPeers
<1>1. Bookkeeping => TrapsSpareHonestPeers
  BY SMTT(30) DEF Bookkeeping, Books, TrapsSpareHonestPeers
<1>. QED
  BY <1>1, BookkeepingHolds, PTL

-----------------------------------------------------------------------------
(* The refinement.                                                         *)

(* What an end holds, by its members.                                      *)
LEMMA HeldMembers ==
  ASSUME NEW e \in Ends, NEW f
  PROVE  f \in Held(e) <=> /\ state[e] = "ready" /\ f # "ping"
                          /\ \/ f \in todo[e]
                             \/ \E p \in retransmit[e] : f \in p.frames
BY SMTT(30) DEF Held

(* Sending a packet adds nothing to what an end answers for, as long as    *)
(* the packet's frames come from there.                                    *)
Carries(e, frames) ==
    \A f \in frames : \/ f = "ping" \/ f \in todo[e]
                      \/ \E p \in retransmit[e] : f \in p.frames

(* A call that sends, or not, holds no new frame.                          *)
LEMMA SendShrinksHeld ==
  ASSUME Bookkeeping, NEW e \in Ends, NEW hole \in BOOLEAN,
         NEW lost \in SUBSET retransmit[e], NEW p0,
         \/ retransmit' = [retransmit EXCEPT ![e] = Queue(e, hole) \ lost]
         \/ retransmit' = [retransmit EXCEPT
                             ![e] = (Queue(e, hole) \ lost) \cup {p0}],
         NEW more, todo' = [todo EXCEPT ![e] = more],
         Carries(e, more), Carries(e, p0.frames),
         state' = state
  PROVE  \A x \in Ends : Held(x)' \subseteq Held(x)
<1>1. CoreTypes
  BY SMTT(30) DEF Bookkeeping
<1>2. SUFFICES ASSUME NEW x \in Ends, NEW f \in Held(x)'
               PROVE  f \in Held(x)
  BY SMTT(30)
<1>3. /\ state[x] = "ready" /\ f # "ping"
      /\ \/ f \in todo'[x]
         \/ \E p \in retransmit'[x] : f \in p.frames
  BY SMTT(30), <1>2 DEF Held
<1>4. CASE x # e
  BY SMTT(30), <1>1, <1>3, <1>4, HeldMembers DEF CoreTypes
<1>5. CASE x = e
  <2>1. Trap(send_sequence[e]).frames = {}
    BY SMTT(30) DEF Trap
  <2>2. \A p \in Queue(e, hole) : p \in retransmit[e] \/ p.frames = {}
    BY SMTT(30), <2>1 DEF Queue
  <2>3. todo'[e] = more /\ \A p \in retransmit'[e] : p \in Queue(e, hole) \/ p = p0
    BY SMTT(30), <1>1 DEF CoreTypes
  <2>. QED
    BY SMTT(30), <1>3, <1>5, <2>2, <2>3, HeldMembers DEF Carries
<1>. QED
  BY SMTT(30), <1>4, <1>5

(* A packet of new frames holds no new frame.                              *)
LEMMA PrepareNewShrinksHeld ==
  ASSUME Bookkeeping, NEW e \in Ends, PrepareNew(e)
  PROVE  \A x \in Ends : Held(x)' \subseteq Held(x)
<1>1. PICK hole, lost, kept :
        /\ hole \in BOOLEAN /\ lost \in SUBSET retransmit[e]
        /\ NothingToRepeat(e, lost)
        /\ kept = Queue(e, hole) \ lost
        /\ \/ \E new \in SUBSET todo[e], ack \in {sacked[e], {}},
                 ping \in {{"ping"}, {}} :
                /\ Finalize(e, hole, kept, ProbesIn(lost), "data",
                            new \cup ping, ack)
                /\ todo' = [todo EXCEPT ![e] = @ \ new]
           \/ /\ Finalize(e, hole, kept, ProbesIn(lost), "probe", {"ping"}, {})
              /\ UNCHANGED todo
           \/ /\ SendNothing(e, hole, kept, ProbesIn(lost))
              /\ UNCHANGED todo
  BY ZenonT(40), PrepareNewCases
<1>0. hole \in BOOLEAN /\ lost \in SUBSET retransmit[e]
  BY <1>1
<1> USE <1>0
<1>2. state' = state /\ todo = [todo EXCEPT ![e] = todo[e]]
  <2>1. state' = state
    BY ZenonT(40) DEF PrepareNew
  <2>2. todo \in [Ends -> SUBSET (ClientFrames \cup ServerFrames \cup {"ping"})]
    BY DEF Bookkeeping, CoreTypes
  <2>. QED
    BY <2>1, <2>2
<1>3. ASSUME NEW new \in SUBSET todo[e], NEW ack, NEW ping \in {{"ping"}, {}},
             Finalize(e, hole, kept, ProbesIn(lost), "data", new \cup ping, ack),
             todo' = [todo EXCEPT ![e] = @ \ new]
      PROVE  \A x \in Ends : Held(x)' \subseteq Held(x)
  <2> DEFINE p0 == [pn |-> NextPn(e, hole), kind |-> "data",
                    frames |-> new \cup ping, ack |-> ack]
             more == todo[e] \ new
  <2>1. /\ retransmit' = [retransmit EXCEPT ![e] = (Queue(e, hole) \ lost) \cup {p0}]
        /\ todo' = [todo EXCEPT ![e] = more]
    BY ZenonT(40), <1>1, <1>3 DEF Finalize
  <2>2. Carries(e, more) /\ Carries(e, p0.frames)
    BY ZenonT(40) DEF Carries
  <2> HIDE DEF p0, more
  <2>. QED
    BY <1>2, <2>1, <2>2, SendShrinksHeld
<1>4. CASE /\ Finalize(e, hole, kept, ProbesIn(lost), "probe", {"ping"}, {})
           /\ UNCHANGED todo
  <2> DEFINE p0 == [pn |-> NextPn(e, hole), kind |-> "probe",
                    frames |-> {"ping"}, ack |-> {}]
             more == todo[e]
  <2>1. /\ retransmit' = [retransmit EXCEPT ![e] = (Queue(e, hole) \ lost) \cup {p0}]
        /\ todo' = [todo EXCEPT ![e] = more]
    BY ZenonT(40), <1>1, <1>2, <1>4 DEF Finalize
  <2>2. Carries(e, more) /\ Carries(e, p0.frames)
    BY ZenonT(40) DEF Carries
  <2> HIDE DEF p0, more
  <2>. QED
    BY ZenonT(40), <1>2, <2>1, <2>2, SendShrinksHeld
<1>5. CASE SendNothing(e, hole, kept, ProbesIn(lost)) /\ UNCHANGED todo
  <2> DEFINE p0 == Trap(0)
             more == todo[e]
  <2>1. /\ retransmit' = [retransmit EXCEPT ![e] = Queue(e, hole) \ lost]
        /\ todo' = [todo EXCEPT ![e] = more]
    BY SMTT(30), <1>1, <1>2, <1>5 DEF SendNothing
  <2>2. Carries(e, more) /\ Carries(e, p0.frames)
    BY ZenonT(40) DEF Carries, Trap
  <2> HIDE DEF p0, more
  <2>. QED
    BY ZenonT(40), <1>2, <2>1, <2>2, SendShrinksHeld
<1>. QED
  BY <1>1, <1>3, <1>4, <1>5

(* A repetition holds no new frame.                                        *)
LEMMA PrepareRepeatShrinksHeld ==
  ASSUME Bookkeeping, NEW e \in Ends, PrepareRepeat(e), state' = state
  PROVE  \A x \in Ends : Held(x)' \subseteq Held(x)
<1>1. PICK hole, p, lost, repeated, copied, kept :
        /\ hole \in BOOLEAN /\ p \in retransmit[e]
        /\ lost \in SUBSET retransmit[e] /\ repeated \in SUBSET retransmit[e]
        /\ kept = Queue(e, hole) \ lost
        /\ ToRepeat(e, p) # {} /\ copied \in SUBSET ToRepeat(e, p)
        /\ todo' = [todo EXCEPT ![e] = Overflow(e, p, copied)]
        /\ \/ SendNothing(e, hole, kept, repeated)
           \/ Finalize(e, hole, kept, repeated, "data", copied, sacked[e])
  BY ZenonT(90), PrepareRepeatCases
<1>0. /\ hole \in BOOLEAN /\ p \in retransmit[e]
      /\ lost \in SUBSET retransmit[e] /\ repeated \in SUBSET retransmit[e]
  BY <1>1
<1> USE <1>0
<1> DEFINE p0 == [pn |-> NextPn(e, hole), kind |-> "data",
                  frames |-> copied, ack |-> sacked[e]]
           more == Overflow(e, p, copied)
<1>2. \/ retransmit' = [retransmit EXCEPT ![e] = Queue(e, hole) \ lost]
      \/ retransmit' = [retransmit EXCEPT
                          ![e] = (Queue(e, hole) \ lost) \cup {p0}]
  BY <1>1 DEF SendNothing, Finalize
<1>3. ToRepeat(e, p) \subseteq p.frames
  BY DEF ToRepeat
<1>4. \A f : f \in more \/ f \in p0.frames => f \in todo[e] \/ f \in p.frames
  BY ZenonT(40), <1>1, <1>3 DEF Overflow
<1>5. todo' = [todo EXCEPT ![e] = more]
  BY ZenonT(40), <1>1
<1> HIDE DEF p0, more
<1>6. Carries(e, more) /\ Carries(e, p0.frames)
  BY SMTT(30), <1>4 DEF Carries
<1>7. CASE retransmit' = [retransmit EXCEPT ![e] = Queue(e, hole) \ lost]
  BY ZenonT(40), <1>5, <1>6, <1>7, SendShrinksHeld
<1>8. CASE retransmit' = [retransmit EXCEPT
                            ![e] = (Queue(e, hole) \ lost) \cup {p0}]
  BY ZenonT(40), <1>5, <1>6, <1>8, SendShrinksHeld
<1>. QED
  BY <1>2, <1>7, <1>8

(* A step that keeps the books, fails no end, takes nothing back from the  *)
(* applications and lets no end answer for more, is a Move.                *)
LEMMA StepIsMove ==
  ASSUME Bookkeeping, Bookkeeping', state' = state,
         \A x \in Ends : Held(x)' \subseteq Held(x),
         \A x \in Ends : delivered[x] \subseteq delivered'[x],
         \A x \in Ends : \/ Held(x)' = Held(x)
                         \/ delivered'[Peer(x)] = delivered[Peer(x)]
  PROVE  Service!Move
<1>1. SUFFICES ASSUME NEW e \in Ends
               PROVE  /\ delivered[Peer(e)] \subseteq delivered'[Peer(e)]
                      /\ Held(e)' \subseteq Held(e)
                      /\ state[e] = "ready" =>
                           /\ delivered'[Peer(e)] \ delivered[Peer(e)] \subseteq Held(e)
                           /\ Held(e) \ Held(e)' \subseteq delivered[Peer(e)]
  BY DEF Service!Move
<1>2. Peer(e) \in Ends /\ Books(e, Peer(e)) /\ Books(e, Peer(e))' /\ "ping" \notin FramesOf(e)
  BY ZenonT(40), Peers, Pings DEF Bookkeeping
<1>3. ASSUME state[e] = "ready",
             NEW f \in delivered'[Peer(e)], f \notin delivered[Peer(e)]
      PROVE  f \in Held(e)
  <2>1. f \in FramesOf(e) /\ f # "ping"
    BY ZenonT(40), <1>2, <1>3 DEF Books
  <2>. QED
    BY ZenonT(40), <1>2, <1>3, <2>1, HeldMembers DEF Books
<1>4. ASSUME state[e] = "ready", NEW f \in Held(e), f \notin Held(e)'
      PROVE  f \in delivered[Peer(e)]
  <2>0. /\ f # "ping"
        /\ f \in todo[e] \/ \E p \in retransmit[e] : f \in p.frames
    BY ZenonT(40), <1>4, HeldMembers
  <2>1. f # "ping" /\ f \in FramesOf(e)
    <3>1. /\ todo[e] \subseteq FramesOf(e) \cup {"ping"}
          /\ \A p \in retransmit[e] : p.frames \subseteq FramesOf(e) \cup {"ping"}
      BY ZenonT(40), <1>2 DEF Books
    <3>. QED
      BY <2>0, <3>1
  <2>2. delivered'[Peer(e)] = delivered[Peer(e)]
    BY <1>4
  <2>3. ~(f \in todo'[e] \/ \E p \in retransmit'[e] : f \in p.frames)
    BY SMTT(30), <1>4, <2>1 DEF Held
  <2>4. state'[e] = "ready"
    BY ZenonT(40), <1>4
  <2>5. \/ f \in todo'[e] \/ \E p \in retransmit'[e] : f \in p.frames
        \/ f \in delivered'[Peer(e)]
    BY ZenonT(40), <1>2, <2>1, <2>4 DEF Books
  <2>. QED
    BY <2>2, <2>3, <2>5
<1>5. delivered[Peer(e)] \subseteq delivered'[Peer(e)] /\ Held(e)' \subseteq Held(e)
  BY ZenonT(40), <1>2
<1>6. state[e] = "ready" => delivered'[Peer(e)] \ delivered[Peer(e)] \subseteq Held(e)
  BY ZenonT(40), <1>3
<1>7. state[e] = "ready" => Held(e) \ Held(e)' \subseteq delivered[Peer(e)]
  BY ZenonT(40), <1>4
<1>. QED
  BY ZenonT(40), <1>5, <1>6, <1>7

(* An end that gives up after too many timeouts is a Fail.                 *)
LEMMA GivingUpIsFail ==
  ASSUME Bookkeeping, NEW e \in Ends, PrepareRepeat(e), state' # state
  PROVE  Service!Fail(e)
<1>1. /\ state[e] = "ready" /\ CoreTypes
      /\ state' = [state EXCEPT ![e] = "disconnected"]
      /\ UNCHANGED delivered
  BY ZenonT(40), PrepareRepeatCases DEF PrepareRepeat, Bookkeeping, receiving
<1>2. \A x \in Ends : x # e => retransmit'[x] = retransmit[x] /\ todo'[x] = todo[x]
  <2>1. PICK hole, p, lost, repeated, copied, kept :
          /\ hole \in BOOLEAN /\ p \in retransmit[e]
          /\ lost \in SUBSET retransmit[e] /\ repeated \in SUBSET retransmit[e]
          /\ lost \ {p} \in SUBSET retransmit[e] /\ NothingToRepeat(e, lost \ {p})
          /\ kept = Queue(e, hole) \ lost
          /\ ToRepeat(e, p) # {} /\ copied \in SUBSET ToRepeat(e, p)
          /\ todo' = [todo EXCEPT ![e] = Overflow(e, p, copied)]
          /\ \/ /\ state' = [state EXCEPT ![e] = "disconnected"]
                /\ SendNothing(e, hole, kept, repeated)
             \/ /\ Finalize(e, hole, kept, repeated, "data", copied, sacked[e])
                /\ UNCHANGED state
    BY ZenonT(40), PrepareRepeatCases
  <2>. QED
    BY <1>1, <2>1 DEF SendNothing, Finalize, CoreTypes
<1>3. state'[e] = "disconnected" /\ \A x \in Ends : x # e => state'[x] = state[x]
  BY SMTT(30), <1>1 DEF CoreTypes
<1>4. Held(e)' = {} /\ \A x \in Ends : x # e => Held(x)' = Held(x)
  BY <1>2, <1>3 DEF Held
<1> DEFINE held == [x \in Ends |-> Held(x)]
           failed == [x \in Ends |-> state[x] # "ready"]
<1>5. held' = [held EXCEPT ![e] = {}]
  <2>1. held' = [x \in Ends |-> Held(x)']
    BY ZenonT(40)
  <2> HIDE DEF Held
  <2>. QED
    BY <1>4, <2>1
<1>6. ~failed[e] /\ failed' = [failed EXCEPT ![e] = TRUE]
  BY <1>1, <1>3
<1>7. [x \in Ends |-> delivered[Peer(x)]]' = [x \in Ends |-> delivered[Peer(x)]]
  BY <1>1
<1>. QED
  BY ZenonT(40), <1>5, <1>6, <1>7 DEF Service!Fail

(* Loss recovery implements the frame service, for every set of frames:    *)
(* an end answers for a frame until the other end has it, or until it      *)
(* gives up the connection (sender.c:697-1278, frames.c:2459).             *)
THEOREM RefinesFrameService == Spec => ImplementsFrameService
<1>1. Init => Service!Init
  <2>1. ASSUME Init PROVE [e \in Ends |-> Held(e)] = [e \in Ends |-> FramesOf(e)]
    <3>1. ASSUME NEW e \in Ends PROVE Held(e) = FramesOf(e)
      BY <2>1, <3>1, Pings DEF Init, Held
    <3>. QED
      BY <3>1
  <2>2. ASSUME Init PROVE [e \in Ends |-> delivered[Peer(e)]] = [e \in Ends |-> {}]
    BY <2>2, Peers DEF Init
  <2>3. ASSUME Init PROVE [e \in Ends |-> state[e] # "ready"] = [e \in Ends |-> FALSE]
    BY <2>3 DEF Init
  <2>. QED
    BY ZenonT(40), <2>1, <2>2, <2>3 DEF Service!Init
<1>2. ASSUME Bookkeeping, Bookkeeping', [Next]_vars
      PROVE  [Service!Next]_<<[e \in Ends |-> Held(e)],
                              [e \in Ends |-> delivered[Peer(e)]],
                              [e \in Ends |-> state[e] # "ready"]>>
  <2>0. CoreTypes /\ \A x \in Ends : Peer(x) \in Ends
    BY <1>2, Peers DEF Bookkeeping
  <2>1. ASSUME NEW e \in Ends, PrepareNew(e)
        PROVE  Service!Move
    <3>1. state' = state /\ delivered' = delivered
      BY ZenonT(40), <2>1 DEF PrepareNew, receiving
    <3>. QED
      BY <1>2, <2>1, <3>1, StepIsMove, PrepareNewShrinksHeld
  <2>2. ASSUME NEW e \in Ends, PrepareRepeat(e)
        PROVE  Service!Move \/ Service!Fail(e)
    <3>1. delivered' = delivered
      BY ZenonT(40), <2>2 DEF PrepareRepeat, receiving
    <3>2. CASE state' = state
      BY ZenonT(40), <1>2, <2>2, <3>1, <3>2, StepIsMove,
         PrepareRepeatShrinksHeld
    <3>3. CASE state' # state
      BY <1>2, <2>2, <3>3, GivingUpIsFail
    <3>. QED
      BY <3>2, <3>3
  <2>3. ASSUME NEW e \in Ends, IncomingPacket(e)
        PROVE  Service!Move
    <3>1. state' = state
      <4>1. state' = state \/ state' = [state EXCEPT ![e] = "disconnecting"]
        BY ZenonT(40), <2>3 DEF IncomingPacket
      <4>2. state'[e] # "disconnecting"
        BY ZenonT(40), <1>2 DEF Bookkeeping, Books
      <4>. QED
        BY <2>0, <4>1, <4>2 DEF CoreTypes
    <3>2. PICK m, cleared :
            /\ retransmit' = [retransmit EXCEPT ![e] = @ \ cleared]
            /\ \/ delivered' = [delivered EXCEPT ![e] = @ \cup (m.frames \ {"ping"})]
               \/ delivered' = delivered
            /\ todo' = todo
      BY ZenonT(40), <2>3 DEF IncomingPacket, DecodeAckFrame
    <3>3. \A x \in Ends : /\ retransmit'[x] \subseteq retransmit[x]
                          /\ delivered[x] \subseteq delivered'[x]
                          /\ x # e => /\ retransmit'[x] = retransmit[x]
                                      /\ delivered'[x] = delivered[x]
      BY <2>0, <3>2 DEF CoreTypes
    <3>4. \A x \in Ends : Held(x)' \subseteq Held(x) /\ (x # e => Held(x)' = Held(x))
      BY ZenonT(40), <3>1, <3>2, <3>3 DEF Held
    <3>5. \A x \in Ends : \/ Held(x)' = Held(x)
                          \/ delivered'[Peer(x)] = delivered[Peer(x)]
      BY ZenonT(40), <3>3, <3>4, Peers
    <3>. QED
      BY ZenonT(40), <1>2, <3>1, <3>3, <3>4, <3>5, StepIsMove
  <2>4. ASSUME UNCHANGED <<state, todo, retransmit, delivered>>
        PROVE  UNCHANGED <<[e \in Ends |-> Held(e)],
                           [e \in Ends |-> delivered[Peer(e)]],
                           [e \in Ends |-> state[e] # "ready"]>>
    <3>1. \A e \in Ends : Held(e)' = Held(e)
      BY ZenonT(40), <2>4 DEF Held
    <3>2. [e \in Ends |-> Held(e)]' = [e \in Ends |-> Held(e)]
      BY ZenonT(40), <3>1
    <3>3. /\ [e \in Ends |-> delivered[Peer(e)]]' = [e \in Ends |-> delivered[Peer(e)]]
          /\ [e \in Ends |-> state[e] # "ready"]' = [e \in Ends |-> state[e] # "ready"]
      BY ZenonT(40), <2>4
    <3>. QED
      BY ZenonT(40), <3>2, <3>3
  <2>5. ASSUME NEW e \in Ends, IncomingDuplicate(e) \/ Lose(e)
        PROVE  UNCHANGED <<state, todo, retransmit, delivered>>
    BY <2>5 DEF IncomingDuplicate, Lose, sending, receiving
  <2>6. ASSUME UNCHANGED vars
        PROVE  UNCHANGED <<state, todo, retransmit, delivered>>
    BY <2>6 DEF vars, sending, receiving
  <2>. QED
    BY <1>2, <2>1, <2>2, <2>3, <2>4, <2>5, <2>6 DEF Next, Service!Next
<1>. QED
  BY <1>1, <1>2, BookkeepingHolds, PTL DEF Spec, ImplementsFrameService, Service!Spec

-----------------------------------------------------------------------------
(* The count of packets in transit is the count of the packets in the      *)
(* queue, for every order of losses, repetitions and timeouts.             *)

(* What leaves a queue is no longer counted.                               *)
LEMMA CountOfRest ==
  ASSUME NEW queue, IsFiniteSet(queue), NEW lost \in SUBSET queue
  PROVE  /\ IsFiniteSet(queue \ lost)
         /\ InTransit(queue) \in Int /\ InTransit(lost) \in Int
         /\ InTransit(queue \ lost) = InTransit(queue) - InTransit(lost)
<1> DEFINE all  == {p \in queue : p.kind # "trap"}
           gone == {p \in lost : p.kind # "trap"}
           rest == {p \in queue \ lost : p.kind # "trap"}
<1>1. /\ all \in SUBSET queue /\ gone \in SUBSET all
      /\ rest = all \ gone /\ all \cap gone = gone
  OBVIOUS
<1>2. /\ InTransit(queue) = Cardinality(all)
      /\ InTransit(lost) = Cardinality(gone)
      /\ InTransit(queue \ lost) = Cardinality(rest)
  BY DEF InTransit
<1>. HIDE DEF all, gone, rest
<1>3. IsFiniteSet(all) /\ IsFiniteSet(queue \ lost)
  BY <1>1, FS_Subset
<1>4. IsFiniteSet(gone)
  BY <1>1, <1>3, FS_Subset
<1>5. Cardinality(all) \in Nat /\ Cardinality(gone) \in Nat
  BY <1>3, <1>4, FS_CardinalityType
<1>6. Cardinality(all \ gone) = Cardinality(all) - Cardinality(all \cap gone)
  BY <1>3, FS_Difference
<1>7. InTransit(queue \ lost) = InTransit(queue) - InTransit(lost)
  BY Zenon, <1>1, <1>2, <1>6
<1>8. InTransit(queue) \in Int /\ InTransit(lost) \in Int
  <2>1. Cardinality(all) \in Int /\ Cardinality(gone) \in Int
    BY <1>5
  <2>. QED
    BY Zenon, <1>2, <2>1
<1>. QED
  BY Zenon, <1>3, <1>7, <1>8

(* What joins a queue is counted, unless it is a trap.                     *)
LEMMA CountOfMore ==
  ASSUME NEW queue, IsFiniteSet(queue), NEW p, p \notin queue
  PROVE  /\ IsFiniteSet(queue \cup {p})
         /\ InTransit(queue) \in Int
         /\ p.kind = "trap" => InTransit(queue \cup {p}) = InTransit(queue)
         /\ p.kind # "trap" => InTransit(queue \cup {p}) = InTransit(queue) + 1
<1> DEFINE all  == {q \in queue : q.kind # "trap"}
           more == {q \in queue \cup {p} : q.kind # "trap"}
<1>1. /\ all \in SUBSET queue /\ p \notin all
      /\ p.kind = "trap" => more = all
      /\ p.kind # "trap" => more = all \cup {p}
  OBVIOUS
<1>2. /\ InTransit(queue) = Cardinality(all)
      /\ InTransit(queue \cup {p}) = Cardinality(more)
  BY DEF InTransit
<1>. HIDE DEF all, more
<1>3. IsFiniteSet(all) /\ IsFiniteSet(queue \cup {p})
  BY <1>1, FS_Subset, FS_AddElement
<1>4. Cardinality(all) \in Nat
  BY <1>3, FS_CardinalityType
<1>5. Cardinality(all \cup {p}) = Cardinality(all) + 1
  <2>1. Cardinality(all \cup {p}) =
          IF p \in all THEN Cardinality(all) ELSE Cardinality(all) + 1
    BY Zenon, <1>3, FS_AddElement
  <2>. QED
    BY Zenon, <1>1, <2>1
<1>6. Cardinality(all) \in Int
  BY <1>4
<1>. QED
  BY Zenon, <1>1, <1>2, <1>3, <1>5, <1>6

(* The queue after the lost packets left it and a hole was made.           *)
LEMMA CountOfKept ==
  ASSUME Bookkeeping, Charged, NEW e \in Ends, NEW hole \in BOOLEAN,
         NEW lost \in SUBSET retransmit[e]
  PROVE  /\ IsFiniteSet(Queue(e, hole) \ lost)
         /\ retransmit[e] \ (Queue(e, hole) \ lost) = lost
         /\ in_transit[e] \in Int /\ InTransit(lost) \in Int
         /\ InTransit(Queue(e, hole) \ lost) = in_transit[e] - InTransit(lost)
         /\ \A p \in Queue(e, hole) \ lost : p.pn # NextPn(e, hole)
<1> DEFINE trap == Trap(send_sequence[e])
           rest == retransmit[e] \ lost
<1>1. /\ send_sequence[e] \in Nat
      /\ Queue(e, hole) \ lost = rest \cup (IF hole THEN {trap} ELSE {})
  BY TrapIsNew
<1>2. /\ IsFiniteSet(rest) /\ InTransit(rest) = in_transit[e] - InTransit(lost)
      /\ in_transit[e] \in Int /\ InTransit(lost) \in Int
  <2>1. IsFiniteSet(retransmit[e]) /\ in_transit[e] = InTransit(retransmit[e])
    BY Zenon DEF Charged
  <2>. QED
    BY Zenon, <2>1, CountOfRest
<1>3. trap.pn = send_sequence[e] /\ trap.kind = "trap"
  BY DEF Trap
<1>4. \A p \in retransmit[e] : p.pn < send_sequence[e] /\ p.pn \in Nat
  BY SMTT(30) DEF Bookkeeping, Books, CoreTypes, Packet
<1>5. trap \notin retransmit[e]
  <2>. HIDE DEF trap
  <2>1. ~(send_sequence[e] < send_sequence[e])
    BY <1>1
  <2>. QED
    BY Zenon, <1>3, <1>4, <2>1
<1>. HIDE DEF trap
<1>6. /\ IsFiniteSet(rest \cup {trap})
      /\ InTransit(rest \cup {trap}) = InTransit(rest)
  BY <1>2, <1>3, <1>5, CountOfMore
<1>7. \A p \in Queue(e, hole) \ lost : p.pn # NextPn(e, hole)
  BY <1>1, <1>3, <1>4 DEF NextPn
<1>8. retransmit[e] \ (Queue(e, hole) \ lost) = lost
  BY <1>1, <1>5
<1>9. /\ IsFiniteSet(Queue(e, hole) \ lost)
      /\ InTransit(Queue(e, hole) \ lost) = in_transit[e] - InTransit(lost)
  <2>1. hole => Queue(e, hole) \ lost = rest \cup {trap}
    BY Zenon, <1>1
  <2>2. ~hole => Queue(e, hole) \ lost = rest
    BY <1>1
  <2>. QED
    BY Zenon, <1>2, <1>6, <2>1, <2>2
<1>. QED
  BY Zenon, <1>2, <1>7, <1>8, <1>9

(* The count stays right when one queue and its count are replaced.        *)
LEMMA ReplacingKeepsCharge ==
  ASSUME Bookkeeping, Charged, NEW e \in Ends, NEW queue, IsFiniteSet(queue),
         NEW n \in Int, n = InTransit(queue),
         retransmit' = [retransmit EXCEPT ![e] = queue],
         in_transit' = [in_transit EXCEPT ![e] = n]
  PROVE  Charged'
<1>1. retransmit \in [Ends -> SUBSET Packet] /\ in_transit \in [Ends -> Int]
  BY DEF Bookkeeping, CoreTypes, Charged
<1>2. in_transit' \in [Ends -> Int]
  BY <1>1
<1>3. /\ retransmit'[e] = queue /\ in_transit'[e] = n
      /\ \A x \in Ends : x # e => /\ retransmit'[x] = retransmit[x]
                                  /\ in_transit'[x] = in_transit[x]
  BY <1>1
<1>. QED
  BY Zenon, <1>2, <1>3 DEF Charged

(* A call that sends, or finds nothing to send, keeps the count.           *)
LEMMA SendingKeepsCharge ==
  ASSUME Bookkeeping, Charged, NEW e \in Ends, NEW hole \in BOOLEAN,
         NEW lost \in SUBSET retransmit[e],
         NEW kept, kept = Queue(e, hole) \ lost, NEW repeated,
         \/ SendNothing(e, hole, kept, repeated)
         \/ \E kind \in {"data", "probe"} : \E frames, ack :
              Finalize(e, hole, kept, repeated, kind, frames, ack)
  PROVE  Charged'
<1>1. /\ IsFiniteSet(kept)
      /\ retransmit[e] \ kept = lost
      /\ in_transit[e] \in Int /\ InTransit(lost) \in Int
      /\ InTransit(kept) = in_transit[e] - InTransit(lost)
      /\ \A p \in kept : p.pn # NextPn(e, hole)
  <2>1. /\ IsFiniteSet(Queue(e, hole) \ lost)
        /\ retransmit[e] \ (Queue(e, hole) \ lost) = lost
        /\ in_transit[e] \in Int /\ InTransit(lost) \in Int
        /\ InTransit(Queue(e, hole) \ lost) = in_transit[e] - InTransit(lost)
        /\ \A p \in Queue(e, hole) \ lost : p.pn # NextPn(e, hole)
    BY CountOfKept
  <2>. QED
    BY <2>1
<1>2. CASE SendNothing(e, hole, kept, repeated)
  <2>1. /\ in_transit' = [in_transit EXCEPT ![e] = in_transit[e] - InTransit(lost)]
        /\ retransmit' = [retransmit EXCEPT ![e] = kept]
    BY Zenon, <1>1, <1>2 DEF SendNothing
  <2>2. in_transit[e] - InTransit(lost) \in Int
    BY <1>1
  <2>. QED
    BY Zenon, <1>1, <2>1, <2>2, ReplacingKeepsCharge
<1>3. ASSUME NEW kind \in {"data", "probe"}, NEW frames, NEW ack,
             Finalize(e, hole, kept, repeated, kind, frames, ack)
      PROVE  Charged'
  <2> DEFINE p == [pn |-> NextPn(e, hole), kind |-> kind, frames |-> frames, ack |-> ack]
             n == in_transit[e] + 1 - InTransit(lost)
  <2>1. /\ in_transit' = [in_transit EXCEPT ![e] = n]
        /\ retransmit' = [retransmit EXCEPT ![e] = kept \cup {p}]
    BY Zenon, <1>1, <1>3 DEF Finalize
  <2>2. p.pn = NextPn(e, hole) /\ p.kind # "trap"
    OBVIOUS
  <2>. HIDE DEF p
  <2>3. p \notin kept
    BY Zenon, <1>1, <2>2
  <2>4. /\ IsFiniteSet(kept \cup {p})
        /\ InTransit(kept \cup {p}) = InTransit(kept) + 1
    BY Zenon, <1>1, <2>2, <2>3, CountOfMore
  <2>5. n \in Int /\ n = in_transit[e] - InTransit(lost) + 1
    <3>1. in_transit[e] \in Int /\ InTransit(lost) \in Int
      BY Zenon, <1>1
    <3>. QED
      BY <3>1
  <2>. HIDE DEF n
  <2>6. n = InTransit(kept \cup {p})
    BY Zenon, <1>1, <2>4, <2>5
  <2>. QED
    BY Zenon, <2>1, <2>4, <2>5, <2>6, ReplacingKeepsCharge
<1>. QED
  BY Zenon, <1>2, <1>3

(* Every step keeps the count.                                             *)
LEMMA NextKeepsCharge ==
  ASSUME Bookkeeping, Charged, [Next]_vars
  PROVE  Charged'
<1>1. ASSUME NEW e \in Ends, PrepareNew(e)
      PROVE  Charged'
  <2>1. PICK hole, lost, kept :
          /\ hole \in BOOLEAN /\ lost \in SUBSET retransmit[e]
          /\ kept = Queue(e, hole) \ lost
          /\ \/ \E kind \in {"data", "probe"} : \E frames, ack :
                  Finalize(e, hole, kept, ProbesIn(lost), kind, frames, ack)
             \/ SendNothing(e, hole, kept, ProbesIn(lost))
    BY ZenonT(40), <1>1, PrepareNewCases
  <2>. QED
    BY ZenonT(40), <2>1, SendingKeepsCharge
<1>2. ASSUME NEW e \in Ends, PrepareRepeat(e)
      PROVE  Charged'
  <2>1. PICK hole, lost, repeated, kept :
          /\ hole \in BOOLEAN /\ lost \in SUBSET retransmit[e]
          /\ kept = Queue(e, hole) \ lost
          /\ \/ \E kind \in {"data", "probe"} : \E frames, ack :
                  Finalize(e, hole, kept, repeated, kind, frames, ack)
             \/ SendNothing(e, hole, kept, repeated)
    BY ZenonT(90), <1>2, PrepareRepeatCases
  <2>. QED
    BY ZenonT(40), <2>1, SendingKeepsCharge
<1>3. ASSUME NEW e \in Ends, IncomingPacket(e)
      PROVE  Charged'
  <2>1. PICK m \in net[e], recent \in BOOLEAN, old \in SUBSET retransmitted[e] :
          LET ack     == IF Acceptable(e, m.ack) THEN m.ack ELSE {}
              cleared == Cleared(Reached(e, ack, recent))
          IN  DecodeAckFrame(e, ack, cleared, old)
    BY ZenonT(40), <1>3 DEF IncomingPacket
  <2> DEFINE ack == IF Acceptable(e, m.ack) THEN m.ack ELSE {}
  <2> DEFINE cleared == Cleared(Reached(e, ack, recent))
  <2>2. cleared \in SUBSET retransmit[e]
    BY DEF Cleared, Reached
  <2>3. /\ retransmit' = [retransmit EXCEPT ![e] = retransmit[e] \ cleared]
        /\ in_transit' = [in_transit EXCEPT ![e] = in_transit[e] - InTransit(cleared)]
    BY Zenon, <2>1 DEF DecodeAckFrame
  <2>. HIDE DEF cleared
  <2>4. /\ IsFiniteSet(retransmit[e]) /\ in_transit[e] = InTransit(retransmit[e])
    BY Zenon DEF Charged
  <2>5. /\ IsFiniteSet(retransmit[e] \ cleared)
        /\ in_transit[e] \in Int /\ InTransit(cleared) \in Int
        /\ InTransit(retransmit[e] \ cleared) = in_transit[e] - InTransit(cleared)
    BY Zenon, <2>2, <2>4, CountOfRest
  <2>6. in_transit[e] - InTransit(cleared) \in Int
    BY <2>5
  <2>. QED
    BY Zenon, <2>3, <2>5, <2>6, ReplacingKeepsCharge
<1>4. ASSUME NEW e \in Ends, IncomingDuplicate(e) \/ Lose(e)
      PROVE  Charged'
  BY <1>4 DEF IncomingDuplicate, Lose, sending, Charged
<1>5. CASE UNCHANGED vars
  BY <1>5 DEF vars, sending, Charged
<1>. QED
  BY <1>1, <1>2, <1>3, <1>4, <1>5 DEF Next

(* The bytes in transit are those of the queued packets, traps excepted,   *)
(* after any mix of acknowledgements, losses and repetitions, so the       *)
(* congestion window is neither leaked nor overdrawn (sender.c:715, 752).  *)
THEOREM TransitIsCounted == Spec => []InTransitIsQueue
<1>1. Init => Charged
  <2>1. {p \in {} : p.kind # "trap"} = {}
    OBVIOUS
  <2>2. InTransit({}) = 0
    BY <2>1, FS_EmptySet DEF InTransit
  <2>. QED
    BY <2>2, FS_EmptySet DEF Init, Charged
<1>2. Bookkeeping /\ Charged /\ [Next]_vars => Charged'
  BY NextKeepsCharge
<1>3. Charged => InTransitIsQueue
  BY DEF Charged, InTransitIsQueue
<1>. QED
  BY <1>1, <1>2, <1>3, BookkeepingHolds, PTL DEF Spec
=============================================================================
