---------------------------- MODULE PathControl ----------------------------
(***************************************************************************)
(* How fast, how large and how late: the control loop of one path of a     *)
(* connection that has data to send.  It joins the round trip estimator    *)
(* (frames.c), the retransmission timer, pacing, the search for the path   *)
(* MTU and the wake time (sender.c), the two congestion algorithms         *)
(* (newreno.c, cubic.c) and the spin bit (spinbit.c).                      *)
(*                                                                         *)
(* The model is one of discrete events: `now' jumps to the next time at    *)
(* which the sender is due to wake or the peer to acknowledge.  Times are  *)
(* milliseconds where the code counts microseconds, the constants scaled   *)
(* with them.  A link delays a packet by one of link.delays, which stands  *)
(* for the whole round trip: the acknowledgement comes at once.  It loses  *)
(* what exceeds link.mtu, and within a budget other packets and            *)
(* acknowledgements.  The header is counted as data, and the shape of      *)
(* Cubic's curve is left open within its bounds.                           *)
(***************************************************************************)
EXTENDS Integers, FiniteSets, FiniteSetsExt, SequencesExt

CONSTANT
    Links   \* what may lie between the two ends, see below

VARIABLES
    link,   \* [alg, delays, mtu, lossy, ackdelay, cwin, data, queued, max_packet_size]
    now,    \* the simulated time
    wake,   \* cnx->next_wake_time
    path,   \* the path, with the state of its congestion algorithm
    ctx,    \* the packet context: queue, retransmitted list and counters
    data,   \* bytes of the stream not yet sent
    net,    \* packets that arrive or have arrived at the peer
    peer,   \* the peer's last acknowledgement
    seen    \* history, read only by the properties

vars == <<link, now, wake, path, ctx, data, net, peer, seen>>

INITIAL_RTT == 250
TARGET_RENO_RTT == 100
INITIAL_RETRANSMIT_TIMER == 1000
MIN_RETRANSMIT_TIMER == 20
ACK_DELAY_MAX == 10
MAX_ACK_DELAY == 25
SILENCE_MAX == 120000
INITIAL_MTU == 1252
MAX_PACKET_SIZE == 1536
PRACTICAL_MAX_MTU == 1440
CWIN_MINIMUM == 1536
CHECKSUM == 16
Unlimited == 2^30       \* (uint64_t)-1 as a threshold

\* Division of the code's signed integers, which truncates.
Quotient(a, b) == IF a >= 0 THEN a \div b ELSE -((-a) \div b)

AtLeast(low, x) == IF x < low THEN low ELSE x
Earlier(a, b) == IF a < b THEN a ELSE b

\* Op(v), where v is evaluated once.
Applied(Op(_), v) == CHOOSE w \in {Op(u) : u \in {v}} : TRUE

---------------------------------------------------------------------------
(* Pacing: a bucket of time that fills as time passes.                     *)

\* picoquic_update_pacing_bucket
Filled(p) ==
    IF now > p.evaluated
    THEN [p EXCEPT !.bucket = Earlier(p.bucket_max, p.bucket + (now - p.evaluated) * 1024),
                   !.evaluated = now]
    ELSE p

\* picoquic_update_pacing_data
picoquic_update_pacing_data(p) ==
    LET rtt == p.smoothed_rtt * 1024
        time == (rtt * p.send_mtu) \div p.cwin
    IN  IF p.cwin < p.send_mtu * 8
        THEN [p EXCEPT !.bucket_max = rtt, !.packet_time = 1, !.packet_wait = 1]
        ELSE [p EXCEPT !.bucket_max = AtLeast(2 * AtLeast(1, time), rtt \div 4),
                       !.packet_time = AtLeast(1, time),
                       !.packet_wait = IF time = 0 THEN 1 ELSE (time + 1023) \div 1024]

\* picoquic_update_pacing_after_send
AfterSend(p) ==
    LET f == Filled(p)
    IN  [f EXCEPT !.bucket = IF @ < f.packet_time THEN 0 ELSE @ - f.packet_time]

---------------------------------------------------------------------------
(* Congestion control.  p.alg is the algorithm's own state.                *)

StartAlgorithm(kind) ==
    [kind |-> kind, state |-> "slow_start", residual |-> 0, ssthresh |-> Unlimited,
     start |-> 0, min_rtt |-> 0, last_rtt |-> <<>>, nb_rtt |-> 0,
     W_max |-> Unlimited, W_last_max |-> Unlimited, W_reno |-> Unlimited]

Samples(kind) == IF kind = "newreno" THEN 4 ELSE 6

\* The window of samples is overwritten in a circle.
Sampled(a, rtt) ==
    LET i == IF a.nb_rtt >= Samples(a.kind) THEN 1 ELSE a.nb_rtt + 1
    IN  [a EXCEPT !.min_rtt = IF @ = 0 \/ rtt < @ THEN rtt ELSE @,
                  !.nb_rtt = i,
                  !.last_rtt = IF i > Len(@) THEN Append(@, rtt) ELSE ReplaceAt(@, i, rtt)]

\* The smallest recent sample exceeds the smallest of all by a quarter.
RttHasGrown(a) == (Min(ToSet(a.last_rtt)) - a.min_rtt) * 4 > a.min_rtt

SlowStart(p, bytes) ==
    p.cwin + IF p.smoothed_rtt <= TARGET_RENO_RTT
             THEN bytes
             ELSE (p.smoothed_rtt * bytes) \div TARGET_RENO_RTT

picoquic_newreno_enter_recovery(p, notification) ==
    LET threshold == AtLeast(CWIN_MINIMUM, p.cwin \div 2)
        timeout == notification = "timeout"
    IN  [p EXCEPT !.cwin = IF timeout THEN CWIN_MINIMUM ELSE threshold,
                  !.alg.ssthresh = threshold,
                  !.alg.state = IF timeout THEN "slow_start" ELSE "avoidance",
                  !.alg.start = now,
                  !.alg.residual = 0]

NewReno(p, notification, rtt, bytes) ==
    LET a == p.alg
        slow == SlowStart(p, bytes)
        complete == bytes * p.send_mtu + a.residual
        sampled == Sampled(a, rtt)
    IN  CASE notification = "acknowledgement" /\ a.state = "slow_start" ->
               [p EXCEPT !.cwin = slow,
                         !.alg.state = IF slow >= a.ssthresh THEN "avoidance" ELSE @]
          [] notification = "acknowledgement" /\ a.state # "slow_start" ->
               [p EXCEPT !.cwin = @ + complete \div p.cwin,
                         !.alg.residual = complete % p.cwin]
          [] notification \in {"repeat", "timeout"} /\ now - a.start > p.smoothed_rtt ->
               picoquic_newreno_enter_recovery(p, notification)
          [] notification = "spurious_repeat" /\ now - a.start < p.smoothed_rtt
                                              /\ p.cwin < 2 * a.ssthresh ->
               [p EXCEPT !.cwin = 2 * a.ssthresh, !.alg.state = "avoidance"]
          [] notification = "rtt_measurement" /\ a.state = "slow_start"
                                              /\ a.ssthresh = Unlimited ->
               [p EXCEPT !.alg = [sampled EXCEPT !.state =
                                    IF RttHasGrown(sampled) THEN "avoidance" ELSE @]]
          [] OTHER -> p

\* W_max, W_last_max and W_reno are in bytes here; the code keeps the first
\* two in packets.
picoquic_cubic_enter_recovery(p, notification) ==
    LET a == p.alg
        top == IF p.cwin < a.W_last_max THEN (p.cwin * 7) \div 8 ELSE p.cwin
        threshold == AtLeast(CWIN_MINIMUM, (top * 7) \div 8)
        timeout == notification = "timeout"
    IN  [p EXCEPT !.cwin = IF timeout THEN CWIN_MINIMUM ELSE threshold,
                  !.alg = [a EXCEPT !.W_max = top, !.W_last_max = p.cwin,
                                    !.ssthresh = threshold,
                                    !.W_reno = IF timeout THEN @ ELSE p.cwin \div 2,
                                    !.start = now,
                                    !.state = IF timeout THEN "slow_start" ELSE "avoidance"]]

\* The curve starts at 7/8 of W_max, flattens there and rises beyond it:
\* `eighths' is where on it the acknowledgement comes.
Cubic(p, notification, rtt, bytes, eighths) ==
    LET a == p.alg
        slow == SlowStart(p, bytes)
        reno == a.W_reno + (bytes * p.send_mtu) \div a.W_reno
        sampled == Sampled(a, rtt)
        grown == [sampled EXCEPT !.ssthresh = p.cwin, !.W_max = p.cwin,
                                 !.W_last_max = p.cwin, !.W_reno = p.cwin \div 2,
                                 !.state = "avoidance", !.start = now]
    IN  CASE notification = "acknowledgement" /\ a.state = "slow_start" ->
               IF slow < a.ssthresh
               THEN [p EXCEPT !.cwin = slow]
               ELSE [p EXCEPT !.cwin = slow, !.alg.W_reno = slow \div 2,
                              !.alg.state = "avoidance", !.alg.start = now]
          [] notification = "acknowledgement" /\ a.state = "avoidance" ->
               [p EXCEPT !.cwin = AtLeast(reno, (a.W_max * eighths) \div 8),
                         !.alg.W_reno = reno]
          [] notification \in {"repeat", "timeout"} /\ now - a.start > p.smoothed_rtt ->
               picoquic_cubic_enter_recovery(p, notification)
          [] notification = "rtt_measurement" /\ a.state = "slow_start"
                                              /\ a.ssthresh = Unlimited ->
               [p EXCEPT !.alg = IF RttHasGrown(sampled) THEN grown ELSE sampled]
          [] OTHER -> p

Eighths(kind) == IF kind = "cubic" THEN {7, 8, 12} ELSE {8}

\* congestion_alg->alg_notify: the window, then the pacing derived from it.
Notify(p, notification, rtt, bytes, eighths) ==
    LET Window(q) == IF q.alg.kind = "newreno" THEN NewReno(q, notification, rtt, bytes)
                                               ELSE Cubic(q, notification, rtt, bytes, eighths)
    IN  Applied(picoquic_update_pacing_data, Applied(Window, p))

---------------------------------------------------------------------------
(* Round trips.                                                            *)

\* Only the first sample of a path finds the initial values in place.
picoquic_update_path_rtt(p, rtt, ack_delay, eighths) ==
    LET seen_delay == AtLeast(p.max_ack_delay, ack_delay)
        distance == IF rtt < p.smoothed_rtt THEN p.smoothed_rtt - rtt ELSE rtt - p.smoothed_rtt
        smoothed == p.smoothed_rtt + Quotient(rtt - p.smoothed_rtt, 8)
        lowest == Earlier(rtt, p.rtt_min)
        raw == p.rtt_variant + Quotient(distance - p.rtt_variant, 4)
        variant == IF 4 * raw < lowest THEN lowest \div 4 ELSE raw
        estimated ==
            IF p.smoothed_rtt = INITIAL_RTT /\ p.rtt_variant = 0
            THEN [p EXCEPT !.max_ack_delay = seen_delay, !.smoothed_rtt = rtt,
                           !.rtt_variant = rtt \div 2, !.rtt_min = rtt,
                           !.retransmit_timer = AtLeast(MIN_RETRANSMIT_TIMER, 3 * rtt + seen_delay)]
            ELSE [p EXCEPT !.max_ack_delay = seen_delay, !.smoothed_rtt = smoothed,
                           !.rtt_variant = variant, !.rtt_min = lowest,
                           !.retransmit_timer = AtLeast(MIN_RETRANSMIT_TIMER,
                                                  smoothed + 4 * variant + MAX_ACK_DELAY)]
    IN  Notify(estimated, "rtt_measurement", rtt, 0, eighths)

\* picoquic_retransmit_needed_by_packet: when a packet counts as lost.
RetransmitTime(p) ==
    LET delta_seq == ctx.highest - p.pn
        timer == p.sent + path.retransmit_timer
        rack == ctx.latest + MAX_ACK_DELAY + (path.smoothed_rtt \div 4)
    IN  IF delta_seq > 0
        THEN IF delta_seq < 3 THEN Earlier(timer, rack) ELSE timer
        ELSE IF ctx.nb_retransmit = 1 THEN p.sent + 1000 ELSE timer

TimerBased(p) == ctx.highest <= p.pn

---------------------------------------------------------------------------
(* The search for the path MTU.                                            *)


picoquic_next_mtu_probe_length(p) ==
    CASE p.max_tried = 0 /\ link.max_packet_size > 0 ->
           AtLeast(p.send_mtu, Earlier(MAX_PACKET_SIZE, link.max_packet_size))
      [] p.max_tried = 0 /\ link.max_packet_size = 0 -> PRACTICAL_MAX_MTU
      [] p.max_tried > 1500 -> 1500
      [] p.max_tried > 1400 /\ p.max_tried <= 1500 -> 1400
      [] OTHER -> (p.send_mtu + p.max_tried) \div 2

\* nb_bytes_queued only ever grows: it counts what was queued so far.
picoquic_is_mtu_probe_needed(p) ==
    LET probe == picoquic_next_mtu_probe_length(p)
        saved == (link.queued \div p.send_mtu - link.queued \div probe) * 60
    IN  CASE p.probe_sent \/ (p.max_tried # 0 /\ p.max_tried <= 1400) \/ probe <= p.send_mtu ->
               "not_needed"
          [] OTHER -> IF saved > probe THEN "required" ELSE "optional"

---------------------------------------------------------------------------
(* Sending.                                                                *)

Init ==
    /\ link \in Links
    /\ now = 2000
    /\ wake = 2000
    /\ path = [cwin |-> link.cwin, in_transit |-> 0, alg |-> StartAlgorithm(link.alg),
               send_mtu |-> INITIAL_MTU, max_tried |-> 0, probe_sent |-> FALSE,
               smoothed_rtt |-> INITIAL_RTT, rtt_variant |-> 0, rtt_min |-> 0,
               retransmit_timer |-> INITIAL_RETRANSMIT_TIMER, max_ack_delay |-> 0,
               bucket |-> 16, bucket_max |-> 16, evaluated |-> 2000,
               packet_time |-> 1, packet_wait |-> 1, spin |-> 0]
    /\ ctx = [queue |-> <<>>, retransmitted |-> <<>>, next |-> 0, highest |-> -1,
              latest |-> 0, nb_retransmit |-> 0, progress |-> 2000]
    /\ data = link.data
    /\ net = {}
    /\ peer = [highest |-> 0, at |-> 0]
    /\ seen = [lost |-> 0, repeated |-> FALSE, cut |-> FALSE, rtts |-> {},
               edge |-> 0, shortest |-> Unlimited]

Size(p) == p.length + CHECKSUM
InTransit(p, size) == IF p.in_transit > size THEN p.in_transit - size ELSE 0

\* A packet that is sent arrives after one of the link's delays or is lost.
Fates(size) ==
    (IF size <= link.mtu THEN link.delays ELSE {-1}) \cup
    (IF seen.lost < link.lossy THEN {-1} ELSE {})

\* picoquic_finalize_and_protect_packet and picoquic_queue_for_retransmit: the
\* packet takes the path p and the context c, and the connection is due again.
Send(p, c, length, probe, again) ==
    \E fate \in Fates(length + CHECKSUM) :
       /\ path' = AfterSend([p EXCEPT !.in_transit = @ + length + CHECKSUM,
                                      !.probe_sent = @ \/ probe])
       /\ ctx' = [c EXCEPT !.queue = Append(@, [pn |-> c.next, length |-> length,
                                                sent |-> now, probe |-> probe]),
                           !.next = @ + 1, !.progress = now]
       /\ net' = IF fate = -1 THEN net
                 ELSE net \cup {[pn |-> c.next, at |-> now + fate, spin |-> path.spin]}
       /\ seen' = [seen EXCEPT
                     !.lost = IF fate = -1 /\ length + CHECKSUM <= link.mtu THEN @ + 1 ELSE @,
                     !.cut = @ \/ p.cwin < path.cwin,
                     !.repeated = @ \/ again]
       /\ wake' = now

\* picoquic_retransmit_needed walks from the oldest packet over the lost
\* probes, up to the first packet that is repeated or is not lost.
Walked ==
    LET q == ctx.queue
        stops == {i \in DOMAIN q : ~(q[i].probe /\ now >= RetransmitTime(q[i]))}
    IN  IF stops = {} THEN Len(q) ELSE Min(stops)

LostProbes == {i \in 1..Walked : ctx.queue[i].probe /\ now >= RetransmitTime(ctx.queue[i])}
Repeated == {i \in 1..Walked : ~ctx.queue[i].probe /\ now >= RetransmitTime(ctx.queue[i])}

\* picoquic_copy_before_retransmit on a lost probe.
ProbeLost(p, probe) ==
    [p EXCEPT !.probe_sent = FALSE, !.max_tried = Size(probe), !.in_transit = InTransit(p, Size(probe))]

\* The path and the context once the lost packets have left the queue.
PathAfterLoss ==
    LET dropped == FoldLeft(ProbeLost, path, SubSeq(ctx.queue, 1, Cardinality(LostProbes)))
        old == ctx.queue[Walked]
    IN  IF Repeated = {} THEN dropped
        ELSE Notify([dropped EXCEPT !.in_transit = InTransit(dropped, Size(old))],
                    IF TimerBased(old) THEN "timeout" ELSE "repeat", 0, 0, 8)

ContextAfterLoss ==
    LET gone == Cardinality(LostProbes \cup Repeated)
    IN  [ctx EXCEPT !.queue = SubSeq(@, gone + 1, Len(@)),
                    !.retransmitted = @ \o SubSeq(ctx.queue, 1, gone),
                    !.nb_retransmit = IF Repeated # {} /\ TimerBased(ctx.queue[Walked])
                                      THEN @ + 1 ELSE @]

\* The wake time the timers ask for.
TimersDue == Min({ctx.progress + SILENCE_MAX} \cup {RetransmitTime(ctx.queue[i]) : i \in 1..Walked})

\* Nothing is left to do: the model stops here, the code would sleep.
Finished == data = 0 /\ ctx.queue = <<>> /\ picoquic_is_mtu_probe_needed(path) = "not_needed"

\* A connection that was silent for too long is closed instead
\* (picoquic_prepare_segment): the model stops short of the end.
Awake == now >= wake /\ ~Finished /\ now < ctx.progress + SILENCE_MAX

\* picoquic_prepare_packet_ready: a packet that was lost goes first, whatever
\* the window and the pacing say.
Retransmit ==
    /\ Awake
    /\ Repeated # {}
    /\ Send(PathAfterLoss, ContextAfterLoss, ctx.queue[Walked].length, FALSE, TRUE)
    /\ UNCHANGED <<link, now, data, peer>>

\* The path as new data finds it.  The bucket is looked at, and so filled, if
\* the window is open.
CwinBlocked(p) == p.cwin < p.in_transit
NewPath == {IF CwinBlocked(p) THEN p ELSE Filled(p) : p \in {PathAfterLoss}}
Authorized(p) == ~CwinBlocked(p) /\ p.bucket > 0

\* If the search for the MTU is required, a probe takes precedence over data.
CanSendData(p) ==
    Authorized(p) /\ data > 0 /\ picoquic_is_mtu_probe_needed(p) # "required"

CanProbe(p) ==
    /\ Authorized(p) /\ ~CanSendData(p)
    /\ picoquic_is_mtu_probe_needed(p) # "not_needed"
    /\ p.cwin > p.in_transit

SendData ==
    /\ Awake /\ Repeated = {}
    /\ \E p \in NewPath :
          LET length == Earlier(p.send_mtu - CHECKSUM, data)
          IN  /\ CanSendData(p)
              /\ Send(p, ContextAfterLoss, length, FALSE, FALSE)
              /\ data' = data - length
    /\ UNCHANGED <<link, now, peer>>

SendProbe ==
    /\ Awake /\ Repeated = {}
    /\ \E p \in NewPath :
          /\ CanProbe(p)
          /\ Send(p, ContextAfterLoss, picoquic_next_mtu_probe_length(p) - CHECKSUM, TRUE, FALSE)
    /\ UNCHANGED <<link, now, data, peer>>

\* Nothing to send: the connection sleeps until a timer, the window or the
\* pacing calls it.
Sleep ==
    /\ Awake /\ Repeated = {}
    /\ \E p \in NewPath :
          /\ ~CanSendData(p) /\ ~CanProbe(p)
          /\ path' = p
          /\ wake' = CASE CwinBlocked(p) -> Earlier(TimersDue, now + p.smoothed_rtt)
                       [] ~CwinBlocked(p) /\ ~Authorized(p) -> Earlier(TimersDue, now + p.packet_wait)
                       [] OTHER -> TimersDue
    /\ ctx' = ContextAfterLoss
    /\ UNCHANGED <<link, now, data, net, peer, seen>>

---------------------------------------------------------------------------
(* Acknowledgements.                                                       *)

Arrived == {n \in net : n.at <= now}
Unacknowledged == {n \in Arrived : n.at > peer.at}
LargestArrived == Max({n.pn : n \in Arrived})

\* picoquic_is_ack_needed at the peer: two packets, or the delay is over.
AckNeeded ==
    /\ Unacknowledged # {}
    /\ peer.highest + 2 <= LargestArrived \/ peer.at + link.ackdelay <= now

\* The ranges are read from the largest down; in each the packets of the
\* queue come first, then those already repeated.
Before(R, a, b) ==
    LET Top(pn) == Max({m \in R : pn <= m /\ pn..m \subseteq R})
    IN  \/ Top(a.pk.pn) > Top(b.pk.pn)
        \/ /\ Top(a.pk.pn) = Top(b.pk.pn)
           /\ \/ ~a.spurious /\ b.spurious
              \/ a.spurious = b.spurious /\ a.pk.pn > b.pk.pn

\* picoquic_process_ack_range on one packet of the queue.
Acknowledged(p, pk, eighths) ==
    LET larger == Size(pk) > p.send_mtu
        Dequeued(n) == [n EXCEPT !.send_mtu = IF larger THEN Size(pk) ELSE @,
                                 !.probe_sent = @ /\ ~larger,
                                 !.in_transit = InTransit(n, Size(pk))]
    IN  Applied(Dequeued, Notify(p, "acknowledgement", 0, pk.length, eighths))

\* picoquic_check_spurious_retransmission on one repeated packet.
Spurious(p, pk, eighths) ==
    LET larger == Size(pk) > p.send_mtu
    IN  Notify([p EXCEPT !.send_mtu = IF larger THEN Size(pk) ELSE @,
                         !.max_tried = IF larger THEN AtLeast(@, Size(pk)) ELSE @,
                         !.probe_sent = @ /\ ~larger],
               "spurious_repeat", 0, 0, eighths)

\* picoquic_update_rtt.  The walk over the queue starts at the largest packet
\* only if it is news and reported without delay; otherwise it sees no more
\* than the oldest packet.
AckDelay == now - (CHOOSE n \in Arrived : n.pn = LargestArrived).at
Recent == LargestArrived > ctx.highest /\ AckDelay < ACK_DELAY_MAX
Measured == {p \in ToSet(ctx.queue) : Recent /\ p.pn = LargestArrived}
Rtt(p) == now - AckDelay - p.sent

\* What the ranges R acknowledge, in order.
AckSteps(R) ==
    LET steps == {[pk |-> ctx.queue[i], spurious |-> FALSE] :
                     i \in {j \in DOMAIN ctx.queue : ctx.queue[j].pn \in R /\ (Recent \/ j = 1)}}
                 \cup {[pk |-> p, spurious |-> TRUE] :
                     p \in {x \in ToSet(ctx.retransmitted) : x.pn \in R}}
        place(s) == 1 + Cardinality({t \in steps : Before(R, t, s)})
    IN  [n \in 1..Cardinality(steps) |-> CHOOSE s \in steps : place(s) = n]

\* The path after the frame.
PathAfterAck(steps, eighths) ==
    LET start == IF Measured = {} THEN path
                 ELSE picoquic_update_path_rtt(path, Rtt(CHOOSE p \in Measured : TRUE), AckDelay, eighths)
        Apply(p, s) == IF s.spurious THEN Spurious(p, s.pk, eighths)
                                     ELSE Acknowledged(p, s.pk, eighths)
        walk[n \in 0..Len(steps)] ==
            IF n = 0 THEN start ELSE Applied(LAMBDA p : Apply(p, steps[n]), walk[n - 1])
    IN  walk[Len(steps)]

\* The peer's own spin bit is that of the last packet to arrive, and this end
\* inverts it (picoquic_spinbit_basic_incoming at both ends).
SpinAfterAck ==
    1 - (CHOOSE n \in Arrived :
            \A m \in Arrived : m.at < n.at \/ (m.at = n.at /\ m.pn <= n.pn)).spin

\* picoquic_decode_ack_frame_maybe_ecn
IncomingAck ==
    \E R \in {{n.pn : n \in Arrived}}, eighths \in Eighths(link.alg) :
    \E steps \in {AckSteps(R)} :
    \E after \in {PathAfterAck(steps, eighths)}, spin \in {SpinAfterAck},
       latest \in {Max({ctx.latest} \cup {p.sent : p \in Measured})} :
       LET acked == {s.pk.pn : s \in {t \in ToSet(steps) : ~t.spurious}}
       IN  /\ path' = [after EXCEPT !.spin = spin]
           /\ ctx' = [ctx EXCEPT
                        !.queue = SelectSeq(@, LAMBDA x : x.pn \notin acked),
                        !.retransmitted = SelectSeq(@, LAMBDA x : x.pn \notin R /\ x.sent + 1000 >= latest),
                        !.highest = AtLeast(LargestArrived, @),
                        !.latest = latest,
                        !.nb_retransmit = IF acked # {} THEN 0 ELSE @,
                        !.progress = IF Measured # {} THEN now ELSE @]
           /\ seen' = [seen EXCEPT
                         !.cut = @ \/ after.cwin < path.cwin,
                         !.rtts = @ \cup {Rtt(p) : p \in Measured},
                         !.edge = IF spin # path.spin THEN now ELSE @,
                         !.shortest = IF spin # path.spin /\ seen.edge # 0
                                      THEN Earlier(@, now - seen.edge) ELSE @]
           /\ wake' = now

PeerAck ==
    /\ AckNeeded /\ ~Finished
    /\ peer' = [highest |-> LargestArrived, at |-> now]
    /\ IncomingAck
    /\ UNCHANGED <<link, now, data, net>>

AckLost ==
    /\ AckNeeded /\ ~Finished
    /\ seen.lost < link.lossy
    /\ seen' = [seen EXCEPT !.lost = @ + 1]
    /\ peer' = [highest |-> LargestArrived, at |-> now]
    /\ UNCHANGED <<link, now, wake, path, ctx, data, net>>

\* Time passes to the next event.
Elapse ==
    /\ ~Finished /\ wake > now /\ ~AckNeeded
    /\ now' = Min({wake} \cup {n.at : n \in net \ Arrived}
                         \cup (IF Unacknowledged # {} THEN {peer.at + link.ackdelay} ELSE {}))
    /\ UNCHANGED <<link, wake, path, ctx, data, net, peer, seen>>

Next == Retransmit \/ SendData \/ SendProbe \/ Sleep \/ PeerAck \/ AckLost \/ Elapse

Spec == Init /\ [][Next]_vars

LiveSpec == Spec /\ WF_vars(Next)

---------------------------------------------------------------------------
(* Properties.                                                             *)

Clean == Cardinality(link.delays) = 1 /\ link.lossy = 0

\* On a link that neither reorders nor loses anything but probes that are too
\* large, nothing is repeated, the window is never cut and the spin bit turns
\* at most once per round trip: the retransmission timer outlasts the peer's
\* delayed acknowledgements at every stage of the estimate
\* (frames.c:1957-2003), and a lost probe is not taken for congestion
\* (sender.c:1026-1035).
CleanLinkUndisturbed ==
    Clean => /\ ~seen.repeated
             /\ ~seen.cut
             /\ seen.shortest >= Min(link.delays)

\* The sizes the search may try.
Ladder ==
    LET first == IF link.max_packet_size = 0 THEN PRACTICAL_MAX_MTU ELSE link.max_packet_size
    IN  {first} \cup {s \in {1500, 1400} : s < first}

\* The search for the MTU ends with the largest of the sizes it may try that
\* the link carries, unless a probe of that size was lost by accident, and
\* never with one the link does not carry (sender.c:1336-1406).
SearchFindsMtu ==
    /\ path.send_mtu <= link.mtu
    /\ Clean /\ Finished =>
         path.send_mtu = Max({INITIAL_MTU} \cup {s \in Ladder : s <= link.mtu})

\* The smoothed round trip stays between the smallest and the largest sample
\* whatever is lost, late or repeated (frames.c:1949-2013), the bytes in
\* transit are those of the queue through every repeat and late
\* acknowledgement (sender.c:713-760), and New Reno keeps the minimum window.
EstimatesHold ==
    /\ seen.rtts # {} => /\ Min(seen.rtts) <= path.smoothed_rtt
                         /\ path.smoothed_rtt <= Max(seen.rtts)
    /\ path.in_transit = FoldLeft(LAMBDA n, p : n + Size(p), 0, ctx.queue)
    /\ link.alg = "newreno" => path.cwin >= CWIN_MINIMUM
=============================================================================
