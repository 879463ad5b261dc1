---------------------------- MODULE StreamLimits ----------------------------
(***************************************************************************)
(* How many streams an end may open.  One end, the opener, writes streams; *)
(* the other, the acceptor, states its limits in the transport parameters, *)
(* raises them with MAX_STREAMS frames when streams are done, and answers  *)
(* every bidirectional stream with a FIN.  Streams over the limit wait,    *)
(* outside the list of output streams, for the limit to be raised.         *)
(*                                                                         *)
(* A stream carries one byte and a FIN, in one frame or in two.  Windows   *)
(* are open (module StreamTransfer).  Frames are delayed and reordered at  *)
(* will; a lost frame is repeated unless it need not be.  Numbers have 64  *)
(* bits in the code, Word being 2^64, and fewer here; a varint keeps all   *)
(* but the two highest.                                                    *)
(***************************************************************************)
EXTENDS Integers, FiniteSets, SequencesExt

CONSTANTS Word,   \* 2^64
          Plans   \* who opens which streams, the limits, the faults

VARIABLES plan,   \* the plan chosen
          o, a,   \* the contexts of the opener and of the acceptor
          net,    \* frames in flight
          read    \* streams the acceptor's application has read to the FIN
vars == <<plan, o, a, net, read>>

Kinds == {"bidir", "unidir"}
None == -1

(* Stream identifiers (picoquic_internal.h:441-447).                       *)
Kind(id) == IF (id \div 2) % 2 = 0 THEN "bidir" ELSE "unidir"
STREAM_TYPE_FROM_ID(id) == id % 4
STREAM_RANK_FROM_ID(id) == ((id + 4) % Word) \div 4
STREAM_ID_FROM_RANK(rank, is_server, kind) ==
    (4 * (rank - 1) + (IF kind = "unidir" THEN 2 ELSE 0) + (IF is_server THEN 1 ELSE 0)) % Word
Wire(n) == n % (Word \div 4)

(* The first identifier of a kind that an end of this role opens.          *)
First(client, kind) == STREAM_ID_FROM_RANK(1, ~client, kind)

(* The transport parameter for a limit; a limit of zero is not sent, and   *)
(* the receiver then assumes zero.  Its comparison with 2^32 - 1 never     *)
(* holds for the limits of the plans.                                      *)
picoquic_prepare_transport_param_stream_id(id) == IF id = Word - 1 THEN 0 ELSE 1 + id \div 4
picoquic_decode_transport_param_stream_id(rank, kind) ==
    IF rank = 0 THEN Word - 1 ELSE STREAM_ID_FROM_RANK(rank, ~plan.client, kind)
ToldLimit(limit, kind) ==
    IF limit = 0 THEN 0
    ELSE picoquic_decode_transport_param_stream_id(
             Wire(picoquic_prepare_transport_param_stream_id(limit)), kind)

(***************************************************************************)
(* Streams of the opener and its list of output streams                    *)
(***************************************************************************)
NewOut == [data |-> FALSE, fin_requested |-> FALSE, fin_sent |-> FALSE, answered |-> FALSE]

(* picoquic_create_stream for every identifier up to id.  A stream within  *)
(* the limit enters the list in front.                                     *)
Missing(c, id) == {n \in c.next[Kind(id)]..id : n % 4 = id % 4}
picoquic_create_missing_streams(c, id) ==
    LET new == Missing(c, id)
        listed == {n \in new : n <= c.limit[Kind(id)]}
    IN  [c EXCEPT !.next[Kind(id)] = id + 4,
                  !.str = [n \in DOMAIN c.str \cup new |->
                               IF n \in new THEN NewOut ELSE c.str[n]],
                  !.out = SetToSortSeq(listed, >) \o @]

(* Streams between the limits that wait, in the order of the stream tree.  *)
(* The walk starts at the first identifier over the old limit and does     *)
(* nothing if that stream does not exist.                                  *)
picoquic_add_output_streams(c, kind, old, new) ==
    LET first == STREAM_ID_FROM_RANK(STREAM_RANK_FROM_ID(old) + 1, ~plan.client, kind)
        walked == {n \in DOMAIN c.str : n >= first /\ n > old /\ n <= new /\ Kind(n) = kind}
        added == walked \ ToSet(c.out)
    IN  IF first \notin DOMAIN c.str THEN c
        ELSE [c EXCEPT !.out = SetToSortSeq(added, >) \o @]

picoquic_is_stream_closed(c, id) ==
    /\ c.str[id].fin_requested /\ c.str[id].fin_sent
    /\ Kind(id) = "bidir" => c.str[id].answered
picoquic_delete_stream(c, id) ==
    [c EXCEPT !.str = [n \in DOMAIN @ \ {id} |-> @[n]],
              !.last = IF @ = id THEN None ELSE @]

SomethingToSend(s) == s.data \/ (s.fin_requested /\ ~s.fin_sent)
Exhausted(s) == s.fin_requested /\ s.fin_sent

(* The streams in the order of the search: from the one after the last     *)
(* visited, once around the list.                                          *)
SearchOrder(c) ==
    IF c.last = None THEN c.out
    ELSE LET k == CHOOSE i \in DOMAIN c.out : c.out[i] = c.last
         IN  SubSeq(c.out, k + 1, Len(c.out)) \o SubSeq(c.out, 1, k)

(* A stream marked high priority comes before all others, and bars them    *)
(* while it is over the limit.  The streams passed over that have sent     *)
(* everything leave the list, and are deleted if they are closed.          *)
OverLimit(c, id) == id > c.limit[Kind(id)]
picoquic_find_ready_stream(c) ==
    LET hi     == c.high
        urgent == hi # None /\ hi \in DOMAIN c.str /\ c.str[hi].data
        order  == SearchOrder(c)
        ready  == {k \in DOMAIN order : SomethingToSend(c.str[order[k]])}
        hit    == IF ready = {} THEN 0 ELSE Min(ready)
        passed == {order[k] : k \in {i \in DOMAIN order :
                                        Exhausted(c.str[order[i]]) /\ (hit = 0 \/ i < hit)}}
        kept   == [c EXCEPT !.out = SelectSeq(@, LAMBDA n : n \notin passed),
                            !.last = None, !.high = None]
        gone   == {n \in passed : picoquic_is_stream_closed(c, n)}
    IN  IF hi # None /\ OverLimit(c, hi) THEN [found |-> None, c |-> c]
        ELSE IF urgent THEN [found |-> hi, c |-> c]
        ELSE [found |-> IF hit = 0 THEN None ELSE order[hit],
              c |-> [kept EXCEPT !.str = [n \in DOMAIN @ \ gone |-> @[n]]]]

(***************************************************************************)
(* Limits of the acceptor                                                  *)
(***************************************************************************)
NewIn == [fin_received |-> FALSE, consumed |-> 0, fin_offset |-> 0,
          fin_sent |-> FALSE, max_stream_updated |-> FALSE]

picoquic_update_max_stream_ID_local(c, id) ==
    LET s == c.str[id]
    IN  IF /\ ~s.max_stream_updated /\ s.fin_received /\ s.consumed >= s.fin_offset
           /\ Kind(id) = "bidir" => s.fin_sent
        THEN [c EXCEPT !.str[id].max_stream_updated = TRUE, !.computed[Kind(id)] = (@ + 4) % Word]
        ELSE c

Due(c, kind) == (c.computed[kind] + c.init[kind] \div 2) % Word > c.limit[kind]
Raised(c, kind) ==
    IF ~Due(c, kind) THEN c.limit[kind]
    ELSE IF kind = "bidir"
         THEN (c.limit[kind] + 4 * STREAM_RANK_FROM_ID(c.init[kind]) + 4) % Word
         ELSE (c.limit[kind] + c.init[kind] + 4) % Word

(* What the frame says: a rank for bidirectional streams, the identifier   *)
(* itself for the others.                                                  *)
Stated(kind, limit) == Wire(IF kind = "bidir" THEN STREAM_RANK_FROM_ID(limit) ELSE limit)
(* When both limits are due the second frame is written over the first and *)
(* as many bytes as the first had follow it, whatever the buffer held      *)
(* there: padding, or bytes that are no frame.                             *)
picoquic_prepare_max_streams_frame_if_needed(c) ==
    LET due  == {k \in Kinds : Due(c, k)}
        kind == IF due = Kinds THEN "unidir" ELSE CHOOSE k \in due : TRUE
    IN  {[t |-> "max_streams", kind |-> kind, rank |-> Stated(kind, Raised(c, kind)),
          malformed |-> m] : m \in IF due = Kinds THEN BOOLEAN ELSE {FALSE}}

(***************************************************************************)
(* The connection                                                          *)
(***************************************************************************)
Init ==
    /\ plan \in Plans
    /\ o = [limit |-> [k \in Kinds |-> IF ~plan.client THEN 0
                                       ELSE IF k = "bidir" THEN 4 ELSE 10],
            next |-> [k \in Kinds |-> First(plan.client, k)],
            str |-> [n \in {} |-> NewOut], out |-> <<>>, last |-> None, high |-> plan.high,
            todo |-> plan.streams, blocked |-> [k \in Kinds |-> FALSE],
            params |-> FALSE, hung |-> FALSE, error |-> FALSE]
    /\ a = [limit |-> plan.limit, init |-> plan.limit,
            computed |-> [k \in Kinds |-> STREAM_TYPE_FROM_ID(plan.limit[k])],
            next |-> [k \in Kinds |-> First(plan.client, k)],
            str |-> [n \in {} |-> NewIn], error |-> FALSE]
    /\ net = {} /\ read = {}

Runs == ~o.error /\ ~o.hung /\ ~a.error

(* The transport parameters of the acceptor, which clear the limits first. *)
picoquic_receive_transport_extensions ==
    LET told == [k \in Kinds |-> ToldLimit(a.init[k], k)]
        one  == picoquic_add_output_streams([o EXCEPT !.limit = told], "bidir", 0, told.bidir)
        two  == picoquic_add_output_streams(one, "unidir", 0, told.unidir)
    IN  /\ Runs /\ ~o.params
        /\ o' = [two EXCEPT !.params = TRUE]
        /\ UNCHANGED <<plan, a, net, read>>

(* The application writes the byte of a stream, with the FIN or without.   *)
(* The application of a server is called when the client's parameters are  *)
(* there; that of a client may write before it has the server's.           *)
picoquic_add_to_stream(id, fin) ==
    /\ Runs /\ id \in o.todo /\ (plan.client \/ o.params)
    /\ LET c == IF id \in DOMAIN o.str THEN o ELSE picoquic_create_missing_streams(o, id)
       IN  o' = [c EXCEPT !.todo = @ \ {id}, !.str[id].data = TRUE, !.str[id].fin_requested = fin]
    /\ UNCHANGED <<plan, a, net, read>>

Finish(id) ==
    /\ Runs /\ id \in DOMAIN o.str \ o.todo /\ ~o.str[id].fin_requested
    /\ o' = [o EXCEPT !.str[id].fin_requested = TRUE]
    /\ UNCHANGED <<plan, a, net, read>>

(* One turn of the loop that fills a packet with stream frames.  A stream  *)
(* over the limit is found again and again.                                *)
picoquic_prepare_stream_frame ==
    \E r \in {picoquic_find_ready_stream(o)} :
    LET s == r.c.str[r.found]
    IN  /\ Runs /\ r.found # None
        /\ IF OverLimit(r.c, r.found)
           THEN o' = [r.c EXCEPT !.hung = TRUE] /\ net' = net
           ELSE /\ net' = net \cup {[t |-> "stream", id |-> r.found, data |-> s.data,
                                     fin |-> s.fin_requested]}
                /\ o' = [r.c EXCEPT !.str[r.found].data = FALSE, !.last = r.found,
                                    !.str[r.found].fin_sent = s.fin_requested]
        /\ UNCHANGED <<plan, a, read>>

(* With no stream to serve the packet says which limits hold streams back. *)
Waiting(c, kind) == {n \in DOMAIN c.str : Kind(n) = kind /\ c.str[n].data /\ OverLimit(c, n)}
picoquic_prepare_blocked_frames ==
    \E r \in {picoquic_find_ready_stream(o)} :
    LET held == {k \in Kinds : Waiting(r.c, k) # {} /\ ~r.c.blocked[k]
                               /\ (o.high = None \/ o.high \notin DOMAIN o.str
                                   \/ o.high \in Waiting(r.c, k))}
        Said(k) == IF o.high \in Waiting(r.c, k) THEN o.high ELSE Min(Waiting(r.c, k))
    IN  /\ Runs /\ r.found = None
        /\ r.c # o \/ held # {}
        /\ o' = [r.c EXCEPT !.blocked = [k \in Kinds |-> @[k] \/ k \in held]]
        /\ net' = net \cup {[t |-> "blocked", kind |-> k, rank |-> STREAM_RANK_FROM_ID(Said(k))] :
                               k \in held}
        /\ UNCHANGED <<plan, a, read>>

(* The acceptor sends its MAX_STREAMS frame.                               *)
RaiseLimits ==
    /\ Runs /\ \E k \in Kinds : Due(a, k)
    /\ \E f \in picoquic_prepare_max_streams_frame_if_needed(a) : net' = net \cup {f}
    /\ a' = [a EXCEPT !.limit = [k \in Kinds |-> Raised(a, k)]]
    /\ UNCHANGED <<plan, o, read>>

(* A stream of the acceptor is deleted when it is read and answered.       *)
Signalled(s) == s.fin_received /\ s.consumed >= s.fin_offset
DeleteIfClosed(c, id) ==
    IF Signalled(c.str[id]) /\ (Kind(id) = "bidir" => c.str[id].fin_sent)
    THEN [c EXCEPT !.str = [n \in DOMAIN @ \ {id} |-> @[n]]] ELSE c

(* The acceptor's application answers: when it has read the FIN, or, in    *)
(* some plans, as soon as the stream exists.                               *)
Answer(id) ==
    /\ Runs /\ id \in DOMAIN a.str /\ Kind(id) = "bidir" /\ ~a.str[id].fin_sent
    /\ plan.eager \/ Signalled(a.str[id])
    /\ net' = net \cup {[t |-> "answer", id |-> id]}
    /\ a' = DeleteIfClosed(picoquic_update_max_stream_ID_local(
                               [a EXCEPT !.str[id].fin_sent = TRUE], id), id)
    /\ UNCHANGED <<plan, o, read>>

Accepts(c, id) == id <= c.limit[Kind(id)]
WithStream(c, id) ==
    [c EXCEPT !.next[Kind(id)] = id + 4,
              !.str = [n \in DOMAIN @ \cup Missing(c, id) |->
                           IF n \in Missing(c, id) THEN NewIn ELSE @[n]]]

(* The FIN is counted against the offset known before its frame.           *)
picoquic_stream_network_input(c, f) ==
    LET fin  == f.fin /\ ~c.str[f.id].fin_received
        c1   == IF fin THEN picoquic_update_max_stream_ID_local(
                                [c EXCEPT !.str[f.id].fin_received = TRUE], f.id) ELSE c
    IN  [c1 EXCEPT !.str[f.id].fin_offset = 1,
                   !.str[f.id].consumed = IF f.data THEN 1 ELSE @]

IncomingStream(f) ==
    LET known == f.id \in DOMAIN a.str
        c == picoquic_stream_network_input(IF known THEN a ELSE WithStream(a, f.id), f)
    IN  /\ f.t = "stream"
        /\ IF ~known /\ f.id < a.next[Kind(f.id)] THEN a' = a /\ read' = read
           ELSE IF ~known /\ ~Accepts(a, f.id) THEN a' = [a EXCEPT !.error = TRUE] /\ read' = read
           ELSE /\ a' = DeleteIfClosed(c, f.id)
                /\ read' = IF Signalled(c.str[f.id]) THEN read \cup {f.id} ELSE read
        /\ o' = o

IncomingAnswer(f) ==
    LET c == [o EXCEPT !.str[f.id].answered = TRUE]
    IN  /\ f.t = "answer"
        /\ o' = IF f.id \notin DOMAIN o.str THEN o
                ELSE IF ~Contains(o.out, f.id) /\ picoquic_is_stream_closed(c, f.id)
                THEN picoquic_delete_stream(c, f.id) ELSE c
        /\ UNCHANGED <<a, read>>

picoquic_decode_max_streams_frame(f) ==
    LET id == STREAM_ID_FROM_RANK(f.rank, ~plan.client, f.kind)
        c  == [picoquic_add_output_streams(o, f.kind, o.limit[f.kind], id)
                   EXCEPT !.limit[f.kind] = id, !.blocked[f.kind] = FALSE]
    IN  /\ f.t = "max_streams"
        /\ o' = [IF id > o.limit[f.kind] THEN c ELSE o
                     EXCEPT !.error = id >= Word \div 4 \/ f.malformed]
        /\ UNCHANGED <<a, read>>

(* STREAMS_BLOCKED is read and ignored.                                    *)
picoquic_decode_streams_blocked_frame(f) == f.t = "blocked" /\ UNCHANGED <<o, a, read>>

(* The opener reads the acceptor's frames once it has its parameters.      *)
Incoming(f) == \/ IncomingStream(f)
               \/ picoquic_decode_streams_blocked_frame(f)
               \/ o.params /\ IncomingAnswer(f)
               \/ o.params /\ picoquic_decode_max_streams_frame(f)

Deliver(f) == Runs /\ Incoming(f) /\ net' = net \ {f} /\ plan' = plan
(* The acknowledgement is late: the frame is sent again.                   *)
DeliverAndRepeat(f) ==
    Runs /\ plan.copied > 0 /\ Incoming(f) /\ net' = net /\ plan' = [plan EXCEPT !.copied = @ - 1]

(* picoquic_check_frame_needs_repeat.  For MAX_STREAMS the type is read    *)
(* after the frame, where anything may be.  Stream frames: StreamTransfer. *)
FaultyNeedsRepeat(f, looks_bidir) ==
    f.t = "max_streams" => a.limit[f.kind] < STREAM_ID_FROM_RANK(f.rank, ~plan.client, f.kind)
NeedsRepeat(f, looks_bidir) ==
    CASE f.t = "max_streams" ->
           /\ ~(looks_bidir /\ a.limit.bidir > STREAM_ID_FROM_RANK(f.rank, plan.client, "bidir"))
           /\ ~(a.limit.unidir > STREAM_ID_FROM_RANK(f.rank, plan.client, "unidir"))
      [] f.t = "blocked" -> /\ o.limit[f.kind] <= STREAM_ID_FROM_RANK(f.rank, ~plan.client, f.kind)
                            /\ o.blocked[f.kind]
      [] OTHER -> TRUE

Lose(f) ==
    /\ Runs /\ plan.lost > 0 /\ plan' = [plan EXCEPT !.lost = @ - 1]
    /\ \E looks_bidir \in BOOLEAN : ~NeedsRepeat(f, looks_bidir) /\ net' = net \ {f}
    /\ UNCHANGED <<o, a, read>>

Progress ==
    \/ picoquic_receive_transport_extensions
    \/ \E id \in plan.streams : (\E fin \in plan.fins : picoquic_add_to_stream(id, fin)) \/ Finish(id)
    \/ picoquic_prepare_stream_frame \/ picoquic_prepare_blocked_frames \/ RaiseLimits
    \/ \E id \in plan.streams : Answer(id)
    \/ \E f \in net : Deliver(f)

Next == Progress \/ \E f \in net : DeliverAndRepeat(f) \/ Lose(f)

Spec == Init /\ [][Next]_vars
LiveSpec == Spec /\ WF_vars(Progress)

(***************************************************************************)
(* Properties                                                              *)
(***************************************************************************)
(* No end is taken for faulty: an opener that keeps to the limits it was   *)
(* told never gets STREAM_LIMIT_ERROR (frames.c:163), whatever the order   *)
(* of the transport parameters, the MAX_STREAMS frames and their copies.   *)
OpenerIsNotAccused == ~a.error /\ ~o.error

(* The loop of picoquic_prepare_packet_ready that fills a packet with      *)
(* stream frames ends: picoquic_find_ready_stream finds no stream that     *)
(* picoquic_prepare_stream_frame refuses to send.                          *)
FillingEnds == ~o.hung
=============================================================================
