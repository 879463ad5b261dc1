------------------------------- MODULE Context -------------------------------
(***************************************************************************)
(* The context of an endpoint (picoquic_quic_t) and the loop of the demo   *)
(* server that drives it: the list of connections, the list sorted by wake *)
(* time, the hash tables that lead from an identifier or an address to a   *)
(* connection, the pool of packets and the queue of stateless answers.     *)
(*                                                                         *)
(* Lists are doubly linked and written pointer by pointer; NULL is a       *)
(* pointer to nothing.  Contexts are slots of memory that are reused once  *)
(* freed.  Wake times are relative to the current time: 0 is now or        *)
(* earlier, and the passage of time brings all of them closer.  Of a       *)
(* connection itself the module keeps what the context sees: how many      *)
(* packets it has to send before it goes back to sleep (`work`), whether   *)
(* it is over, and how many packets it holds.                              *)
(***************************************************************************)
EXTENDS Integers, FiniteSets, SequencesExt

CONSTANTS Slots,      \* memory for connection contexts
          NULL,       \* the null pointer, not a slot
          AddressOf,  \* the address of each client, by the client's number
          Bins,       \* number of bins of a hash table
          MaxPool,    \* PICOQUIC_MAX_PACKETS_IN_POOL
          Burst,      \* bound on the packets sent in a row by a connection
          MaxDelay,   \* bound on the delay before the next wake up
          MaxIds,     \* bound on the identifiers created
          MaxPackets  \* bound on the datagrams that arrive

VARIABLES
  quic,     \* the context
  pc,       \* where the loop is: "select", "stateless" or "send"
  created,  \* number of identifiers created, which are 1, 2, ...
  arrived,  \* number of datagrams received
  turns     \* history: calls of picoquic_prepare_packet in this pass

vars == <<quic, pc, created, arrived, turns>>

Clients == DOMAIN AddressOf
Live(q) == {c \in Slots : q.cnx[c] # NULL}

-----------------------------------------------------------------------------
(* Hash tables: a chain of items per bin, newest first.  Keys are numbers, *)
(* so that the hash of a key is its remainder.                             *)

EmptyTable == [b \in 0 .. Bins - 1 |-> <<>>]

picohash_retrieve(table, key) ==
    LET found == SelectSeq(table[key % Bins], LAMBDA item : item.key = key)
    IN  IF found = <<>> THEN NULL ELSE Head(found).cnx

picohash_insert(table, key, c) ==
    [table EXCEPT ![key % Bins] = <<[key |-> key, cnx |-> c]>> \o @]

picohash_item_delete(table, key) ==
    [table EXCEPT ![key % Bins] = SelectSeq(@, LAMBDA item : item.key # key)]

(* A key that is already in the table is not registered again.             *)
picoquic_register_cnx_id(q, c, id) ==
    IF picohash_retrieve(q.by_id, id) # NULL THEN q
    ELSE [q EXCEPT !.by_id = picohash_insert(@, id, c),
                   !.cnx[c].ids = Append(@, id)]

picoquic_register_net_id(q, c, addr) ==
    IF picohash_retrieve(q.by_net, addr) # NULL THEN q
    ELSE [q EXCEPT !.by_net = picohash_insert(@, addr, c),
                   !.cnx[c].nets = Append(@, addr)]

(* Registrations removed with the paths of a connection.                   *)
picoquic_clear_path_data(q, ids, nets) ==
    [q EXCEPT !.by_id = FoldLeft(picohash_item_delete, @, ids),
              !.by_net = FoldLeft(picohash_item_delete, @, nets)]

-----------------------------------------------------------------------------
(* The list of connections.                                                *)

picoquic_insert_cnx_in_list(q, c) ==
    LET first == q.cnx_list
        linked == IF first # NULL
                  THEN [q EXCEPT !.cnx[first].previous_in_table = c]
                  ELSE [q EXCEPT !.cnx_last = c]
    IN  [linked EXCEPT !.cnx_list = c,
                       !.cnx[c].next_in_table = first,
                       !.cnx[c].previous_in_table = NULL]

picoquic_remove_cnx_from_list(q, c) ==
    LET next == q.cnx[c].next_in_table
        previous == q.cnx[c].previous_in_table
        below == IF next = NULL THEN [q EXCEPT !.cnx_last = previous]
                 ELSE [q EXCEPT !.cnx[next].previous_in_table = previous]
    IN  IF previous = NULL THEN [below EXCEPT !.cnx_list = next]
        ELSE [below EXCEPT !.cnx[previous].next_in_table = next]

-----------------------------------------------------------------------------
(* The list by wake time.                                                  *)

picoquic_remove_cnx_from_wake_list(q, c) ==
    LET next == q.cnx[c].next_by_wake_time
        previous == q.cnx[c].previous_by_wake_time
        below == IF next = NULL THEN [q EXCEPT !.cnx_wake_last = previous]
                 ELSE [q EXCEPT !.cnx[next].previous_by_wake_time = previous]
    IN  IF previous = NULL THEN [below EXCEPT !.cnx_wake_first = next]
        ELSE [below EXCEPT !.cnx[previous].next_by_wake_time = next]

(* The scan from the head passes the connections that wake no later.  The  *)
(* result is the last one passed and the one it stopped at.                *)
RECURSIVE Scan(_, _, _, _)
Scan(q, time, previous, next) ==
    IF next # NULL /\ q.cnx[next].next_wake_time <= time
    THEN Scan(q, time, next, q.cnx[next].next_by_wake_time)
    ELSE [previous |-> previous, next |-> next]

LinkAt(q, c, place) ==
    LET after == [q EXCEPT !.cnx[c].previous_by_wake_time = place.previous,
                           !.cnx[c].next_by_wake_time = place.next]
        above == IF place.previous = NULL
                 THEN [after EXCEPT !.cnx_wake_first = c]
                 ELSE [after EXCEPT !.cnx[place.previous].next_by_wake_time = c]
    IN  IF place.next = NULL THEN [above EXCEPT !.cnx_wake_last = c]
        ELSE [above EXCEPT !.cnx[place.next].previous_by_wake_time = c]

picoquic_insert_cnx_by_wake_time(q, c) ==
    LinkAt(q, c, Scan(q, q.cnx[c].next_wake_time, NULL, q.cnx_wake_first))

picoquic_reinsert_by_wake_time(q, c, time) ==
    picoquic_insert_cnx_by_wake_time(
        [picoquic_remove_cnx_from_wake_list(q, c)
            EXCEPT !.cnx[c].next_wake_time = time], c)

picoquic_get_earliest_cnx_to_wake(q) ==
    LET c == q.cnx_wake_first
    IN  IF c # NULL /\ q.cnx[c].next_wake_time > 0 THEN NULL ELSE c

picoquic_get_next_wake_delay(q) ==
    IF q.cnx_wake_first = NULL THEN MaxDelay
    ELSE q.cnx[q.cnx_wake_first].next_wake_time

-----------------------------------------------------------------------------
(* The pool of packets: `allocated` counts the packets in memory.          *)

picoquic_create_packet(q) ==
    IF q.pool = 0 THEN [q EXCEPT !.allocated = @ + 1]
    ELSE [q EXCEPT !.pool = @ - 1]

picoquic_recycle_packet(q) ==
    IF q.pool >= MaxPool THEN [q EXCEPT !.allocated = @ - 1]
    ELSE [q EXCEPT !.pool = @ + 1]

RECURSIVE RecycleAll(_, _)
RecycleAll(q, n) ==
    IF n = 0 THEN q ELSE RecycleAll(picoquic_recycle_packet(q), n - 1)

-----------------------------------------------------------------------------
(* Creation and deletion of a connection.                                  *)

NewConnection(a) ==
    [client |-> a, ids |-> <<>>, nets |-> <<>>, work |-> 1, over |-> FALSE,
     held |-> 0, next_wake_time |-> 0,
     next_in_table |-> NULL, previous_in_table |-> NULL,
     next_by_wake_time |-> NULL, previous_by_wake_time |-> NULL]

(* Allocation and insertion in both lists, before TLS is set up; then the  *)
(* registration of the first path with a new identifier.                   *)
Allocated(q, c, a) ==
    picoquic_insert_cnx_by_wake_time(
        picoquic_insert_cnx_in_list([q EXCEPT !.cnx[c] = NewConnection(a)], c), c)

picoquic_register_path(q, c, id) ==
    picoquic_register_net_id(picoquic_register_cnx_id(q, c, id), c,
                             AddressOf[q.cnx[c].client])


picoquic_delete_cnx(q, c) ==
    LET gone == picoquic_remove_cnx_from_wake_list(
                    picoquic_remove_cnx_from_list(q, c), c)
        cleared == picoquic_clear_path_data(gone, q.cnx[c].ids, q.cnx[c].nets)
    IN  [RecycleAll(cleared, q.cnx[c].held) EXCEPT !.cnx[c] = NULL]

picoquic_queue_stateless_packet(q, addr) ==
    [q EXCEPT !.pending = Append(@, addr)]

-----------------------------------------------------------------------------
(* Arrival of a datagram.                                                  *)

(* Packets found by the address of their sender must carry the identifier  *)
(* that the client chose for its first packet.                             *)
ContextOfInitial(q, a) ==
    LET c == picohash_retrieve(q.by_net, AddressOf[a])
    IN  IF c # NULL /\ q.cnx[c].client = a THEN c ELSE NULL

(* What a connection makes of a packet it accepts: acknowledgements release *)
(* packets, there is something to send, the connection may be over, or one  *)
(* of its paths is deleted with the identifier the peer retires.            *)
Accepted(q, c) ==
    LET alive == q.cnx[c]
        busy == [q EXCEPT !.cnx[c].work = Burst]
    IN  {busy, [q EXCEPT !.cnx[c].over = TRUE],
         [RecycleAll(busy, alive.held) EXCEPT !.cnx[c].held = 0]}
        \cup IF Len(alive.ids) < 2 THEN {}
             ELSE {[picoquic_clear_path_data(busy, <<Head(alive.ids)>>, <<>>)
                        EXCEPT !.cnx[c].ids = Tail(alive.ids)]}

(* picoquic_incoming_segment for a known connection.  A duplicate is to be *)
(* acknowledged, but does not wake the connection.                         *)
IncomingKnown(c) ==
    /\ UNCHANGED created
    /\ \/ \E q \in Accepted(quic, c) :
              quic' = picoquic_reinsert_by_wake_time(q, c, 0)
       \/ quic' = picoquic_reinsert_by_wake_time(quic, c, 0)
       \/ quic' = [quic EXCEPT !.cnx[c].work = IF @ = 0 THEN 1 ELSE @]

(* A client's first packet without a context: the new context is kept, or  *)
(* deleted again when TLS cannot be set up, decryption fails, or the       *)
(* client is asked to retry.                                               *)
IncomingNew(a) ==
    \E c \in Slots \ Live(quic) :
        LET allocated == Allocated(quic, c, a)
            registered == picoquic_register_path(allocated, c, created + 1)
        IN  \/ /\ quic' = picoquic_delete_cnx(allocated, c)
               /\ UNCHANGED created
            \/ /\ created < MaxIds
               /\ created' = created + 1
               /\ quic' \in
                     {picoquic_reinsert_by_wake_time(registered, c, 0),
                      picoquic_delete_cnx(registered, c),
                      picoquic_queue_stateless_packet(
                          picoquic_delete_cnx(registered, c), AddressOf[a])}

IncomingInitial(a) ==
    LET c == ContextOfInitial(quic, a)
    IN  IF c = NULL THEN IncomingNew(a) ELSE IncomingKnown(c)

(* A packet to an identifier that was given out: an unknown one is         *)
(* answered by a stateless reset.                                          *)
IncomingById(id, a) ==
    LET c == picohash_retrieve(quic.by_id, id)
    IN  IF c # NULL THEN IncomingKnown(c)
        ELSE /\ quic' = picoquic_queue_stateless_packet(quic, AddressOf[a])
             /\ UNCHANGED created

-----------------------------------------------------------------------------
(* The loop of quic_server.                                                *)

Elapse(q, time) ==
    [q EXCEPT !.cnx = [c \in Slots |->
        IF @[c] = NULL THEN NULL
        ELSE [@[c] EXCEPT !.next_wake_time = IF @ > time THEN @ - time ELSE 0]]]

TimesOut ==
    /\ pc = "select"
    /\ quic' = Elapse(quic, picoquic_get_next_wake_delay(quic))
    /\ pc' = "stateless"
    /\ UNCHANGED <<created, arrived, turns>>

Receive ==
    /\ pc = "select"
    /\ arrived < MaxPackets
    /\ arrived' = arrived + 1
    /\ \/ \E a \in Clients : IncomingInitial(a)
       \/ \E id \in 1 .. created, a \in Clients : IncomingById(id, a)
    /\ pc' = "stateless"
    /\ UNCHANGED turns

(* All the stateless packets are sent, then the pass over the connections  *)
(* that are due begins.                                                    *)
SendStateless ==
    /\ pc = "stateless"
    /\ quic' = [quic EXCEPT !.pending = IF @ = <<>> THEN @ ELSE Tail(@)]
    /\ pc' = IF Len(quic.pending) <= 1 THEN "send" ELSE pc
    /\ turns' = [c \in Slots |-> 0]
    /\ UNCHANGED <<created, arrived>>

(* picoquic_prepare_packet on the earliest connection: a packet is made    *)
(* and kept until it is acknowledged, possibly with a new path and its     *)
(* identifier; or there is nothing to send and the connection goes to      *)
(* sleep; or it is over, and is deleted, which ends the pass.              *)
Serve ==
    LET c == picoquic_get_earliest_cnx_to_wake(quic)
        q == picoquic_create_packet(quic)
        sent == [q EXCEPT !.cnx[c].work = @ - 1, !.cnx[c].held = @ + 1]
    IN  /\ pc = "send"
        /\ c # NULL
        /\ UNCHANGED arrived
        /\ \/ /\ quic.cnx[c].work > 0 /\ ~quic.cnx[c].over
              /\ \/ /\ quic' = picoquic_reinsert_by_wake_time(sent, c, 0)
                    /\ UNCHANGED created
                 \/ /\ created < MaxIds
                    /\ created' = created + 1
                    /\ quic' = picoquic_reinsert_by_wake_time(
                           picoquic_register_cnx_id(sent, c, created + 1), c, 0)
              /\ turns' = [turns EXCEPT ![c] = @ + 1]
              /\ UNCHANGED pc
           \/ /\ quic.cnx[c].work = 0 /\ ~quic.cnx[c].over
              /\ \E time \in 1 .. MaxDelay :
                     quic' = picoquic_reinsert_by_wake_time(
                                 picoquic_recycle_packet(q), c, time)
              /\ turns' = [turns EXCEPT ![c] = @ + 1]
              /\ UNCHANGED <<created, pc>>
           \/ /\ quic.cnx[c].over \/ quic.cnx[c].work = 0
              /\ quic' = picoquic_delete_cnx(picoquic_recycle_packet(q), c)
              /\ turns' = [turns EXCEPT ![c] = 0]
              /\ pc' = "select"
              /\ UNCHANGED created

Rest ==
    /\ pc = "send"
    /\ picoquic_get_earliest_cnx_to_wake(quic) = NULL
    /\ pc' = "select"
    /\ UNCHANGED <<quic, created, arrived, turns>>

Init ==
    /\ quic = [cnx |-> [c \in Slots |-> NULL], cnx_list |-> NULL, cnx_last |-> NULL,
               cnx_wake_first |-> NULL, cnx_wake_last |-> NULL,
               by_id |-> EmptyTable, by_net |-> EmptyTable,
               pool |-> 0, allocated |-> 0, pending |-> <<>>]
    /\ pc = "select"
    /\ created = 0
    /\ arrived = 0
    /\ turns = [c \in Slots |-> 0]

Next == TimesOut \/ Receive \/ SendStateless \/ Serve \/ Rest

Spec == Init /\ [][Next]_vars

-----------------------------------------------------------------------------
(* Properties.                                                             *)

(* The n contexts met from `first` on, along the pointer `field`.           *)
Walk(q, first, field) ==
    LET n == Cardinality(Slots) + 1
        w[i \in 1 .. n] == IF i = 1 THEN first
                           ELSE IF w[i - 1] = NULL \/ q.cnx[w[i - 1]] = NULL THEN NULL
                           ELSE q.cnx[w[i - 1]][field]
    IN  SelectSeq([i \in 1 .. n |-> w[i]], LAMBDA c : c # NULL)

(* Both lists (quicctx.c:568-645) hold every live context once and no      *)
(* freed one, read the same in both directions, and the second is sorted   *)
(* by wake time; the hash tables lead from an identifier or address to the *)
(* live context it was registered for and to nothing else, whatever        *)
(* contexts were deleted in between; packets are in the pool, held by one  *)
(* connection, or freed.                                                   *)
TablesAgree ==
    LET q == quic
        by_table == Walk(q, q.cnx_list, "next_in_table")
        by_wake == Walk(q, q.cnx_wake_first, "next_by_wake_time")
        Items(table) == UNION {ToSet(table[b]) : b \in DOMAIN table}
    IN  /\ ToSet(by_table) = Live(q) /\ Len(by_table) = Cardinality(Live(q))
        /\ ToSet(by_wake) = Live(q) /\ Len(by_wake) = Cardinality(Live(q))
        /\ Walk(q, q.cnx_last, "previous_in_table") = Reverse(by_table)
        /\ Walk(q, q.cnx_wake_last, "previous_by_wake_time") = Reverse(by_wake)
        /\ \A i \in 1 .. Len(by_wake) - 1 :
              q.cnx[by_wake[i]].next_wake_time <= q.cnx[by_wake[i + 1]].next_wake_time
        /\ Items(q.by_id) = {[key |-> id, cnx |-> c] : <<c, id>> \in
              UNION {{c} \X ToSet(q.cnx[c].ids) : c \in Live(q)}}
        /\ Items(q.by_net) = {[key |-> addr, cnx |-> c] : <<c, addr>> \in
              UNION {{c} \X ToSet(q.cnx[c].nets) : c \in Live(q)}}
        /\ q.allocated = q.pool + FoldFunctionOnSet(LAMBDA c, n : c.held + n, 0,
                                                    q.cnx, Live(q))

(* A client that repeats its first packet, before or after the server's    *)
(* answer, has one context at most: the repeat is led to it by the table   *)
(* of addresses (packet.c:316-348), whose entry lives as long as the       *)
(* context does.                                                           *)
OneContext ==
    \A c, d \in Live(quic) : quic.cnx[c].client = quic.cnx[d].client => c = d

(* Within a pass of the server's loop no connection that is due falls more *)
(* than one packet behind another: those that have just sent are inserted  *)
(* after the others that are due (quicctx.c:618).                          *)
FairTurns ==
    pc = "send" =>
        \A c, d \in Live(quic) :
            quic.cnx[c].next_wake_time = 0 => turns[d] <= turns[c] + 1
=============================================================================
