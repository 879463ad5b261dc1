------------------------ MODULE TransportParameters ------------------------
(***************************************************************************)
(* The transport parameters (transport.c): each end writes its own into a  *)
(* TLS extension, the client in its hello, the server in its answer, and   *)
(* reads the peer's.  The windows of streams follow from them: those of    *)
(* streams the client writes before it has the server's parameters are     *)
(* set from assumed values and corrected when they arrive.                 *)
(*                                                                         *)
(* A parameter set has the fields of picoquic_tp_t; limits of streams are  *)
(* small here (module StreamLimits), times in microseconds as in the code. *)
(***************************************************************************)
EXTENDS Varint, FiniteSets, SequencesExt

CONSTANTS Links,        \* parameters of both ends and what else the plan fixes
          BufferSize    \* sizeof(ext_data)

VARIABLES link,    \* the plan chosen
          tp,      \* remote parameters, as far as received, at each end
          state,   \* of each end: "start", "received" or "error"
          window,  \* windows of the streams an end has, by stream type
          logged   \* what the client's log shows of the server's parameters
vars == <<link, tp, state, window, logged>>

Ends == {"client", "server"}
Peer(e) == IF e = "client" THEN "server" ELSE "client"
Local(e) == link[e]

ACK_DELAY_MAX_DEFAULT == 25000
MAX_ACK_DELAY_MAX_MS == 16384
DEFAULT_0RTT_WINDOW == 4096
NB_PATH_TARGET == 8
RESET_SECRET_SIZE == 16
Infinite == -1   \* the time-out (uint32_t)-1
NoLimit == -1    \* the stream number 2^64 - 1
NoAddress == [defined |-> FALSE, ip4 |-> <<0, 0, 0, 0>>, port4 |-> 0,
              ip6 |-> [i \in 1..16 |-> 0], port6 |-> 0, cid |-> <<>>, token |-> <<>>]

(* picoquic_tp_enum                                                        *)
Code == [original_connection_id |-> 0, idle_timeout |-> 1, stateless_reset_token |-> 2,
         max_packet_size |-> 3, initial_max_data |-> 4, bidi_local |-> 5, bidi_remote |-> 6,
         uni |-> 7, max_streams_bidi |-> 8, max_streams_uni |-> 9, ack_delay_exponent |-> 10,
         max_ack_delay |-> 11, disable_migration |-> 12, preferred_address |-> 13,
         active_connection_id_limit |-> 14, max_datagram_size |-> 32]

(***************************************************************************)
(* Writing                                                                 *)
(***************************************************************************)
Raw(name, bytes) == picoformat_16(Code[name]) \o picoformat_16(Len(bytes)) \o bytes
Number(name, n) == Raw(name, picoquic_varint_encode(n))
When(condition, bytes) == IF condition THEN bytes ELSE <<>>

picoquic_prepare_transport_param_stream_id(id) == IF id = NoLimit THEN 0 ELSE 1 + id \div 4

(* The port of the IPv4 address is written for both addresses.             *)
picoquic_encode_transport_param_prefered_address(p) ==
    Raw("preferred_address", p.ip4 \o picoformat_16(p.port4) \o p.ip6 \o picoformat_16(p.port4)
                             \o <<Len(p.cid)>> \o p.cid \o p.token)

Milliseconds(delay) == (delay + 999) \div 1000

(* In the order of the code.  The reset token is left out when it does not *)
(* fit; anything else that does not fit leaves the end without extension.  *)
picoquic_prepare_transport_extensions(p, server, draft20, original) ==
    LET head == Number("bidi_local", p.bidi_local) \o Number("initial_max_data", p.initial_max_data)
                \o When(p.streams_bidi # 0, Number("max_streams_bidi",
                        picoquic_prepare_transport_param_stream_id(p.streams_bidi)))
                \o Number("idle_timeout", p.idle_timeout)
                \o Number("max_packet_size", p.max_packet_size)
        token == When(server /\ 2 + Len(head) + 4 + RESET_SECRET_SIZE < BufferSize,
                      Raw("stateless_reset_token", [i \in 1..RESET_SECRET_SIZE |-> 200 + i]))
        tail == When(p.ack_delay_exponent # 3, Number("ack_delay_exponent", p.ack_delay_exponent))
                \o When(p.streams_uni # 0, Number("max_streams_uni",
                        picoquic_prepare_transport_param_stream_id(p.streams_uni)))
                \o When(p.preferred.defined,
                        picoquic_encode_transport_param_prefered_address(p.preferred))
                \o When(p.migration_disabled, Raw("disable_migration", <<>>))
                \o When(p.bidi_remote > 0, Number("bidi_remote", p.bidi_remote))
                \o When(p.uni > 0, Number("uni", p.uni))
                \o When(~draft20 /\ p.active_connection_id_limit > 0,
                        Number("active_connection_id_limit", p.active_connection_id_limit))
                \o When(p.max_ack_delay # ACK_DELAY_MAX_DEFAULT,
                        Number("max_ack_delay", Milliseconds(p.max_ack_delay)))
                \o When(server /\ original # <<>>, Raw("original_connection_id", original))
                \o When(p.max_datagram_size > 0, Number("max_datagram_size", p.max_datagram_size))
        Extended(list) ==
            IF 2 + Len(list) > BufferSize THEN <<>> ELSE picoformat_16(Len(list)) \o list
    IN  Extended(head \o token \o tail)

(***************************************************************************)
(* Reading                                                                 *)
(***************************************************************************)
(* The entries of a list from position at to end, as records of type and   *)
(* value; an entry that does not fit ends the list with a malformed one.   *)
Malformed == [type |-> -1, value |-> <<>>]
RECURSIVE Entries(_, _, _)
Entries(b, at, end) ==
    IF at > end THEN <<>>
    ELSE IF at + 3 > end THEN <<Malformed>>
    ELSE LET len == PICOPARSE_16(b, at + 2)
         IN  IF at + 3 + len > end THEN <<Malformed>>
             ELSE <<[type |-> PICOPARSE_16(b, at), value |-> SubSeq(b, at + 4, at + 3 + len)]>>
                  \o Entries(b, at + 4 + len, end)
ExtensionEntries(b) ==
    IF Len(b) < 2 \/ 2 + PICOPARSE_16(b, 1) > Len(b) THEN <<Malformed>>
    ELSE Entries(b, 3, 2 + PICOPARSE_16(b, 1))

(* The log lists the entries of an extension of fewer than 256 bytes, and  *)
(* shows the first bytes of a longer one.                                  *)
picoquic_log_transport_extension_content(b) ==
    IF Len(b) < 256 THEN ExtensionEntries(b) ELSE <<>>

picoquic_transport_param_varint_decode(v) ==
    LET r == picoquic_frames_varint_decode(v, 1)
    IN  [ok |-> r.at = Len(v) + 1, n |-> r.n]

(* The streams counted are those the reader may open.                      *)
picoquic_decode_transport_param_stream_id(rank, at_client, kind) ==
    IF rank = 0 THEN NoLimit ELSE kind + (IF at_client THEN 0 ELSE 1) + 4 * (rank - 1)

picoquic_decode_transport_param_prefered_address(v) ==
    LET n == v[25]
    IN  IF Len(v) < 41 THEN [ok |-> FALSE, p |-> NoAddress]
        ELSE IF n = 0 \/ n > 20 \/ 25 + n + 16 # Len(v) THEN [ok |-> FALSE, p |-> NoAddress]
        ELSE [ok |-> TRUE,
              p |-> [defined |-> TRUE, ip4 |-> SubSeq(v, 1, 4), port4 |-> PICOPARSE_16(v, 5),
                     ip6 |-> SubSeq(v, 7, 22), port6 |-> PICOPARSE_16(v, 23),
                     cid |-> SubSeq(v, 26, 25 + n), token |-> SubSeq(v, 26 + n, 41 + n)]]

(* Before the list is read everything is zero, but for the exponent.       *)
Cleared == [bidi_local |-> 0, bidi_remote |-> 0, uni |-> 0, initial_max_data |-> 0,
            streams_bidi |-> 0, streams_uni |-> 0, idle_timeout |-> 0, max_packet_size |-> 0,
            max_ack_delay |-> 0, active_connection_id_limit |-> 0, ack_delay_exponent |-> 3,
            migration_disabled |-> FALSE, preferred |-> NoAddress, max_datagram_size |-> 0]

(* One entry, at the client or at the server: an integer goes to its   *)
(* field.  A known type that comes twice is an error, an unknown type is   *)
(* passed over.                                                            *)
IntFields == {"bidi_local", "bidi_remote", "uni", "initial_max_data", "idle_timeout",
              "max_packet_size", "active_connection_id_limit", "max_datagram_size"}
Name(type) == CHOOSE name \in DOMAIN Code : Code[name] = type
Known(type) == \E name \in DOMAIN Code : Code[name] = type
ReadEntry(r, e, at_client) ==
    LET name == Name(e.type)
        int  == picoquic_transport_param_varint_decode(e.value)
        addr == picoquic_decode_transport_param_prefered_address(e.value)
        Set(field, value, ok) == [r EXCEPT !.p = [@ EXCEPT ![field] = value], !.ok = @ /\ ok]
        fresh == e.type >= 64 \/ e.type \notin r.present
        one == IF ~Known(e.type) THEN r
               ELSE CASE name \in IntFields -> Set(name, int.n, int.ok)
                 [] name = "max_streams_bidi" -> Set("streams_bidi",
                      picoquic_decode_transport_param_stream_id(int.n, at_client, 0), int.ok)
                 [] name = "max_streams_uni" -> Set("streams_uni",
                      picoquic_decode_transport_param_stream_id(int.n, at_client, 2), int.ok)
                 [] name = "ack_delay_exponent" -> Set("ack_delay_exponent", int.n % 256, int.ok)
                 [] name = "max_ack_delay" -> Set("max_ack_delay", int.n * 1000,
                      int.ok /\ int.n <= MAX_ACK_DELAY_MAX_MS)
                 [] name = "disable_migration" -> Set("migration_disabled", TRUE, e.value = <<>>)
                 [] name = "preferred_address" -> Set("preferred", addr.p, addr.ok)
                 [] name = "stateless_reset_token" ->
                      [r EXCEPT !.ok = @ /\ at_client /\ Len(e.value) = RESET_SECRET_SIZE]
                 [] name = "original_connection_id" ->
                      [r EXCEPT !.original = e.value, !.ok = @ /\ e.value # <<>> /\ Len(e.value) <= 20]
    IN  IF ~r.ok THEN r
        ELSE IF e = Malformed THEN [r EXCEPT !.ok = FALSE]
        ELSE [one EXCEPT !.ok = @ /\ fresh, !.present = @ \cup {e.type}]

(* The list of the peer, read over what was remembered.  A client must not *)
(* send what only servers have; the client compares the identifier it used *)
(* before a retry with the one the server names.                           *)
ServerOnly == {Code["stateless_reset_token"], Code["preferred_address"],
               Code["original_connection_id"]}
picoquic_receive_transport_extensions(b, at_client, draft20, original) ==
    LET none == [p |-> Cleared, ok |-> TRUE, present |-> {}, original |-> <<>>]
        Completed(r) ==
            LET has(name) == Code[name] \in r.present
            IN  [p |-> [r.p EXCEPT
                          !.active_connection_id_limit =
                              IF draft20 /\ ~has("active_connection_id_limit")
                              THEN NB_PATH_TARGET ELSE @,
                          !.idle_timeout = IF @ = 0 THEN Infinite ELSE @,
                          !.max_ack_delay =
                              IF has("max_ack_delay") THEN @ ELSE ACK_DELAY_MAX_DEFAULT],
                 ok |-> /\ r.ok
                        /\ ~at_client => r.present \cap ServerOnly = {}
                        /\ at_client /\ original # <<>> => r.original = original]
    IN  Completed(FoldLeft(LAMBDA acc, e : ReadEntry(acc, e, at_client), none,
                           ExtensionEntries(b)))

(***************************************************************************)
(* Streams                                                                 *)
(***************************************************************************)
(* A stream stands for all of its type, named by who opens it.             *)
Streams == {[opener |-> e, bidir |-> b] : e \in Ends, b \in BOOLEAN}

picoquic_create_stream(e, s) ==
    IF ~s.bidir THEN IF s.opener = e THEN [send |-> tp[e].uni, recv |-> 0]
                                     ELSE [send |-> 0, recv |-> Local(e).uni]
    ELSE IF s.opener = e THEN [send |-> tp[e].bidi_remote, recv |-> Local(e).bidi_local]
    ELSE [send |-> tp[e].bidi_local, recv |-> Local(e).bidi_remote]

(* Streams written before the parameters came are given the larger window. *)
picoquic_update_stream_initial_remote(e, p) ==
    [s \in DOMAIN window[e] |->
        LET initial == IF s.bidir THEN p.bidi_remote ELSE p.uni
        IN  IF s.opener = e /\ window[e][s].send < initial
            THEN [window[e][s] EXCEPT !.send = initial] ELSE window[e][s]]

(***************************************************************************)
(* Both ends                                                               *)
(***************************************************************************)
(* What an end assumes of its peer when the connection is made; a client   *)
(* that has a ticket takes the stream windows of the earlier connection.   *)
(* The field initial_max_data stands for maxdata_remote too, which does    *)
(* not follow the ticket.                                                  *)
Assumed == [Cleared EXCEPT !.bidi_remote = DEFAULT_0RTT_WINDOW, !.uni = DEFAULT_0RTT_WINDOW,
                           !.initial_max_data = DEFAULT_0RTT_WINDOW, !.ack_delay_exponent = 0]
Remembered(t) == [Assumed EXCEPT !.bidi_local = t.bidi_local, !.bidi_remote = t.bidi_remote,
                                 !.uni = t.uni, !.streams_bidi = t.streams_bidi,
                                 !.streams_uni = t.streams_uni]

Init ==
    /\ link \in Links
    /\ tp = [e \in Ends |-> IF e = "client" /\ link.ticket # <<>>
                            THEN Remembered(link.ticket[1]) ELSE Assumed]
    /\ state = [e \in Ends |-> "start"]
    /\ window = [e \in Ends |-> <<>>]
    /\ logged = <<>>

(* The extension end e sends, after entries of types unknown to the peer   *)
(* when e is another implementation.                                       *)
Extension(e) ==
    LET With(b) ==
            LET list == link.unknown \o SubSeq(b, 3, Len(b))
            IN  IF b = <<>> THEN b ELSE picoformat_16(Len(list)) \o list
    IN  With(picoquic_prepare_transport_extensions(Local(e), e = "server", link.draft20,
                                                   link.original))

(* The callback of TLS at end e: the peer's list is read, and the server   *)
(* then writes its own, whatever came of it.                               *)
picoquic_tls_collected_extensions_cb(e) ==
    /\ state[e] = "start"
    /\ e = "client" => state["server"] # "start"
    /\ \E b \in {Extension(Peer(e))} :
       \E r \in {picoquic_receive_transport_extensions(b, e = "client", link.draft20,
                                                       link.original)} :
        /\ b # <<>>
        /\ state' = [state EXCEPT ![e] = IF r.ok THEN "received" ELSE "error"]
        /\ tp' = [tp EXCEPT ![e] = r.p]
        /\ window' = [window EXCEPT ![e] = picoquic_update_stream_initial_remote(e, r.p)]
        /\ logged' = IF e = "client" THEN picoquic_log_transport_extension_content(b) ELSE logged
    /\ UNCHANGED link

(* The application opens a stream: a client at any time, before the        *)
(* parameters too, a server once it has the client's.                      *)
Open(e, s) ==
    /\ s.opener = e
    /\ e = "client" \/ state[e] = "received"
    /\ s \notin DOMAIN window[e]
    /\ window' = [window EXCEPT ![e] = (s :> picoquic_create_stream(e, s)) @@ @]
    /\ UNCHANGED <<link, tp, state, logged>>

(* The first frame of a stream of the peer arrives, early data included.   *)
Arrive(e, s) ==
    /\ s.opener = Peer(e)
    /\ s \in DOMAIN window[Peer(e)] \ DOMAIN window[e]
    /\ state[e] = "received"
    /\ window' = [window EXCEPT ![e] = (s :> picoquic_create_stream(e, s)) @@ @]
    /\ UNCHANGED <<link, tp, state, logged>>

Next == \E e \in Ends : \/ picoquic_tls_collected_extensions_cb(e)
                         \/ \E s \in Streams : Open(e, s) \/ Arrive(e, s)
Spec == Init /\ [][Next]_vars

-----------------------------------------------------------------------------
(* Each end ends up with the parameters its peer was given: nothing picoquic *)
(* writes is refused or lost by picoquic, whatever the sizes of the values,  *)
(* with and without a retry, in both drafts and among entries of unknown     *)
(* types.  Only the acknowledgement delay changes: it is rounded up to the   *)
(* millisecond.  The log shows the list that was received, entry by entry.   *)
Meant(p, delay) ==
    [p EXCEPT !.idle_timeout = IF @ = 0 THEN Infinite ELSE @,
              !.active_connection_id_limit = IF link.draft20 THEN NB_PATH_TARGET ELSE @,
              !.max_ack_delay = delay]

(* For a stream of either type, opened by either end, before the peer's      *)
(* parameters came or after: what the sender may send never exceeds what     *)
(* the receiver accepts, and once the sender has the parameters it is all of *)
(* it.  picoquic_create_stream chooses between six parameters, and           *)
(* picoquic_update_stream_initial_remote mends the streams of early data.    *)
WindowsAgree ==
    \A e \in Ends : \A s \in DOMAIN window[e] \cap DOMAIN window[Peer(e)] :
        /\ window[e][s].send <= window[Peer(e)][s].recv
        /\ state[e] = "received" => window[e][s].send = window[Peer(e)][s].recv
=============================================================================
