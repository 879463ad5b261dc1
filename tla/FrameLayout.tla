---------------------------- MODULE FrameLayout ----------------------------
(***************************************************************************)
(* The frames of a packet as bytes: how they are prepared in the space of  *)
(* a packet, padded, and copied into another packet when the first one is  *)
(* lost; and how three pieces of code read them independently.  The        *)
(* receiver decodes them (picoquic_decode_frames), the sender skips over   *)
(* them when it repeats a packet (picoquic_skip_frame), and the log        *)
(* prints them (picoquic_log_frames).  Draft 22, one packet of the         *)
(* application context.                                                    *)
(*                                                                         *)
(* A frame is its type and its values.  A value is a sequence: of one      *)
(* number, or of the bytes of a token, an identifier or stream data.       *)
(***************************************************************************)
EXTENDS Varint, SequencesExt

CONSTANTS Frames,      \* the frames the sender may want to send
          Streams,     \* the stream data it may want to send
          Spaces,      \* bytes a packet has room for
          PadTargets,  \* lengths that the padding policy asks for
          MaxFrames    \* bound on the frames of a packet

VARIABLES payload,  \* the bytes of the packet
          meant,    \* the frames in it, with their positions, as the sender means them
          misc,     \* frames set aside for the next packet (first_misc_frame)
          space,    \* what the packet has room for
          phase     \* "fill", "sent", "repeat"

vars == <<payload, meant, misc, space, phase>>

-----------------------------------------------------------------------------
(* Frame types (picoquic_internal.h:82-111)                                *)
padding == 0
ping == 1
ack == 2
ack_ecn == 3
reset_stream == 4
stop_sending == 5
crypto_hs == 6
new_token == 7
stream_range == 8..15
max_data == 16
max_stream_data == 17
max_streams_bidir == 18
max_streams_unidir == 19
data_blocked == 20
stream_data_blocked == 21
streams_blocked_bidir == 22
streams_blocked_unidir == 23
new_connection_id == 24
retire_connection_id == 25
path_challenge == 26
path_response == 27
connection_close == 28
application_close == 29
datagram_range == 32..35

RESET_SECRET_SIZE == 16
challenge_length == 8

Bit(type, mask) == (type \div mask) % 2 = 1
HasFin(type) == Bit(type, 1)
HasLength(type) == Bit(type, 2)
HasOffset(type) == Bit(type, 4)

-----------------------------------------------------------------------------
(* Writing.  A prepared frame has its bytes, none if it did not fit, and   *)
(* `lead` bytes of padding in front.                                       *)
NotFit == [type |-> padding, vals |-> <<>>, lead |-> 0, bytes |-> <<>>]

Written(type, vals, body, room) ==
    IF 1 + Len(body) > room THEN NotFit
    ELSE [type |-> type, vals |-> vals, lead |-> 0, bytes |-> <<type>> \o body]

V(val) == picoquic_varint_encode(val[1])
Varints(vals) == FlattenSeq([k \in DOMAIN vals |-> V(vals[k])])
LengthData(data) == picoquic_varint_encode(Len(data)) \o data

(* RESET_STREAM: stream, error, final offset.                              *)
picoquic_prepare_stream_reset_frame(vals, room) ==
    Written(reset_stream, vals, Varints(vals), room)

(* NEW_CONNECTION_ID: sequence, retire before (always 0), identifier and   *)
(* reset secret.                                                           *)
picoquic_prepare_new_connection_id_frame(vals, room) ==
    Written(new_connection_id, vals,
            V(vals[1]) \o <<0>> \o <<Len(vals[3])>> \o vals[3] \o vals[4], room)

picoquic_prepare_retire_connection_id_frame(vals, room) ==
    Written(retire_connection_id, vals, Varints(vals), room)

picoquic_prepare_new_token_frame(vals, room) ==
    Written(new_token, vals, LengthData(vals[1]), room)

(* STOP_SENDING: the varint is not checked once there are 7 bytes.         *)
picoquic_prepare_stop_sending_frame(vals, room) ==
    IF room < 7 THEN NotFit
    ELSE Written(stop_sending, vals, V(vals[1]) \o picoformat_16(vals[2][1]), room)

picoquic_prepare_data_blocked_frame(vals, room) ==
    Written(data_blocked, vals, Varints(vals), room)

picoquic_prepare_stream_data_blocked_frame(vals, room) ==
    Written(stream_data_blocked, vals, Varints(vals), room)

picoquic_prepare_stream_blocked_frame(type, vals, room) ==
    Written(type, vals, Varints(vals), room)

picoquic_prepare_connection_close_frame(vals, room) ==
    IF room <= 3 THEN NotFit
    ELSE Written(connection_close, vals, V(vals[1]) \o V(vals[2]) \o LengthData(<<>>), room)

picoquic_prepare_application_close_frame(vals, room) ==
    IF room <= 3 THEN NotFit
    ELSE Written(application_close, vals, V(vals[1]) \o LengthData(<<>>), room)

picoquic_prepare_max_data_frame(vals, room) ==
    Written(max_data, vals, Varints(vals), room)

picoquic_prepare_max_stream_data_frame(vals, room) ==
    Written(max_stream_data, vals, Varints(vals), room)

(* One of the two limits is due.                                           *)
picoquic_prepare_max_streams_frame_if_needed(type, vals, room) ==
    Written(type, vals, Varints(vals), room)

picoquic_prepare_path_challenge_frame(vals, room) ==
    Written(path_challenge, vals, vals[1], room)

picoquic_prepare_path_response_frame(vals, room) ==
    Written(path_response, vals, vals[1], room)

picoquic_queue_misc_frame(frame, room) ==
    IF Len(frame.bytes) > room THEN NotFit ELSE frame

(* A datagram of the peer, with its length (picoquic has no user of its    *)
(* own datagrams).                                                         *)
Datagram(type, vals, room) ==
    Written(type, vals, (IF type = 35 THEN V(vals[1]) ELSE <<>>) \o LengthData(vals[2]), room)

(* ACK: largest, delay, ranges from the largest down as <<high, low, ...>>,*)
(* and the three ECN counters.  As many ranges as fit are written.         *)
AckBody(vals, blocks) ==
    LET High(k) == vals[3][2 * k - 1]
        Low(k)  == vals[3][2 * k]
        range(k) == picoquic_varint_encode(High(k) - Low(k))
        gap(k)   == picoquic_varint_encode(Low(k - 1) - High(k) - 2)
    IN  V(vals[1]) \o V(vals[2]) \o <<blocks>> \o range(1)
           \o FlattenSeq([k \in 1..blocks |-> gap(k + 1) \o range(k + 1)])

encode_ecn_block(vals) == Varints(SubSeq(vals, 4, 6))

picoquic_prepare_ack_frame_maybe_ecn(type, vals, room) ==
    LET fitting == {n \in 0..((Len(vals[3]) \div 2) - 1) :
                       n <= 63 /\ 1 + Len(AckBody(vals, n)) <= room}
        blocks == Max(fitting)
        ecn == IF type = ack_ecn THEN encode_ecn_block(vals) ELSE <<>>
    IN  IF room < 13 \/ fitting = {} THEN NotFit
        ELSE Written(type, [vals EXCEPT ![3] = SubSeq(@, 1, 2 * (blocks + 1))],
                     AckBody(vals, blocks) \o ecn, room)

(* CRYPTO: offset and as much of the data as fits.                         *)
picoquic_prepare_crypto_hs_frame(vals, room) ==
    LET left   == room - 1 - Len(V(vals[1]))
        whole  == Len(vals[2])
        l_len  == VarintLength(whole)
        length == IF left < 2 THEN 0
                  ELSE IF whole + l_len >= left THEN left - l_len ELSE whole
        sent   == SubSeq(vals[2], 1, length)
    IN  IF length <= 0 THEN NotFit
        ELSE Written(crypto_hs, <<vals[1], sent>>, V(vals[1]) \o LengthData(sent), room)

-----------------------------------------------------------------------------
(* Stream frames                                                           *)
picoquic_prepare_stream_frame_header(id, offset) ==
    picoquic_varint_encode(id) \o (IF offset > 0 THEN picoquic_varint_encode(offset) ELSE <<>>)

(* picoquic_encode_length_of_stream_frame: the length is left out when the *)
(* data fill the packet.  When they leave one byte, that byte becomes      *)
(* padding in front of the frame.                                          *)
EncodedStreamFrame(id, offset, data, fin, room) ==
    LET After(header) ==
            LET left  == room - 1 - Len(header)
                lead  == IF Len(data) = left - 1 THEN 1 ELSE 0
                coded == Len(data) < left - 1
                type  == 8 + (IF offset > 0 THEN 4 ELSE 0) + (IF coded THEN 2 ELSE 0)
                           + (IF fin THEN 1 ELSE 0)
            IN  [type |-> type, vals |-> <<<<id>>, <<offset>>, data>>, lead |-> lead,
                 bytes |-> [k \in 1..lead |-> padding] \o <<type>> \o header
                             \o (IF coded THEN LengthData(data) ELSE data)]
    IN  After(picoquic_prepare_stream_frame_header(id, offset))

(* What is queued on stream s goes out from its start, cut to the space.   *)
picoquic_prepare_stream_frame(s, room) ==
    LET header == 1 + Len(picoquic_prepare_stream_frame_header(s.id, s.offset))
        length == IF Len(s.data) >= room - header THEN room - header ELSE Len(s.data)
    IN  IF header + 3 > room THEN NotFit
        ELSE EncodedStreamFrame(s.id, s.offset, SubSeq(s.data, 1, length),
                                s.fin /\ length = Len(s.data), room)

(* Faulty variant: the second part starts where the first one starts.      *)
FaultySplit(id, offset, data, fin, room) ==
    LET header == 1 + Len(picoquic_prepare_stream_frame_header(id, offset))
        left   == room - header
        first  == IF left < 0 \/ (Len(data) > left /\ left < 3) THEN 0
                  ELSE IF Len(data) > left THEN left ELSE Len(data)
        whole  == left >= 0 /\ first = Len(data)
    IN  <<IF left < 0 \/ (Len(data) > left /\ left < 3) THEN NotFit
          ELSE EncodedStreamFrame(id, offset, SubSeq(data, 1, first), fin /\ whole, room),
          IF whole THEN NotFit
          ELSE EncodedStreamFrame(id, offset, SubSeq(data, first + 1, Len(data)), fin, 1536)>>

(* The frame copied into the room of another packet, and the rest of it    *)
(* that does not fit.  A part of less than 3 bytes is not worth it.        *)
picoquic_split_stream_frame(id, offset, data, fin, room) ==
    LET header == 1 + Len(picoquic_prepare_stream_frame_header(id, offset))
        left   == room - header
        silly  == left < 0 \/ (Len(data) > left /\ left < 3)
        first  == IF silly THEN 0 ELSE IF Len(data) > left THEN left ELSE Len(data)
        whole  == left >= 0 /\ first = Len(data)
        Parts(n, all) ==
            <<IF silly THEN NotFit
              ELSE EncodedStreamFrame(id, offset, SubSeq(data, 1, n), fin /\ all, room),
              IF all THEN NotFit
              ELSE EncodedStreamFrame(id, offset + n, SubSeq(data, n + 1, Len(data)),
                                      fin, 1536)>>
    IN  Parts(first, whole)

-----------------------------------------------------------------------------
(* Reading.  What a piece of code reads after the type of a frame is a     *)
(* sequence of fields.  A value it passes over counts as Dropped.          *)
Dropped == <<-1>>

Keep(r, next, val) == [at |-> next, vals |-> Append(r.vals, IF next = NULL THEN Dropped ELSE val)]

picoquic_frames_length_data_skip(b, at) ==
    LET length == picoquic_frames_varint_decode(b, at)
    IN  picoquic_frames_fixed_skip(b, length.at, length.n)

Field(b, r, kind) ==
    LET Fixed(n) == picoquic_frames_fixed_skip(b, r.at, n)
        varint   == picoquic_frames_varint_decode(b, r.at)
        coded    == picoquic_frames_length_data_skip(b, r.at)
    IN  IF r.at = NULL THEN r
        ELSE CASE kind = "varint" -> Keep(r, varint.at, <<varint.n>>)
               [] kind = "skip" -> Keep(r, picoquic_frames_varint_skip(b, r.at), Dropped)
               [] kind = "byte" -> Keep(r, Fixed(1), Dropped)
               [] kind = "u16" -> Keep(r, Fixed(2), <<PICOPARSE_16(b, r.at)>>)
               [] kind = "u16skip" -> Keep(r, Fixed(2), Dropped)
               [] kind = "challenge" -> Keep(r, Fixed(challenge_length),
                                             SubSeq(b, r.at, r.at + challenge_length - 1))
               [] kind = "secret" -> Keep(r, Fixed(RESET_SECRET_SIZE),
                                          SubSeq(b, r.at, r.at + RESET_SECRET_SIZE - 1))
               [] kind = "cid" -> IF Fixed(1) = NULL THEN Keep(r, NULL, Dropped)
                                  ELSE Keep(r, Fixed(1 + b[r.at]),
                                            SubSeq(b, r.at + 1, r.at + b[r.at]))
               [] kind = "none" -> Keep(r, r.at, <<0>>)
               [] kind = "data" -> Keep(r, coded, SubSeq(b, varint.at, coded - 1))
               [] kind = "dataskip" -> Keep(r, coded, Dropped)
               [] kind = "unknown" -> Keep(r, NULL, Dropped)
               [] kind = "rest" -> Keep(r, Len(b) + 1, SubSeq(b, r.at, Len(b)))

(* A run of padding or of pings is one frame.                              *)
picoquic_skip_0len_frame(b, at) ==
    Min({k \in (at + 1)..(Len(b) + 1) : k = Len(b) + 1 \/ b[k] # b[at]})

(* STREAM                                                                  *)
picoquic_parse_stream_header(type) ==
    <<"varint", IF HasOffset(type) THEN "varint" ELSE "none",
      IF HasLength(type) THEN "data" ELSE "rest">>

picoquic_skip_stream_frame(type) ==
    <<"skip">> \o (IF HasOffset(type) THEN <<"skip">> ELSE <<>>)
              \o (IF HasLength(type) THEN <<"dataskip">> ELSE <<"rest">>)

picoquic_log_stream_frame(type) == picoquic_parse_stream_header(type)

(* The error code of a reset is read and dropped (frames.c:388-390).       *)
picoquic_decode_stream_reset_frame == <<"varint", "skip", "varint">>
picoquic_skip_stream_reset_frame == <<"skip", "skip", "skip">>
picoquic_log_reset_stream_frame == <<"varint", "varint", "varint">>

picoquic_decode_stop_sending_frame == <<"varint", "u16">>
picoquic_skip_stop_sending_frame == <<"skip", "u16skip">>
picoquic_log_stop_sending_frame == <<"varint", "u16">>

picoquic_decode_new_connection_id_frame == <<"varint", "varint", "cid", "secret">>
(* The varint skipped first is the type; of retire before, which the       *)
(* sender writes as 0, one byte is skipped.                                *)
picoquic_skip_new_connection_id_frame == <<"skip", "byte", "cid", "secret">>
picoquic_log_new_connection_id_frame == <<"varint", "varint", "cid", "secret">>

picoquic_decode_retire_connection_id_frame == <<"varint">>
picoquic_skip_retire_connection_id_frame == <<"skip">>
picoquic_log_retire_connection_id_frame == <<"varint">>

picoquic_decode_new_token_frame == <<"data">>
picoquic_skip_new_token_frame == <<"dataskip">>
picoquic_log_new_token_frame == <<"data">>

picoquic_decode_connection_close_frame == <<"varint", "skip", "dataskip">>
picoquic_skip_connection_close_frame == <<"skip", "skip", "dataskip">>
picoquic_decode_application_close_frame == <<"varint", "dataskip">>
picoquic_skip_application_close_frame == <<"skip", "dataskip">>
picoquic_log_generic_close_frame(type) ==
    <<"varint">> \o (IF type = connection_close THEN <<"varint">> ELSE <<>>) \o <<"data">>

picoquic_decode_max_data_frame == <<"varint">>
picoquic_log_max_data_frame == <<"varint">>
picoquic_decode_max_stream_data_frame == <<"varint", "varint">>
picoquic_skip_max_stream_data_frame == <<"skip", "skip">>
picoquic_log_max_stream_data_frame == <<"varint", "varint">>
picoquic_decode_max_streams_frame == <<"varint">>
picoquic_log_max_stream_id_frame == <<"varint">>

picoquic_decode_blocked_frame == <<"skip">>
picoquic_log_blocked_frame == <<"varint">>
picoquic_decode_stream_blocked_frame == <<"skip", "skip">>
picoquic_skip_stream_blocked_frame == <<"skip", "skip">>
picoquic_log_stream_blocked_frame == <<"varint", "skip">>
picoquic_decode_streams_blocked_frame == <<"skip">>
picoquic_log_streams_blocked_frame == <<"varint">>

picoquic_decode_path_challenge_frame == <<"challenge">>
picoquic_decode_path_response_frame == <<"challenge">>
picoquic_log_path_frame == <<"challenge">>

picoquic_decode_crypto_hs_frame == <<"varint", "data">>
picoquic_skip_crypto_hs_frame == <<"skip", "dataskip">>
picoquic_log_crypto_hs_frame == <<"varint", "data">>

DatagramData(type) == IF Bit(type, 1) THEN "data" ELSE "rest"
picoquic_decode_datagram_frame(type) ==
    <<IF Bit(type, 2) THEN "varint" ELSE "none", DatagramData(type)>>
picoquic_skip_datagram_frame(type) ==
    (IF Bit(type, 2) THEN <<"skip">> ELSE <<>>) \o <<DatagramData(type)>>
picoquic_log_datagram_frame(type) ==
    <<IF Bit(type, 2) THEN "varint" ELSE "none", DatagramData(type)>>

-----------------------------------------------------------------------------
(* ACK: the ranges, each checked against the largest number left           *)
RECURSIVE AckRanges(_, _, _, _, _)
AckRanges(b, at, blocks, largest, ranges) ==
    LET range == picoquic_frames_varint_decode(b, at)
        gap   == picoquic_frames_varint_decode(b, range.at)
        below == largest - (range.n + 1) - (gap.n + 1)
        all   == ranges \o <<largest, largest - range.n>>
    IN  IF range.at = NULL \/ largest < range.n THEN [at |-> NULL, val |-> ranges]
        ELSE IF blocks = 0 THEN [at |-> range.at, val |-> all]
        ELSE IF gap.at = NULL \/ below < 0 THEN [at |-> NULL, val |-> ranges]
        ELSE AckRanges(b, gap.at, blocks - 1, below, all)

Fields(b, at, kinds) ==
    FoldLeft(LAMBDA r, kind : Field(b, r, kind), [at |-> at, vals |-> <<>>], kinds)

EcnKinds(type, kind) == IF type = ack_ecn THEN <<kind, kind, kind>> ELSE <<>>

(* picoquic_parse_ack_header and the loop that follows it                  *)
picoquic_decode_ack_frame_maybe_ecn(b, at, type) ==
    LET Failed == [at |-> NULL, vals |-> <<>>]
        Ecn(header, ranges, ecn) ==
            [at |-> ecn.at,
             vals |-> <<header.vals[1], header.vals[2], ranges.val>> \o ecn.vals]
        Body(header, ranges) ==
            IF ranges.at = NULL THEN Failed
            ELSE Ecn(header, ranges, Fields(b, ranges.at, EcnKinds(type, "varint")))
        Header(header) ==
            IF header.at = NULL THEN Failed
            ELSE Body(header, AckRanges(b, header.at, header.vals[3][1],
                                        header.vals[1][1], <<>>))
    IN  Header(Fields(b, at, <<"varint", "varint", "varint">>))

picoquic_skip_ack_frame_maybe_ecn(b, at, type) ==
    LET Pairs(n) == [k \in 1..(2 * n) |-> "skip"]
        Body(header) ==
            IF header.at = NULL THEN header
            ELSE Fields(b, header.at, Pairs(header.vals[3][1]) \o EcnKinds(type, "skip"))
    IN  Body(Fields(b, at, <<"skip", "skip", "varint", "skip">>))

picoquic_log_ack_frame(b, at, type) == picoquic_decode_ack_frame_maybe_ecn(b, at, type)

-----------------------------------------------------------------------------
(* The three readers: picoquic_decode_frames, picoquic_skip_frame and      *)
(* picoquic_log_frames choose what to read by the first byte.              *)
picoquic_decode_frames(type) ==
    CASE type \in stream_range -> picoquic_parse_stream_header(type)
      [] type = reset_stream -> picoquic_decode_stream_reset_frame
      [] type = connection_close -> picoquic_decode_connection_close_frame
      [] type = application_close -> picoquic_decode_application_close_frame
      [] type = max_data -> picoquic_decode_max_data_frame
      [] type = max_stream_data -> picoquic_decode_max_stream_data_frame
      [] type \in {max_streams_bidir, max_streams_unidir} -> picoquic_decode_max_streams_frame
      [] type = data_blocked -> picoquic_decode_blocked_frame
      [] type = stream_data_blocked -> picoquic_decode_stream_blocked_frame
      [] type \in {streams_blocked_bidir, streams_blocked_unidir} ->
            picoquic_decode_streams_blocked_frame
      [] type = new_connection_id -> picoquic_decode_new_connection_id_frame
      [] type = stop_sending -> picoquic_decode_stop_sending_frame
      [] type = path_challenge -> picoquic_decode_path_challenge_frame
      [] type = path_response -> picoquic_decode_path_response_frame
      [] type = crypto_hs -> picoquic_decode_crypto_hs_frame
      [] type = new_token -> picoquic_decode_new_token_frame
      [] type = retire_connection_id -> picoquic_decode_retire_connection_id_frame
      [] type \in datagram_range -> picoquic_decode_datagram_frame(type)
      [] OTHER -> <<"unknown">>


picoquic_skip_frame(type) ==
    CASE type \in stream_range -> picoquic_skip_stream_frame(type)
      [] type = reset_stream -> picoquic_skip_stream_reset_frame
      [] type = connection_close -> picoquic_skip_connection_close_frame
      [] type = application_close -> picoquic_skip_application_close_frame
      [] type \in {max_data, max_streams_bidir, max_streams_unidir, data_blocked,
                   streams_blocked_bidir, streams_blocked_unidir} -> <<"skip">>
      [] type = max_stream_data -> picoquic_skip_max_stream_data_frame
      [] type = stream_data_blocked -> picoquic_skip_stream_blocked_frame
      [] type = new_connection_id -> picoquic_skip_new_connection_id_frame
      [] type = stop_sending -> picoquic_skip_stop_sending_frame
      [] type \in {path_challenge, path_response} -> <<"challenge">>
      [] type = crypto_hs -> picoquic_skip_crypto_hs_frame
      [] type = new_token -> picoquic_skip_new_token_frame
      [] type = retire_connection_id -> picoquic_skip_retire_connection_id_frame
      [] type \in datagram_range -> picoquic_skip_datagram_frame(type)
      [] OTHER -> <<"unknown">>

(* Frames that are not repeated when their packet is lost.                 *)
pure_ack(type) == type \in {padding, ack, ack_ecn, path_challenge, path_response} \cup datagram_range

picoquic_log_frames(type) ==
    CASE type \in stream_range -> picoquic_log_stream_frame(type)
      [] type = retire_connection_id -> picoquic_log_retire_connection_id_frame
      [] type = reset_stream -> picoquic_log_reset_stream_frame
      [] type \in {connection_close, application_close} -> picoquic_log_generic_close_frame(type)
      [] type = max_data -> picoquic_log_max_data_frame
      [] type = max_stream_data -> picoquic_log_max_stream_data_frame
      [] type \in {max_streams_bidir, max_streams_unidir} -> picoquic_log_max_stream_id_frame
      [] type = data_blocked -> picoquic_log_blocked_frame
      [] type = stream_data_blocked -> picoquic_log_stream_blocked_frame
      [] type \in {streams_blocked_bidir, streams_blocked_unidir} ->
            picoquic_log_streams_blocked_frame
      [] type = new_connection_id -> picoquic_log_new_connection_id_frame
      [] type = stop_sending -> picoquic_log_stop_sending_frame
      [] type \in {path_challenge, path_response} -> picoquic_log_path_frame
      [] type = crypto_hs -> picoquic_log_crypto_hs_frame
      [] type = new_token -> picoquic_log_new_token_frame
      [] type \in datagram_range -> picoquic_log_datagram_frame(type)
      [] OTHER -> <<"unknown">>

(* One frame, read from its type on.                                       *)
ReadFrame(reader, b, at) ==
    LET type == b[at]
    IN  CASE type \in {padding, ping} ->
               [at |-> picoquic_skip_0len_frame(b, at), vals |-> <<>>]
          [] type \in {ack, ack_ecn} ->
               (CASE reader = "decode" -> picoquic_decode_ack_frame_maybe_ecn(b, at + 1, type)
                  [] reader = "skip" -> picoquic_skip_ack_frame_maybe_ecn(b, at + 1, type)
                  [] reader = "log" -> picoquic_log_ack_frame(b, at + 1, type))
          [] OTHER ->
               Fields(b, at + 1, CASE reader = "decode" -> picoquic_decode_frames(type)
                                   [] reader = "skip" -> picoquic_skip_frame(type)
                                   [] reader = "log" -> picoquic_log_frames(type))

(* All frames of a packet, without the padding: each with where it starts. *)
(* A frame that cannot be read ends the sequence with a NULL.              *)
RECURSIVE ReadFrom(_, _, _)
ReadFrom(reader, b, at) ==
    IF at > Len(b) THEN <<>>
    ELSE LET Step(r) ==
                 LET f == [at |-> at, type |-> b[at], vals |-> r.vals]
                 IN  IF r.at = NULL THEN <<[f EXCEPT !.at = NULL]>>
                     ELSE (IF b[at] = padding THEN <<>> ELSE <<f>>)
                          \o ReadFrom(reader, b, r.at)
         IN  Step(ReadFrame(reader, b, at))

(* picoquic_decode_closing_frames: a connection that closes looks only for *)
(* the peer's closing frames, and skips the others.                        *)
picoquic_decode_closing_frames(b) ==
    \E f \in ToSet(ReadFrom("skip", b, 1)) :
        f.at # NULL /\ f.type \in {connection_close, application_close}

-----------------------------------------------------------------------------
(* The sender                                                              *)
Prepared(f, room) ==
    CASE f.type \in {ack, ack_ecn} -> picoquic_prepare_ack_frame_maybe_ecn(f.type, f.vals, room)
      [] f.type = ping -> Written(ping, <<>>, <<>>, room)
      [] f.type = reset_stream -> picoquic_prepare_stream_reset_frame(f.vals, room)
      [] f.type = stop_sending -> picoquic_prepare_stop_sending_frame(f.vals, room)
      [] f.type = crypto_hs -> picoquic_prepare_crypto_hs_frame(f.vals, room)
      [] f.type = new_token ->
            picoquic_queue_misc_frame(picoquic_prepare_new_token_frame(f.vals, 258), room)
      [] f.type = max_data -> picoquic_prepare_max_data_frame(f.vals, room)
      [] f.type = max_stream_data -> picoquic_prepare_max_stream_data_frame(f.vals, room)
      [] f.type \in {max_streams_bidir, max_streams_unidir} ->
            picoquic_prepare_max_streams_frame_if_needed(f.type, f.vals, room)
      [] f.type = data_blocked -> picoquic_prepare_data_blocked_frame(f.vals, room)
      [] f.type = stream_data_blocked -> picoquic_prepare_stream_data_blocked_frame(f.vals, room)
      [] f.type \in {streams_blocked_bidir, streams_blocked_unidir} ->
            picoquic_prepare_stream_blocked_frame(f.type, f.vals, room)
      [] f.type = new_connection_id -> picoquic_prepare_new_connection_id_frame(f.vals, room)
      [] f.type = retire_connection_id ->
            picoquic_queue_misc_frame(picoquic_prepare_retire_connection_id_frame(f.vals, 258), room)
      [] f.type = path_challenge -> picoquic_prepare_path_challenge_frame(f.vals, room)
      [] f.type = path_response -> picoquic_prepare_path_response_frame(f.vals, room)
      [] f.type = connection_close -> picoquic_prepare_connection_close_frame(f.vals, room)
      [] f.type = application_close -> picoquic_prepare_application_close_frame(f.vals, room)
      [] f.type \in datagram_range -> Datagram(f.type, f.vals, room)

(* A packet under way: its bytes, the frames meant, those set aside.       *)
Extended(p, w) ==
    IF w.bytes = <<>> THEN p
    ELSE [p EXCEPT !.bytes = @ \o w.bytes,
                   !.meant = Append(@, [at |-> Len(p.bytes) + 1 + w.lead,
                                        type |-> w.type, vals |-> w.vals])]

Current == [bytes |-> payload, meant |-> meant, misc |-> misc]

Becomes(next) ==
    \E p \in {next} : payload' = p.bytes /\ meant' = p.meant /\ misc' = p.misc

Init ==
    /\ payload = <<>>
    /\ meant = <<>>
    /\ misc = <<>>
    /\ space \in Spaces
    /\ phase = "fill"

Add(w) ==
    /\ phase \in {"fill", "last"}
    /\ Len(meant) < MaxFrames
    /\ w.bytes # <<>>
    /\ Becomes(Extended(Current, w))
    /\ UNCHANGED <<space, phase>>

(* A ping is added only where nothing else asks for an acknowledgement.    *)
AddFrame ==
    \E f \in Frames :
        /\ f.type = ping => \A g \in ToSet(meant) : pure_ack(g.type)
        /\ Add(Prepared(f, space - Len(payload)))

AddStream == \E s \in Streams : Add(picoquic_prepare_stream_frame(s, space - Len(payload)))

(* picoquic_pad_to_policy and picoquic_pad_to_target_length                *)
Pad ==
    /\ phase \in {"fill", "last"}
    /\ payload # <<>>
    /\ \E t \in PadTargets :
          LET target == Min({t, space})
          IN  payload' = payload \o [k \in 1..(target - Len(payload)) |-> padding]
    /\ phase' = IF phase = "fill" THEN "sent" ELSE "done"
    /\ UNCHANGED <<meant, misc, space>>

(* The frame of the lost packet at position f.at, copied into a packet     *)
(* with the given room (picoquic_copy_before_retransmit).                  *)
Copied(p, f, room) ==
    LET left  == room - Len(p.bytes)
        same  == SelectSeq(meant, LAMBDA g : g.at = f.at)
        SetAside(w) == [p EXCEPT !.misc = IF w.bytes = <<>> THEN @ ELSE Append(@, w)]
        Parts(parts) == [Extended(p, parts[1]) EXCEPT !.misc = SetAside(parts[2]).misc]
        Split(vals) == Parts(picoquic_split_stream_frame(vals[1][1], vals[2][1], vals[3],
                                                         HasFin(f.type), left))
        Whole(w) == IF Len(w.bytes) > left THEN SetAside(w) ELSE Extended(p, w)
        Raw(raw) == IF f.type \in stream_range THEN Split(ReadFrame("decode", raw, 1).vals)
                    ELSE Whole([type |-> f.type, lead |-> 0, bytes |-> raw,
                                vals |-> IF same = <<>> THEN <<>> ELSE same[1].vals])
    IN  IF pure_ack(f.type) THEN p
        ELSE Raw(SubSeq(payload, f.at, ReadFrame("skip", payload, f.at).at - 1))

(* The packet is lost: what needs it is repeated in another packet, with   *)
(* an ACK where there is room.                                             *)
Repeat ==
    /\ phase = "sent"
    /\ \E f \in ToSet(meant) : ~pure_ack(f.type)
    /\ \E room \in Spaces, a \in {f \in Frames : f.type \in {ack, ack_ecn}} :
          \E copy \in {FoldLeft(LAMBDA p, f : Copied(p, f, room),
                                [bytes |-> <<>>, meant |-> <<>>, misc |-> misc],
                                ReadFrom("skip", payload, 1))} :
             /\ Becomes(Extended(copy, Prepared(a, room - Len(copy.bytes))))
             /\ space' = room
    /\ phase' = "repeat"

(* What was set aside opens the next packet (picoquic_prepare_first_misc_frame). *)
SendMisc ==
    /\ phase = "repeat"
    /\ misc # <<>>
    /\ \E room \in Spaces :
          /\ Len(Head(misc).bytes) <= room
          /\ Becomes(Extended([bytes |-> <<>>, meant |-> <<>>, misc |-> Tail(misc)], Head(misc)))
          /\ space' = room
    /\ phase' = "last"

Next == AddFrame \/ AddStream \/ Pad \/ Repeat \/ SendMisc

Spec == Init /\ [][Next]_vars

-----------------------------------------------------------------------------
(* Properties                                                              *)
Reads(reader) == ReadFrom(reader, payload, 1)

Matches(f, g) ==
    /\ f.at = g.at /\ f.type = g.type
    /\ Len(f.vals) >= Len(g.vals)
    /\ \A k \in DOMAIN g.vals : f.vals[k] \in {g.vals[k], Dropped}

(* The receiver decodes exactly the frames the sender prepared: no byte of *)
(* padding, of a following frame or of a shortened one ends up in another  *)
(* frame, and no value changes on the way (picoquic_decode_frames).        *)
ReceiverReadsWhatWasMeant ==
    \A read \in {Reads("decode")} :
        Len(read) = Len(meant) /\ \A k \in DOMAIN meant : Matches(read[k], meant[k])

(* The sender, when it repeats a packet, and the log cut the packet into   *)
(* the same frames as the receiver, the log shows the same values, and a   *)
(* closing connection finds the closing frame wherever it stands           *)
(* (picoquic_skip_frame, picoquic_log_frames, picoquic_decode_closing_frames). *)
ReadersAgree ==
    LET cut == [k \in DOMAIN meant |-> meant[k].at]
    IN  \A skip \in {Reads("skip")}, log \in {Reads("log")} :
        /\ [k \in DOMAIN skip |-> skip[k].at] = cut
        /\ Len(log) = Len(meant) /\ \A k \in DOMAIN meant : Matches(log[k], meant[k])
        /\ picoquic_decode_closing_frames(payload) <=>
              \E f \in ToSet(meant) : f.type \in {connection_close, application_close}

(* What frames carry, byte by byte for streams.                            *)
Content(frames) ==
    UNION {IF f.type \in stream_range
           THEN {<<0, f.vals[1][1], f.vals[2][1] + k, f.vals[3][k]>> : k \in DOMAIN f.vals[3]}
                \cup (IF HasFin(f.type)
                      THEN {<<1, f.vals[1][1], f.vals[2][1] + Len(f.vals[3]), 0>>} ELSE {})
           ELSE {<<2, f.type, f.vals, 0>>} :
             f \in {g \in ToSet(frames) : ~pure_ack(g.type)}}

Carried(bytes) == Content(ReadFrom("log", bytes, 1))

(* When a packet is repeated, its stream bytes, ends of streams and other  *)
(* frames are all in the new packet or set aside for the next one, however *)
(* little room the new packet has (picoquic_copy_before_retransmit,        *)
(* picoquic_split_stream_frame).                                           *)
RepeatLosesNothing ==
    [][phase = "sent" /\ phase' = "repeat" =>
         Carried(payload) \subseteq
            Carried(payload') \cup UNION {Carried(f.bytes) : f \in ToSet(misc')}]_vars
=============================================================================
