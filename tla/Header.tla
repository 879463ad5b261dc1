------------------------------- MODULE Header -------------------------------
(***************************************************************************)
(* Packet headers as bytes.  A sender predicts the length of a header,     *)
(* prepares the frames after it, writes the header, the length of the      *)
(* payload and the protection of the packet number, and coalesces packets  *)
(* in a datagram (sender.c:313-607, 3235-3283).  The receiver walks over   *)
(* the datagram, finds each header, its context and its keys, and goes on  *)
(* to the next segment (packet.c:38-721, 1754-1976).  A server may answer  *)
(* a first packet with a Version Negotiation or a Retry, which the client  *)
(* must understand (packet.c:734-971, 1129-1207).                          *)
(*                                                                         *)
(* A version and a connection identifier are sequences of bytes.  Drafts   *)
(* up to 20 put both identifier lengths in one byte (the old invariants).  *)
(* Frames are opaque here: a payload is a number of filler bytes.          *)
(***************************************************************************)
EXTENDS Varint, SequencesExt, Bitwise

CONSTANTS Links,      \* the connections: see LinkType
          Sizes,      \* numbers of bytes of frames in a packet
          MaxSegments \* bound on the packets of a datagram

VARIABLES link,     \* the connection and its two ends
          datagram, \* the bytes on the wire
          sent,     \* the packets in them, as the sender means them
          at,       \* bytes of the datagram already consumed
          prev,     \* destination of the first segment (previous_destid)
          got,      \* the packets the receiver has opened
          phase     \* "fill", "arrive", "answer", "done"

vars == <<link, datagram, sent, at, prev, got, phase>>

(* A link has the sender's context (client, the state of the handshake,    *)
(* the version, the identifiers, the retry token, the key phase and spin   *)
(* bits), the receiver's keys, and the mask of the header protection.      *)
-----------------------------------------------------------------------------
(* Versions (picoquic_internal.h:161-178, quicctx.c:148-165)               *)
Draft(n) == <<255, 0, 0, n>>
TestVersions == {<<80, 67, 81, 48>>, <<80, 67, 81, 49>>}
picoquic_supported_versions ==
    <<<<80, 67, 81, 49>>, <<80, 67, 81, 48>>, Draft(22), Draft(20)>>
TWELFTH_INTEROP_VERSION == Draft(20)
NoVersion == <<0, 0, 0, 0>>

picoquic_get_version_index(vn) == vn \in Range(picoquic_supported_versions)

IsDraft(vn) == SubSeq(vn, 1, 3) = <<255, 0, 0>>
IsFinal(vn) == (SubSeq(vn, 1, 3) = <<0, 0, 0>> /\ vn[4] < 16) \/ vn \in TestVersions

ENFORCED_INITIAL_CID_LENGTH == 8
MAX_CID == 20
CHECKSUM == 16  \* bytes that the AEAD adds
SAMPLE == 16    \* bytes that the header protection looks at

Types == {"initial", "zero_rtt", "handshake", "one_rtt", "retry"}
Epoch == [initial |-> 0, zero_rtt |-> 1, handshake |-> 2, one_rtt |-> 3]

-----------------------------------------------------------------------------
(* Identifier lengths of the old invariants: two nibbles, 0 or length - 3. *)
picoquic_create_packet_header_cnxid_lengths(dest, srce) ==
    LET nibble(n) == IF n < 4 THEN 0 ELSE n - 3
    IN  nibble(dest) * 16 + nibble(srce)

picoquic_parse_packet_header_cnxid_lengths(byte) ==
    LET len(n) == IF n = 0 THEN 0 ELSE n + 3
    IN  [dest |-> len(byte \div 16), srce |-> len(byte % 16)]

Bytes(b, offset, n) == SubSeq(b, offset + 1, offset + n)

picoquic_parse_connection_id(b, offset, n) ==
    IF n <= MAX_CID THEN Bytes(b, offset, n) ELSE <<>>

-----------------------------------------------------------------------------
(* Writing.  c is the sender's context.                                    *)
SentVersion(c, type) == IF c.starting /\ type = "initial" THEN c.proposed ELSE c.version

picoquic_is_sending_old_invariant(c, type) ==
    LET vn == SentVersion(c, type)
    IN  IF IsDraft(vn) THEN vn[4] <= 20 ELSE ~IsFinal(vn) /\ vn[1] < 16

UsesInitialId(c, type, remote) ==
    c.client /\ type \in {"initial", "zero_rtt"} /\ remote = <<>>

FirstByte == [initial |-> 195, zero_rtt |-> 211, handshake |-> 227, retry |-> 240]

LongHeader(c, type, dest, local) ==
    <<FirstByte[type]>> \o SentVersion(c, type)
    \o (IF picoquic_is_sending_old_invariant(c, type)
        THEN <<picoquic_create_packet_header_cnxid_lengths(Len(dest), Len(local))>>
             \o dest \o local
        ELSE <<Len(dest)>> \o dest \o <<Len(local)>> \o local)
    \o (IF type = "initial" THEN picoquic_varint_encode(Len(c.token)) \o c.token ELSE <<>>)

(* The header, and where its packet number is.                             *)
picoquic_create_packet_header(c, type, pn, remote, local) ==
    LET dest == IF UsesInitialId(c, type, remote) THEN c.initial ELSE remote
        head == CASE type = "one_rtt" ->
                       <<67 + 4 * c.key_phase + 32 * c.spin>> \o dest
                  [] type = "retry" -> LongHeader(c, type, dest, local)
                  [] OTHER -> LongHeader(c, type, dest, local) \o <<0, 0>>
    IN  IF type = "retry" THEN [bytes |-> head, pn_offset |-> 0]
        ELSE [bytes |-> head \o picoformat_32(pn), pn_offset |-> Len(head)]

picoquic_predict_packet_header_length(c, type) ==
    IF type = "one_rtt" THEN 1 + Len(c.remote) + 4
    ELSE (IF picoquic_is_sending_old_invariant(c, type) THEN 6 ELSE 7)
         + Len(IF UsesInitialId(c, type, c.remote) THEN c.initial ELSE c.remote)
         + Len(c.local) + 6
         + (IF type = "initial"
            THEN Len(picoquic_varint_encode(Len(c.token))) + Len(c.token) ELSE 0)

IsLong(byte) == byte >= 128

(* Faulty variant: the packet number is not counted in the payload.        *)
FaultyPayloadLength(b, pn_offset, header_length, packet_length) ==
    IF IsLong(b[1]) /\ header_length > 6
       /\ packet_length > header_length /\ packet_length < 16384
    THEN LET n == packet_length - header_length - 4
         IN  [b EXCEPT ![pn_offset - 1] = 64 + (n \div 256), ![pn_offset] = n % 256]
    ELSE b

picoquic_update_payload_length(b, pn_offset, header_length, packet_length) ==
    IF IsLong(b[1]) /\ header_length > 6
       /\ packet_length > header_length /\ packet_length < 16384
    THEN LET n == packet_length - header_length
         IN  [b EXCEPT ![pn_offset - 1] = 64 + (n \div 256), ![pn_offset] = n % 256]
    ELSE b

Filler(n) == [k \in 1..n |-> 90 + (k % 7)]
FirstMask(byte, mask) == IF IsLong(byte) THEN mask % 16 ELSE mask % 32

(* The mask is applied to the low bits of the first byte and to n bytes    *)
(* of packet number; applying it again removes it.                         *)
Masked(b, pn_offset, mask, n) ==
    [k \in DOMAIN b |-> CASE k = 1 -> b[1] ^^ FirstMask(b[1], mask[1])
                          [] k \in pn_offset + 1..pn_offset + n ->
                                 b[k] ^^ mask[1 + (k - pn_offset)]
                          [] OTHER -> b[k]]

(* A packet of n bytes of frames sent to identifier remote.  The frames    *)
(* were prepared after a header of the predicted length.                   *)
picoquic_protect_packet(c, type, pn, remote, n, mask) ==
    LET length == picoquic_predict_packet_header_length(c, type) + n
        Whole(head, pn_offset) ==
            LET clear == head \o Filler(n + CHECKSUM)
            IN  [clear |-> clear, h_length |-> Len(head),
                 bytes |-> Masked(clear, pn_offset, mask, 4)]
        Spun(bytes, pn_offset) ==
            Whole(picoquic_update_payload_length(bytes, pn_offset, Len(bytes) - 4,
                                                 length + CHECKSUM), pn_offset)
        Created(p) == Spun(IF type = "one_rtt" /\ remote # c.remote
                           THEN [p.bytes EXCEPT ![1] = @ - 32 * c.spin] ELSE p.bytes,
                           p.pn_offset)
    IN  Created(picoquic_create_packet_header(c, type, pn, remote, c.local))

-----------------------------------------------------------------------------
(* Reading.  b is what is left of the datagram, q the receiver.            *)

(* With an unknown version the form is guessed from the lengths.           *)
GuessOld(b, vn, local_length) ==
    LET len == Len(b)
        one == picoquic_parse_packet_header_cnxid_lengths(b[6])
        two == b[6]
        l1  == 6 + one.dest + one.srce
        l2  == 6 + two + two
        srce2 == b[two + 7]
        EchoFits == CASE (len - l1) % 4 # 0 -> FALSE
                      [] (len - l1) % 4 = 0 /\ (len - l2) % 4 # 0 -> TRUE
                      [] OTHER ->
                           /\ one.srce >= ENFORCED_INITIAL_CID_LENGTH
                           /\ \/ srce2 < ENFORCED_INITIAL_CID_LENGTH
                              \/ one.dest = local_length /\ two # local_length
    IN  /\ l1 <= len
        /\ \/ two > MAX_CID \/ 6 + two > len
           \/ l2 > len
           \/ vn = NoVersion /\ EchoFits
           \/ vn # NoVersion /\ one.dest >= ENFORCED_INITIAL_CID_LENGTH

picoquic_is_old_header_invariant(b, vn, local_length) ==
    IF IsDraft(vn) THEN vn[4] <= 20
    ELSE (vn = NoVersion \/ ~IsFinal(vn)) /\ GuessOld(b, vn, local_length)

Malformed == [ret |-> -1, ptype |-> "error", old |-> FALSE, vn |-> NoVersion,
              dest |-> <<>>, srce |-> <<>>, token |-> <<>>, offset |-> 0,
              payload_length |-> 0, pn_offset |-> 0, supported |-> FALSE,
              key_phase |-> 0, spin |-> 0, found |-> FALSE]

picoquic_cnx_by_id(q, dest) == q.exists /\ dest # <<>> /\ dest \in q.cids
picoquic_cnx_by_net(q) == q.exists

(* A context found by the address only serves the packets that may have    *)
(* been sent before its identifier was known.                              *)
FindsLong(q, type, dest) ==
    \/ picoquic_cnx_by_id(q, dest)
    \/ picoquic_cnx_by_net(q)
       /\ IF q.client THEN q.cid = <<>>
          ELSE type \in {"initial", "zero_rtt"} /\ dest = q.initial

LongType(byte) == CASE (byte \div 16) % 8 = 4 -> "initial"
                    [] (byte \div 16) % 8 = 5 -> "zero_rtt"
                    [] (byte \div 16) % 8 = 6 -> "handshake"
                    [] (byte \div 16) % 8 = 7 -> "retry"
                    [] OTHER -> "error"

Remaining(len, offset) == IF len > offset THEN len - offset ELSE 0

(* What follows the identifiers: a token, the payload length.  Positions   *)
(* of the varints are those of module Varint, one past the offset.         *)
AfterToken(q, b, ph, ptype, tok, bad, offset, pl) ==
    LET len    == Len(b)
        failed == [ph EXCEPT !.ptype = "error", !.offset = offset,
                      !.payload_length = Remaining(len, offset)]
        parsed == [ph EXCEPT !.ptype = ptype, !.supported = TRUE,
                      !.found = FindsLong(q, ptype, ph.dest)]
    IN  CASE ptype = "error" -> failed
          [] bad -> [failed EXCEPT !.supported = TRUE]
          [] ptype = "retry" ->
               IF len > offset
               THEN [parsed EXCEPT !.payload_length = len - offset,
                                   !.offset = offset, !.pn_offset = offset]
               ELSE [failed EXCEPT !.supported = TRUE]
          [] OTHER ->
               IF pl.at = NULL \/ pl.at - 1 + pl.n > len
               THEN [failed EXCEPT !.supported = TRUE]
               ELSE [parsed EXCEPT !.payload_length = pl.n, !.offset = pl.at - 1,
                         !.pn_offset = pl.at - 1,
                         !.token = IF ptype = "initial"
                                   THEN Bytes(b, tok.at - 1, tok.n) ELSE <<>>]

ParseLongBody(q, b, ph) ==
    LET Payload(ptype, tok, bad, offset) ==
            AfterToken(q, b, ph, ptype, tok, bad, offset,
                       picoquic_frames_varint_decode(b, offset + 1))
        Token(ptype, tok) ==
            LET bad == ptype = "initial" /\ tok.at = NULL
            IN  Payload(ptype, tok, bad, CASE ptype # "initial" -> ph.offset
                                           [] bad -> Len(b)
                                           [] OTHER -> tok.at - 1 + tok.n)
    IN  Token(IF picoquic_get_version_index(ph.vn) THEN LongType(b[1]) ELSE "error",
              picoquic_frames_varint_decode(b, ph.offset + 1))

ParseLongIds(q, b, vn, old) ==
    LET both  == picoquic_parse_packet_header_cnxid_lengths(b[6])
        short == ~old /\ 7 + b[6] > Len(b)
        l_dest == IF old THEN both.dest ELSE b[6]
        i_srce == CASE short -> Len(b) [] old -> 6 + l_dest [] OTHER -> 7 + l_dest
        l_srce == CASE short -> 255 [] old -> both.srce [] OTHER -> b[7 + l_dest]
        ph == [Malformed EXCEPT !.ret = 0, !.vn = vn, !.old = old,
                  !.dest = picoquic_parse_connection_id(b, 6, l_dest),
                  !.srce = picoquic_parse_connection_id(b, i_srce, l_srce),
                  !.offset = i_srce + l_srce]
    IN  IF i_srce + l_srce + 2 > Len(b) THEN Malformed ELSE ph

ParseNegotiation(q, b, ph) ==
    [ph EXCEPT !.ptype = "negotiation",
         !.payload_length = Remaining(Len(b), ph.offset),
         !.found = IF ph.dest # <<>> THEN picoquic_cnx_by_id(q, ph.dest)
                   ELSE picoquic_cnx_by_net(q) /\ q.cid = <<>>]

ParseLong(q, b) ==
    LET vn == Bytes(b, 1, 4)
        Body(ph) == IF ph.ret # 0 THEN ph
                    ELSE IF vn = NoVersion THEN ParseNegotiation(q, b, ph)
                    ELSE ParseLongBody(q, b, ph)
    IN  Body(ParseLongIds(q, b, vn,
                          picoquic_is_old_header_invariant(b, vn, q.local_length)))

ParseShort(q, b) ==
    LET fits == Len(b) >= 1 + q.local_length
        dest == picoquic_parse_connection_id(b, 1, q.local_length)
        found == fits /\ IF q.local_length > 0 THEN picoquic_cnx_by_id(q, dest)
                         ELSE picoquic_cnx_by_net(q)
        offset == IF fits THEN 1 + Len(dest) ELSE Len(b)
        ph == [Malformed EXCEPT !.ret = 0, !.ptype = "one_rtt", !.dest = dest,
                  !.offset = offset, !.pn_offset = offset, !.found = found,
                  !.payload_length = Remaining(Len(b), offset), !.supported = found,
                  !.spin = (b[1] \div 32) % 2, !.key_phase = (b[1] \div 4) % 2]
    IN  IF found /\ (b[1] \div 64) % 2 # 1
        THEN [ph EXCEPT !.ret = -1, !.ptype = "error", !.payload_length = 0] ELSE ph

picoquic_parse_packet_header(q, b) ==
    IF IsLong(b[1])
    THEN IF Len(b) < 6 THEN Malformed ELSE ParseLong(q, b)
    ELSE ParseShort(q, b)

(* The packet number and the low bits of the first byte.  A packet too     *)
(* short for a sample is left as it is and will not decrypt.               *)
picoquic_remove_header_protection(b, ph, mask) ==
    IF ph.pn_offset + 4 + SAMPLE > ph.offset + ph.payload_length
    THEN [bytes |-> b, ph |-> ph, pn |-> -1]
    ELSE LET first == b[1] ^^ FirstMask(b[1], mask[1])
             pn_l  == (first % 4) + 1
             clear == Masked(b, ph.pn_offset, mask, pn_l)
         IN  [bytes |-> clear,
              pn |-> FoldLeft(LAMBDA v, byte : v * 256 + byte, 0,
                              Bytes(clear, ph.pn_offset, pn_l)),
              ph |-> [ph EXCEPT !.offset = ph.pn_offset + pn_l,
                         !.payload_length = @ - pn_l,
                         !.key_phase = IF ph.ptype = "one_rtt"
                                       THEN (first \div 4) % 2 ELSE @]]

(* External: the AEAD opens exactly what was sealed, header included.      *)
Sealed(packets, epoch, clear) ==
    \E k \in DOMAIN packets : /\ Epoch[packets[k].ptype] = epoch
                               /\ packets[k].clear = clear

(* The outcome for the segment: "ok", or the error it is dropped with; the *)
(* bytes to pass over; the receiver, which may have a new context.         *)
Decrypted(q, b, ph, packet_length, mask, packets) ==
    LET length  == ph.offset + ph.payload_length
        creates == ph.ptype = "initial" /\ ~ph.found
        accept  == /\ packet_length >= link.enforced_mtu
                   /\ Len(ph.dest) >= ENFORCED_INITIAL_CID_LENGTH
        q2      == IF creates /\ accept
                   THEN [q EXCEPT !.exists = TRUE, !.initial = ph.dest] ELSE q
        cleared == picoquic_remove_header_protection(SubSeq(b, 1, length), ph, mask)
        opens   == /\ Epoch[ph.ptype] \in q2.keys
                   /\ Sealed(packets, Epoch[ph.ptype], cleared.bytes)
        Outcome(ret, n, r) == [ret |-> ret, consumed |-> n, q |-> r,
                               ph |-> cleared.ph, pn |-> cleared.pn]
        Unopened(ret, n) == [ret |-> ret, consumed |-> n, q |-> q, ph |-> ph, pn |-> -1]
    IN  CASE ph.ret # 0 -> Unopened("malformed", 0)
          [] ph.ret = 0 /\ ph.ptype \in {"negotiation", "retry"} -> Unopened("ok", Len(b))
          [] ph.ret = 0 /\ ph.ptype = "error" -> Unopened("ok", length)
          [] ph.ret = 0 /\ ph.ptype \in DOMAIN Epoch ->
               (CASE creates /\ ~accept -> Unopened("too_short", length)
                  [] ~creates /\ ~ph.found -> Unopened("ok", length)
                  [] (creates /\ accept) \/ ph.found ->
                       IF opens THEN Outcome("ok", length, q2)
                       ELSE Outcome("aead_check", length, q))

picoquic_parse_header_and_decrypt(q, b, packet_length, mask, packets) ==
    Decrypted(q, b, picoquic_parse_packet_header(q, b), packet_length, mask, packets)

(* The packets that are written; the receiver's view of an opened packet.  *)
Seen(r) == [ptype |-> r.ph.ptype, vn |-> r.ph.vn, dest |-> r.ph.dest, srce |-> r.ph.srce,
            token |-> r.ph.token, pn |-> r.pn, size |-> r.ph.payload_length - CHECKSUM,
            key_phase |-> r.ph.key_phase, spin |-> r.ph.spin]

Meant(c, type, pn, remote, n) ==
    LET long == type # "one_rtt"
    IN  [ptype |-> type,
         vn |-> IF long THEN SentVersion(c, type) ELSE NoVersion,
         dest |-> IF UsesInitialId(c, type, remote) THEN c.initial ELSE remote,
         srce |-> IF long THEN c.local ELSE <<>>,
         token |-> IF type = "initial" THEN c.token ELSE <<>>, pn |-> pn, size |-> n,
         key_phase |-> IF long THEN 0 ELSE c.key_phase,
         spin |-> IF long \/ remote # c.remote THEN 0 ELSE c.spin]

-----------------------------------------------------------------------------
(* What the log reads of a packet it is given before the protection of the *)
(* header: where the frames are in the prepared packet, and how many bytes.*)
picoquic_log_outgoing_segment(c, clear) ==
    LET q  == [exists |-> FALSE, client |-> c.client, cid |-> <<>>, cids |-> {}, initial |-> <<>>,
               local_length |-> Len(c.remote), keys |-> {}]
        Frames(ph) ==
            LET n == IF ph.pn_offset # 0 THEN ph.payload_length - 4 ELSE ph.payload_length
            IN  [ptype |-> ph.ptype,
                 offset |-> IF ph.pn_offset # 0 THEN ph.pn_offset + 4 ELSE ph.offset,
                 size |-> IF n > CHECKSUM THEN n - CHECKSUM ELSE 0]
    IN  Frames(picoquic_parse_packet_header(q, clear))

(* A Retry as the log reads it: the original identifier, then the token.   *)
picoquic_log_retry_packet(version, b, ph) ==
    LET draft20 == version = TWELFTH_INTEROP_VERSION
        odcil == IF draft20 THEN picoquic_parse_packet_header_cnxid_lengths(b[1]).srce
                 ELSE b[ph.offset + 1]
        start == IF draft20 THEN ph.offset ELSE ph.offset + 1
        n     == IF draft20 THEN ph.payload_length ELSE ph.payload_length - 1
    IN  IF odcil > n THEN [odcid |-> <<>>, token |-> <<>>]
        ELSE [odcid |-> Bytes(b, start, odcil), token |-> Bytes(b, start + odcil, n - odcil)]

-----------------------------------------------------------------------------
(* The server's answers to a first packet, with the header ph.             *)
Grease == <<10, 10, 10, 10>>

picoquic_prepare_version_negotiation(ph) ==
    <<128>> \o NoVersion
    \o (IF ph.old THEN <<picoquic_create_packet_header_cnxid_lengths(Len(ph.srce), Len(ph.dest))>>
                       \o ph.srce \o ph.dest
        ELSE <<Len(ph.srce)>> \o ph.srce \o <<Len(ph.dest)>> \o ph.dest)
    \o FlattenSeq(picoquic_supported_versions) \o Grease

(* s is the context that the server has made for the first packet.         *)
picoquic_queue_stateless_retry(s, token) ==
    LET head == picoquic_create_packet_header(s, "retry", 0, s.remote, s.local).bytes
        odcil == Len(s.initial)
    IN  (IF s.version = TWELFTH_INTEROP_VERSION
         THEN [head EXCEPT ![1] = @ + picoquic_create_packet_header_cnxid_lengths(0, odcil)]
         ELSE head \o <<odcil>>) \o s.initial \o token

(* The client's reading of a Retry: the new identifier and the token, or   *)
(* nothing when the Retry does not echo the client's first packet.         *)
NotUnderstood == [srce |-> <<>>, token |-> <<>>]

picoquic_incoming_retry(c, b, ph) ==
    LET draft20 == c.version = TWELFTH_INTEROP_VERSION
        odcil == IF draft20 THEN picoquic_parse_packet_header_cnxid_lengths(b[1]).srce
                 ELSE b[ph.offset + 1]
        start == IF draft20 THEN ph.offset ELSE ph.offset + 1
    IN  IF \/ ph.vn # c.version \/ odcil # Len(c.initial)
           \/ odcil + 1 > ph.payload_length
           \/ Bytes(b, start, odcil) # c.initial
        THEN NotUnderstood
        ELSE [srce |-> ph.srce,
              token |-> SubSeq(b, start + odcil + 1, ph.offset + ph.payload_length)]

-----------------------------------------------------------------------------
Init == /\ link \in Links
        /\ datagram = <<>> /\ sent = <<>> /\ at = 0 /\ prev = <<>> /\ got = <<>>
        /\ phase = "fill"

(* picoquic_prepare_packet adds a segment, epoch by epoch; nothing follows *)
(* a short header.                                                         *)
PrepareSegment(type, remote, n) ==
    /\ phase = "fill" /\ type \in link.types /\ Len(sent) < MaxSegments
    /\ \A k \in DOMAIN sent : /\ sent[k].ptype # "one_rtt"
                              /\ Epoch[sent[k].ptype] <= Epoch[type]
    /\ type # "one_rtt" => remote = link.c.remote
    /\ LET pn == 257 * (Len(sent) + 1)
       IN  \E p \in {picoquic_protect_packet(link.c, type, pn, remote, n, link.mask)} :
           /\ datagram' = datagram \o p.bytes
           /\ sent' = Append(sent, Meant(link.c, type, pn, remote, n)
                                   @@ [clear |-> p.clear])
    /\ UNCHANGED <<link, at, prev, got, phase>>

Deliver == /\ phase = "fill" /\ sent # <<>>
           /\ phase' = "arrive"
           /\ UNCHANGED <<link, datagram, sent, at, prev, got>>

Rest == SubSeq(datagram, at + 1, Len(datagram))
Opened == picoquic_parse_header_and_decrypt(link.q, Rest, Len(datagram), link.mask, sent)

SameDestination(ph) == prev = <<>> \/ prev = ph.dest
ToTheContext(q, ph) == ph.ptype = "initial" =>
                           \/ ~q.client /\ ph.dest = q.initial
                           \/ ph.dest = q.cid
Unsupported(ph) == ~ph.supported /\ ph.vn # NoVersion

(* The first packet of a connection that the server does not just accept.  *)
NegotiatesVersion(r) == /\ ~link.q.exists /\ Len(datagram) >= link.enforced_mtu
                        /\ r.ret = "ok" /\ Unsupported(r.ph)
AsksForToken(r) == /\ ~link.q.exists /\ link.retry
                   /\ r.ret = "ok" /\ r.ph.ptype = "initial" /\ r.ph.token = <<>>
Answered(r) == NegotiatesVersion(r) \/ AsksForToken(r)

(* One segment (picoquic_incoming_segment) and the walk to the next one.   *)
IncomingSegment ==
    /\ phase = "arrive" /\ at < Len(datagram)
    /\ \E r \in {Opened} :
       LET ok == r.ret = "ok" /\ SameDestination(r.ph)
           handled == ok /\ r.pn # -1 /\ ToTheContext(r.q, r.ph)
       IN  /\ ~Answered(r)
           /\ link' = [link EXCEPT !.q = r.q]
           /\ prev' = IF ok /\ prev = <<>> THEN r.ph.dest ELSE prev
           /\ got' = IF handled THEN Append(got, Seen(r)) ELSE got
           /\ IF handled \/ r.ret = "aead_check" \/ (ok /\ Unsupported(r.ph))
              THEN at' = at + r.consumed /\ phase' = phase
              ELSE at' = at /\ phase' = "done"
    /\ UNCHANGED <<datagram, sent>>

DatagramDone == /\ phase = "arrive" /\ at >= Len(datagram)
                /\ phase' = "done"
                /\ UNCHANGED <<link, datagram, sent, at, prev, got>>

(* The server answers the first segment with a list of versions.           *)
AnswerVersions ==
    /\ phase = "arrive" /\ at = 0
    /\ \E r \in {Opened} :
           /\ NegotiatesVersion(r)
           /\ datagram' = picoquic_prepare_version_negotiation(r.ph)
    /\ sent' = <<FlattenSeq(picoquic_supported_versions) \o Grease>>
    /\ phase' = "answer"
    /\ UNCHANGED <<link, at, prev, got>>

(* The server asks for a token (picoquic_incoming_initial, first context). *)
AnswerRetry ==
    /\ phase = "arrive" /\ at = 0
    /\ \E r \in {Opened} :
       LET s == [link.c EXCEPT !.client = FALSE, !.starting = FALSE, !.version = r.ph.vn,
                    !.remote = r.ph.srce, !.initial = r.ph.dest, !.local = link.q.cid]
       IN  /\ AsksForToken(r)
           /\ datagram' = picoquic_queue_stateless_retry(s, link.token)
    /\ sent' = <<[srce |-> link.q.cid, token |-> link.token]>>
    /\ phase' = "answer"
    /\ UNCHANGED <<link, at, prev, got>>

(* The client reads the answer; the log has read it at the server.         *)
IncomingAnswer ==
    /\ phase = "answer"
    /\ LET q  == [exists |-> TRUE, client |-> TRUE, cid |-> link.c.local,
                  cids |-> {link.c.local}, initial |-> <<>>, local_length |-> Len(link.c.local), keys |-> {0}]
       IN  \E ph \in {picoquic_parse_packet_header(q, datagram)} :
           got' = CASE ph.found /\ ph.ptype = "negotiation" /\ ph.dest = q.cid ->
                         <<Bytes(datagram, ph.offset, ph.payload_length)>>
                    [] ph.found /\ ph.ptype = "retry" ->
                         <<picoquic_incoming_retry(link.c, datagram, ph)>>
                    [] OTHER -> <<NotUnderstood>>
    /\ phase' = "answered"
    /\ UNCHANGED <<link, datagram, sent, at, prev>>

Next == \/ \E type \in Types, remote \in link.remotes, n \in Sizes :
              PrepareSegment(type, remote, n)
        \/ Deliver \/ IncomingSegment \/ DatagramDone
        \/ AnswerVersions \/ AnswerRetry \/ IncomingAnswer

Spec == Init /\ [][Next]_vars

-----------------------------------------------------------------------------
Plain(packets) == [k \in DOMAIN packets |-> [f \in DOMAIN packets[k] \ {"clear"} |-> packets[k][f]]]

(* The receiver can use a packet when it has the keys, and the context or  *)
(* a first packet that may create one.                                     *)
Usable(p) == Epoch[p.ptype] \in link.q.keys

(* Every packet of a datagram that the receiver has keys for is opened, in *)
(* order and with the type, version, identifiers, token, packet number and *)
(* payload that were sent, whatever the packets before it that it could    *)
(* not open (picoquic_protect_packet against picoquic_incoming_packet).    *)
(* Without a context, only an Initial in a long enough datagram makes one. *)
SegmentsRecovered ==
    phase = "done" =>
        \/ got = Plain(SelectSeq(sent, Usable))
        \/ /\ ~link.q.exists /\ got = <<>>
           /\ Len(datagram) < link.enforced_mtu \/ sent[1].ptype # "initial"

(* The log finds the frames of an outgoing packet where they were          *)
(* prepared, unless it does not know the version                           *)
(* (picoquic_log_outgoing_segment).  All the identifiers of a peer have    *)
(* one length here, as those that picoquic issues.                         *)
LogFindsFrames ==
    phase = "fill" =>
        \A k \in DOMAIN sent :
            \A read \in {picoquic_log_outgoing_segment(link.c, sent[k].clear)} :
                sent[k].ptype = "one_rtt" \/ picoquic_get_version_index(sent[k].vn) =>
                  /\ read.ptype = sent[k].ptype
                  /\ read.offset = picoquic_predict_packet_header_length(link.c, sent[k].ptype)
                  /\ read.size = sent[k].size

(* The client finds in a Version Negotiation the list of versions, and in  *)
(* a Retry the identifier and the token, that the server has put there; it *)
(* guesses the form of a packet without version from the lengths           *)
(* (picoquic_is_old_header_invariant), and the log reads the same token.   *)
AnswersUnderstood ==
    phase = "answered" =>
        /\ got = sent
        /\ link.retry =>
             LET ph == picoquic_parse_packet_header(link.q, datagram)
             IN  picoquic_log_retry_packet(link.c.version, datagram, ph)
                   = [odcid |-> link.c.initial, token |-> link.token]
=============================================================================
