------------------------------- MODULE Varint -------------------------------
(***************************************************************************)
(* The variable length integers of the wire format (intformat.c:60-133,    *)
(* frames.c:69-149).  The two high bits of the first byte give the length: *)
(* 1, 2, 4 or 8 bytes.  A buffer is a sequence of bytes, a position in it  *)
(* the index of the next byte, and the position NULL is 0.                 *)
(***************************************************************************)
EXTENDS Integers, Sequences

NULL == 0

VarintLength(n) == IF n < 64 THEN 1
                   ELSE IF n < 16384 THEN 2
                   ELSE IF n < 1073741824 THEN 4
                   ELSE 8

(* The bytes of n, most significant first (picoformat_16, _32, _64).       *)
picoformat_16(n) == <<(n \div 256) % 256, n % 256>>
picoformat_32(n) == picoformat_16(n \div 65536) \o picoformat_16(n)
picoformat_64(n) == picoformat_32((n \div 65536) \div 65536) \o picoformat_32(n)

picoquic_varint_encode(n) ==
    CASE VarintLength(n) = 1 -> <<n>>
      [] VarintLength(n) = 2 -> <<64 + (n \div 256), n % 256>>
      [] VarintLength(n) = 4 -> [picoformat_32(n) EXCEPT ![1] = 128 + @]
      [] VarintLength(n) = 8 -> [picoformat_64(n) EXCEPT ![1] = 192 + @]

(* Where reading n bytes from position at ends, NULL past the buffer.      *)
picoquic_frames_fixed_skip(b, at, n) ==
    IF at # NULL /\ at + n <= Len(b) + 1 THEN at + n ELSE NULL

VARINT_LEN(byte) == CASE byte < 64 -> 1
                      [] byte \in 64..127 -> 2
                      [] byte \in 128..191 -> 4
                      [] OTHER -> 8

picoquic_frames_varint_skip(b, at) ==
    IF at # NULL /\ at <= Len(b)
    THEN picoquic_frames_fixed_skip(b, at, VARINT_LEN(b[at])) ELSE NULL

PICOPARSE_16(b, at) == b[at] * 256 + b[at + 1]
PICOPARSE_32(b, at) == PICOPARSE_16(b, at) * 65536 + PICOPARSE_16(b, at + 2)

(* The value of the varint at a position from which it can be read.        *)
VarintValue(b, at) ==
    LET high == b[at] % 64
        two  == high * 256 + b[at + 1]
        four == two * 65536 + PICOPARSE_16(b, at + 2)
    IN  CASE VARINT_LEN(b[at]) = 1 -> high
          [] VARINT_LEN(b[at]) = 2 -> two
          [] VARINT_LEN(b[at]) = 4 -> four
          [] VARINT_LEN(b[at]) = 8 -> (four * 65536) * 65536 + PICOPARSE_32(b, at + 4)

(* The value read and the position after it.                               *)
picoquic_frames_varint_decode(b, at) ==
    LET next == picoquic_frames_varint_skip(b, at)
    IN  [at |-> next, n |-> IF next = NULL THEN 0 ELSE VarintValue(b, at)]
=============================================================================
