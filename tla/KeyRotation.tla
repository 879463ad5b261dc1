----------------------------- MODULE KeyRotation -----------------------------
(***************************************************************************)
(* Key updates of the 1-RTT packet protection, at both ends, over a        *)
(* network that loses, duplicates and reorders (quicctx.c:2449-2470,       *)
(* packet.c:532-617, tls_api.c:909-990).                                   *)
(*                                                                         *)
(* A key is the number of secret rotations it was made with, its           *)
(* generation, or None for a null context.  A packet is decrypted by the   *)
(* key it was encrypted with and by no other.  Only its key phase bit      *)
(* tells the receiver which one that may be.                               *)
(***************************************************************************)
EXTENDS Integers

CONSTANTS MaxRotations, MaxPn

ASSUME LimitsAssumption == MaxRotations \in Nat /\ MaxPn \in Nat

VARIABLES
  secret_enc, secret_dec,      \* app_secret_enc, app_secret_dec
  enc, dec,                    \* crypto_context[3]
  new_enc, new_dec,            \* crypto_context_new
  old_dec,                     \* crypto_context_old
  key_phase_enc, key_phase_dec,
  crypto_rotation_sequence,
  guard_open,                  \* crypto_rotation_time_guard is not over
  crypto_epoch_sequence,
  send_sequence,
  end_of_sack_range,           \* largest number received
  net,                         \* packets under way to an end
  confirmed,                   \* history: largest own generation in an ACK
  started                      \* history: ends that have started a rotation

secrets  == <<secret_enc, secret_dec>>
contexts == <<enc, dec, new_enc, new_dec, old_dec>>
phases   == <<key_phase_enc, key_phase_dec>>
vars == <<secrets, contexts, phases, crypto_rotation_sequence, guard_open,
          crypto_epoch_sequence, send_sequence, end_of_sack_range, net,
          confirmed, started>>

Ends == {"client", "server"}
Peer(e) == IF e = "client" THEN "server" ELSE "client"

None == -1
Key == Nat \cup {None}

(* `acks` stands for the ACK in the packet: the largest generation among   *)
(* the packets that the sender has received.                               *)
Packet == [pn : Nat, phase : {0, 1}, key : Nat, acks : Nat]

Init ==
    /\ secret_enc = [e \in Ends |-> 0] /\ secret_dec = [e \in Ends |-> 0]
    /\ enc = [e \in Ends |-> 0] /\ dec = [e \in Ends |-> 0]
    /\ new_enc = [e \in Ends |-> None] /\ new_dec = [e \in Ends |-> None]
    /\ old_dec = [e \in Ends |-> None]
    /\ key_phase_enc = [e \in Ends |-> 0] /\ key_phase_dec = [e \in Ends |-> 0]
    /\ crypto_rotation_sequence = [e \in Ends |-> 0]
    /\ guard_open = [e \in Ends |-> FALSE]
    /\ crypto_epoch_sequence = [e \in Ends |-> 0]
    /\ send_sequence = [e \in Ends |-> 0]
    /\ end_of_sack_range = [e \in Ends |-> 0]
    /\ net = [e \in Ends |-> {}]
    /\ confirmed = [e \in Ends |-> 0]
    /\ started = {}

-----------------------------------------------------------------------------
NoNewContext(e) == new_enc[e] = None /\ new_dec[e] = None

(* picoquic_compute_new_rotated_keys: done already, possible now, or not   *)
(* possible since the previous rotation is not complete.                   *)
NewKeysAvailable(e) ==
    NoNewContext(e) \/ (new_enc[e] # None /\ new_dec[e] # None)

(* Faulty variant: new keys are made although they were made already.      *)
NextEncAgain(e) == secret_enc[e] + 1

NextEnc(e) == IF NoNewContext(e) THEN secret_enc[e] + 1 ELSE new_enc[e]
NextDec(e) == IF NoNewContext(e) THEN secret_dec[e] + 1 ELSE new_dec[e]

RotateSecrets(e) ==
    /\ secret_enc' = [secret_enc EXCEPT ![e] = NextEnc(e)]
    /\ secret_dec' = [secret_dec EXCEPT ![e] = NextDec(e)]

(* The condition of picoquic_start_key_rotation.                           *)
MayRotate(e) ==
    /\ crypto_epoch_sequence[e] <= end_of_sack_range[e]
    /\ NewKeysAvailable(e)

(* picoquic_start_key_rotation.                                            *)
StartKeyRotation(e) ==
    /\ MayRotate(e)
    /\ NextEnc(e) <= MaxRotations
    /\ RotateSecrets(e)
    /\ enc' = [enc EXCEPT ![e] = NextEnc(e)]
    /\ new_enc' = [new_enc EXCEPT ![e] = None]
    /\ new_dec' = [new_dec EXCEPT ![e] = NextDec(e)]
    /\ old_dec' = [old_dec EXCEPT ![e] = None]
    /\ key_phase_enc' = [key_phase_enc EXCEPT ![e] = 1 - @]
    /\ crypto_epoch_sequence' = [crypto_epoch_sequence EXCEPT
                                   ![e] = send_sequence[e]]
    /\ started' = started \cup {e}
    /\ UNCHANGED <<dec, key_phase_dec, crypto_rotation_sequence, guard_open,
                   send_sequence, end_of_sack_range, net, confirmed>>

(* A packet, with the key phase of picoquic_create_packet_header.          *)
Send(e) ==
    /\ send_sequence[e] <= MaxPn
    /\ send_sequence' = [send_sequence EXCEPT ![e] = @ + 1]
    /\ net' = [net EXCEPT ![Peer(e)] =
                 @ \cup {[pn |-> send_sequence[e], phase |-> key_phase_enc[e],
                          key |-> enc[e], acks |-> dec[e]]}]
    /\ UNCHANGED <<secrets, contexts, phases, crypto_rotation_sequence,
                   guard_open, crypto_epoch_sequence, end_of_sack_range,
                   confirmed, started>>

(* The three cases of picoquic_remove_packet_protection.                   *)
UsesCurrentKey(e, phase) == phase = key_phase_dec[e]

(* Faulty variant: a packet number equal to that of the rotation is old.   *)
UsesOldKeyUpTo(e, phase, pn) ==
    phase # key_phase_dec[e] /\ pn <= crypto_rotation_sequence[e]

UsesOldKey(e, phase, pn) ==
    phase # key_phase_dec[e] /\ pn < crypto_rotation_sequence[e]
UsesNewKey(e, phase, pn) ==
    ~UsesCurrentKey(e, phase) /\ ~UsesOldKey(e, phase, pn)

Decrypts(e, m) ==
    \/ UsesCurrentKey(e, m.phase) /\ dec[e] = m.key
    \/ UsesOldKey(e, m.phase, m.pn) /\ guard_open[e] /\ old_dec[e] = m.key
    \/ UsesNewKey(e, m.phase, m.pn) /\ NextDec(e) = m.key

Record(e, m) ==
    /\ end_of_sack_range' =
         [end_of_sack_range EXCEPT ![e] = IF @ < m.pn THEN m.pn ELSE @]
    /\ confirmed' = [confirmed EXCEPT ![e] = IF @ < m.acks THEN m.acks ELSE @]

(* A packet that the current or the old key decrypts.                      *)
IncomingKnownKey(e) ==
    /\ \E m \in net[e] : /\ ~UsesNewKey(e, m.phase, m.pn)
                         /\ Decrypts(e, m)
                         /\ Record(e, m)
    /\ UNCHANGED <<secrets, contexts, phases, crypto_rotation_sequence,
                   guard_open, crypto_epoch_sequence, send_sequence, net,
                   started>>

(* Faulty variant: the encryption key does not follow.                     *)
FollowNever(e) == UNCHANGED <<enc, key_phase_enc>>

(* picoquic_apply_rotated_keys(cnx, 1), unless this end rotated first.     *)
Follow(e) ==
    IF NoNewContext(e) \/ new_enc[e] # None
    THEN /\ enc' = [enc EXCEPT ![e] = NextEnc(e)]
         /\ key_phase_enc' = [key_phase_enc EXCEPT ![e] = 1 - @]
    ELSE UNCHANGED <<enc, key_phase_enc>>

(* A packet that the next key decrypts completes the rotation.             *)
IncomingNewKey(e) ==
    /\ \E m \in net[e] :
         /\ UsesNewKey(e, m.phase, m.pn)
         /\ Decrypts(e, m)
         /\ Record(e, m)
         /\ crypto_rotation_sequence' =
              [crypto_rotation_sequence EXCEPT ![e] = m.pn]
    /\ IF NoNewContext(e) THEN RotateSecrets(e) ELSE UNCHANGED secrets
    /\ old_dec' = [old_dec EXCEPT ![e] = dec[e]]
    /\ dec' = [dec EXCEPT ![e] = NextDec(e)]
    /\ key_phase_dec' = [key_phase_dec EXCEPT ![e] = 1 - @]
    /\ Follow(e)
    /\ new_dec' = [new_dec EXCEPT ![e] = None]
    /\ new_enc' = [new_enc EXCEPT ![e] = None]
    /\ guard_open' = [guard_open EXCEPT ![e] = TRUE]
    /\ UNCHANGED <<crypto_epoch_sequence, send_sequence, net, started>>

(* A packet that is not decrypted, late or damaged, of any number and      *)
(* phase: it is dropped, but the next keys may be made for it.             *)
IncomingUndecryptable(e) ==
    /\ \E phase \in {0, 1}, pn \in 0..MaxPn : UsesNewKey(e, phase, pn)
    /\ NoNewContext(e)
    /\ secret_enc[e] < MaxRotations
    /\ RotateSecrets(e)
    /\ new_enc' = [new_enc EXCEPT ![e] = NextEnc(e)]
    /\ new_dec' = [new_dec EXCEPT ![e] = NextDec(e)]
    /\ UNCHANGED <<enc, dec, old_dec, phases, crypto_rotation_sequence,
                   guard_open, crypto_epoch_sequence, send_sequence,
                   end_of_sack_range, net, confirmed, started>>

(* Time passes the guard.                                                  *)
GuardExpires(e) ==
    /\ guard_open[e]
    /\ guard_open' = [guard_open EXCEPT ![e] = FALSE]
    /\ UNCHANGED <<secrets, contexts, phases, crypto_rotation_sequence,
                   crypto_epoch_sequence, send_sequence, end_of_sack_range,
                   net, confirmed, started>>

Next == \E e \in Ends : \/ StartKeyRotation(e)
                        \/ Send(e)
                        \/ IncomingKnownKey(e)
                        \/ IncomingNewKey(e)
                        \/ IncomingUndecryptable(e)
                        \/ GuardExpires(e)

Spec == Init /\ [][Next]_vars

-----------------------------------------------------------------------------
(* Properties.                                                             *)

TypeOK ==
    /\ secret_enc \in [Ends -> Nat] /\ secret_dec \in [Ends -> Nat]
    /\ enc \in [Ends -> Nat] /\ dec \in [Ends -> Nat]
    /\ new_enc \in [Ends -> Key] /\ new_dec \in [Ends -> Key]
    /\ old_dec \in [Ends -> Key]
    /\ key_phase_enc \in [Ends -> {0, 1}] /\ key_phase_dec \in [Ends -> {0, 1}]
    /\ crypto_rotation_sequence \in [Ends -> Nat]
    /\ guard_open \in [Ends -> BOOLEAN]
    /\ crypto_epoch_sequence \in [Ends -> Nat]
    /\ send_sequence \in [Ends -> Nat]
    /\ end_of_sack_range \in [Ends -> Nat]
    /\ net \in [Ends -> SUBSET Packet]
    /\ confirmed \in [Ends -> Nat]
    /\ started \subseteq Ends

(* The two directions of an end stay paired: it encrypts with the          *)
(* generation it decrypts with, or with the next one while its own         *)
(* rotation is not answered, and a context that was made ahead of time is  *)
(* the next one (tls_api.c:916, packet.c:591).                             *)
KeysPaired ==
    \A e \in Ends :
        /\ \/ enc[e] = dec[e] /\ new_enc[e] \in {None, enc[e] + 1}
                              /\ new_dec[e] = new_enc[e]
           \/ enc[e] = dec[e] + 1 /\ new_enc[e] = None /\ new_dec[e] = enc[e]
        /\ new_dec[e] = None => secret_dec[e] = dec[e] /\ secret_enc[e] = enc[e]
        /\ new_dec[e] # None => secret_dec[e] = new_dec[e]
                             /\ secret_enc[e] = new_dec[e]

(* However the rotations of the two ends cross, no end gets more than one  *)
(* generation ahead of the keys that the other one sends with              *)
(* (quicctx.c:2461).                                                       *)
BoundedDrift == \A e \in Ends : enc[e] <= enc[Peer(e)] + 1

(* What is sent with the current key is decrypted whenever it arrives,     *)
(* before or after any other packet, as long as only one end has started   *)
(* rotations (packet.c:552-590).                                           *)
CurrentKeyDecrypts ==
    started # Ends =>
        \A e \in Ends : \A m \in net[Peer(e)] :
            m.key = enc[e] => Decrypts(Peer(e), m)

(* A late packet of the previous generation is decrypted until the guard   *)
(* time is over, or the end starts a rotation of its own (packet.c:557).   *)
LatePacketsDecrypt ==
    \A e \in Ends : \A m \in net[e] :
        m.key = dec[e] - 1 /\ guard_open[e] /\ old_dec[e] # None
            => Decrypts(e, m)

(* The two together: what is in flight is decrypted when it arrives.       *)
PacketsDecrypt == CurrentKeyDecrypts /\ LatePacketsDecrypt

(* A rotation starts only when a packet of the previous one was            *)
(* acknowledged (comment of picoquic_start_key_rotation, quicctx.c:2453).  *)
PreviousRotationAcked ==
    [][\A e \in Ends : enc'[e] > enc[e] /\ dec'[e] = dec[e]
                         => confirmed[e] >= enc[e]]_vars
=============================================================================
