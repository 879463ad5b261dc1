------------------------- MODULE KeyRotation_proofs -------------------------
(***************************************************************************)
(* Proofs about key rotation, for any number of rotations and packets.     *)
(***************************************************************************)
EXTENDS KeyRotation, TLAPS

(* What is known of the packets from end e to end r: numbers and keys grow *)
(* together, the phase is the parity of the key, and the rotations that r  *)
(* has followed are where the keys change.                                 *)
Stream(e, r) ==
    /\ \A m \in net[r] : /\ m.pn < send_sequence[e]
                         /\ m.key <= enc[e]
                         /\ m.phase = m.key % 2
                         /\ m.key > dec[r] => m.pn >= crypto_rotation_sequence[r]
                         /\ m.key < dec[r] => m.pn < crypto_rotation_sequence[r]
    /\ \A m, k \in net[r] : m.key < k.key => m.pn < k.pn
    /\ crypto_rotation_sequence[r] <= send_sequence[e]
    /\ dec[r] <= enc[e]

(* What is known of the keys of one end.                                   *)
Paired(e) ==
    /\ \/ enc[e] = dec[e] /\ new_enc[e] \in {None, enc[e] + 1}
                          /\ new_dec[e] = new_enc[e]
       \/ enc[e] = dec[e] + 1 /\ new_enc[e] = None /\ new_dec[e] = enc[e]
    /\ new_dec[e] = None => secret_dec[e] = dec[e] /\ secret_enc[e] = enc[e]
    /\ new_dec[e] # None => secret_dec[e] = new_dec[e] /\ secret_enc[e] = new_dec[e]
    /\ e \notin started => enc[e] = dec[e]

Keys(e) ==
    /\ Paired(e)
    /\ key_phase_enc[e] = enc[e] % 2
    /\ key_phase_dec[e] = dec[e] % 2
    /\ old_dec[e] \in {None, dec[e] - 1}

(* The inductive invariant.                                                *)
Rotating == TypeOK /\ \A e \in Ends : Keys(e) /\ Stream(e, Peer(e))

(* There are two ends, each the other's peer.                              *)
LEMMA Peers ==
  ASSUME NEW e \in Ends
  PROVE  Peer(e) \in Ends /\ Peer(e) # e /\ Peer(Peer(e)) = e /\ Ends = {e, Peer(e)}
BY DEF Ends, Peer

(* The fields of a packet.                                                 *)
LEMMA PacketFields ==
  ASSUME NEW m \in Packet
  PROVE  m.pn \in Nat /\ m.phase \in {0, 1} /\ m.key \in Nat /\ m.acks \in Nat
BY DEF Packet

(* Consecutive keys have different phases.                                 *)
LEMMA Parity ==
  ASSUME NEW n \in Nat
  PROVE  n % 2 \in {0, 1} /\ (n + 1) % 2 = 1 - (n % 2) /\ (n + 1) % 2 # n % 2
OBVIOUS

(* The types at one end.                                                   *)
LEMMA TypesAt ==
  ASSUME TypeOK, NEW e \in Ends
  PROVE  /\ secret_enc[e] \in Nat /\ secret_dec[e] \in Nat
         /\ enc[e] \in Nat /\ dec[e] \in Nat
         /\ new_enc[e] \in Key /\ new_dec[e] \in Key /\ old_dec[e] \in Key
         /\ crypto_rotation_sequence[e] \in Nat
         /\ send_sequence[e] \in Nat /\ net[e] \subseteq Packet
         /\ end_of_sack_range[e] \in Nat /\ confirmed[e] \in Nat
BY DEF TypeOK

(* The next keys are the ones after the current ones.                      *)
LEMMA NextKeys ==
  ASSUME TypeOK, NEW e \in Ends, Paired(e)
  PROVE  /\ NextDec(e) = dec[e] + 1
         /\ NewKeysAvailable(e) => /\ NextEnc(e) = enc[e] + 1
                                   /\ enc[e] = dec[e]
         /\ NoNewContext(e) => NewKeysAvailable(e)
         /\ (NoNewContext(e) \/ new_enc[e] # None) <=> NewKeysAvailable(e)
         /\ ~NewKeysAvailable(e) => enc[e] = dec[e] + 1
<1>1. /\ secret_enc[e] \in Nat /\ secret_dec[e] \in Nat
      /\ enc[e] \in Nat /\ dec[e] \in Nat /\ None = -1
  BY TypesAt DEF None
<1>. QED
  BY <1>1 DEF Paired, NextDec, NextEnc, NewKeysAvailable, NoNewContext, None

(* The invariant holds before the first rotation.                          *)
LEMMA InitRotating ==
  ASSUME Init PROVE Rotating
<1>1. TypeOK
  BY DEF Init, TypeOK, Key, Packet, None
<1>2. ASSUME NEW e \in Ends PROVE Keys(e) /\ Stream(e, Peer(e))
  BY <1>2, Peers DEF Init, Keys, Paired, Stream, None
<1>. QED
  BY <1>1, <1>2 DEF Rotating

(* Starting a rotation keeps it.                                           *)
LEMMA StartKeeps ==
  ASSUME Rotating, NEW e \in Ends, StartKeyRotation(e)
  PROVE  Rotating'
<1> DEFINE r == Peer(e)
<1>1. /\ TypeOK /\ Keys(e) /\ Keys(r) /\ Stream(e, r) /\ Stream(r, e)
      /\ r \in Ends /\ r # e /\ Peer(r) = e /\ Peer(e) = r
      /\ Ends = {e, r}
  BY Peers DEF Rotating
<1>2. /\ NextDec(e) = dec[e] + 1 /\ NextEnc(e) = enc[e] + 1 /\ enc[e] = dec[e]
      /\ enc[e] \in Nat /\ key_phase_enc[e] \in {0, 1}
  BY <1>1, NextKeys, TypesAt DEF StartKeyRotation, MayRotate, Keys, TypeOK
<1>3. TypeOK'
  BY <1>1, <1>2 DEF TypeOK, StartKeyRotation, RotateSecrets, Key, None
<1>4. /\ enc'[e] = enc[e] + 1 /\ dec' = dec /\ new_enc'[e] = None
      /\ new_dec'[e] = dec[e] + 1 /\ old_dec'[e] = None
      /\ secret_enc'[e] = enc[e] + 1 /\ secret_dec'[e] = enc[e] + 1
      /\ key_phase_enc'[e] = 1 - key_phase_enc[e] /\ key_phase_dec' = key_phase_dec
      /\ net' = net /\ send_sequence' = send_sequence
      /\ crypto_rotation_sequence' = crypto_rotation_sequence
      /\ enc'[r] = enc[r] /\ new_enc'[r] = new_enc[r] /\ new_dec'[r] = new_dec[r]
      /\ old_dec'[r] = old_dec[r] /\ key_phase_enc'[r] = key_phase_enc[r]
      /\ secret_enc'[r] = secret_enc[r] /\ secret_dec'[r] = secret_dec[r]
      /\ started' = started \cup {e}
  BY <1>1, <1>2 DEF TypeOK, StartKeyRotation, RotateSecrets
<1> HIDE DEF r
<1>5. Keys(e)'
  <2>1. key_phase_enc'[e] = enc'[e] % 2
    BY <1>1, <1>2, <1>4, Parity DEF Keys
  <2>. QED
    BY <1>1, <1>2, <1>4, <2>1 DEF Keys, Paired, None
<1>6. Keys(r)'
  BY <1>1, <1>4 DEF Keys, Paired
<1>7. Stream(e, r)'
  <2>1. \A m \in net[r] : m.key \in Nat
    BY <1>1, TypesAt, PacketFields
  <2>2. dec[r] \in Nat
    BY <1>1, TypesAt
  <2>. QED
    BY <1>1, <1>2, <1>4, <2>1, <2>2 DEF Stream
<1>8. Stream(r, e)'
  BY <1>1, <1>4 DEF Stream
<1>. QED
  BY <1>1, <1>3, <1>5, <1>6, <1>7, <1>8 DEF Rotating

(* Sending a packet keeps it.                                              *)
LEMMA SendKeeps ==
  ASSUME Rotating, NEW e \in Ends, Send(e)
  PROVE  Rotating'
<1> DEFINE r == Peer(e)
           p == [pn |-> send_sequence[e], phase |-> key_phase_enc[e],
                 key |-> enc[e], acks |-> dec[e]]
<1>1. /\ TypeOK /\ Keys(e) /\ Keys(r) /\ Stream(e, r) /\ Stream(r, e)
      /\ r \in Ends /\ r # e /\ Peer(r) = e /\ Peer(e) = r
      /\ Ends = {e, r}
  BY Peers DEF Rotating
<1>2. /\ p \in Packet /\ p.pn = send_sequence[e] /\ p.key = enc[e]
      /\ p.phase = enc[e] % 2 /\ send_sequence[e] \in Nat /\ enc[e] \in Nat
      /\ dec[r] \in Nat /\ crypto_rotation_sequence[r] \in Nat
  BY <1>1, TypesAt DEF Packet, TypeOK, Keys
<1>3. /\ send_sequence' = [send_sequence EXCEPT ![e] = @ + 1]
      /\ net' = [net EXCEPT ![r] = @ \cup {p}]
      /\ UNCHANGED <<secret_enc, secret_dec, enc, dec, new_enc, new_dec, old_dec,
                     key_phase_enc, key_phase_dec, crypto_rotation_sequence,
                     guard_open, crypto_epoch_sequence, end_of_sack_range,
                     confirmed, started>>
  BY DEF Send, secrets, contexts, phases
<1> HIDE DEF p, r
<1>4. TypeOK'
  BY <1>1, <1>2, <1>3 DEF TypeOK
<1>5. Keys(e)' /\ Keys(r)'
  BY <1>1, <1>3 DEF Keys, Paired
<1>6. /\ net'[r] = net[r] \cup {p} /\ net'[e] = net[e]
      /\ send_sequence'[e] = send_sequence[e] + 1
      /\ send_sequence'[r] = send_sequence[r]
  BY <1>1, <1>3 DEF TypeOK
<1>7. Stream(e, r)'
  <2>1. \A m \in net[r] : m.key \in Nat /\ m.pn \in Nat
    BY <1>1, TypesAt, PacketFields
  <2>2. \A m, k \in net'[r] : m.key < k.key => m.pn < k.pn
    BY <1>1, <1>2, <1>6, <2>1 DEF Stream
  <2>3. \A m \in net'[r] : /\ m.pn < send_sequence'[e]
                           /\ m.key <= enc[e]
                           /\ m.phase = m.key % 2
                           /\ m.key > dec[r] => m.pn >= crypto_rotation_sequence[r]
                           /\ m.key < dec[r] => m.pn < crypto_rotation_sequence[r]
    BY <1>1, <1>2, <1>6, <2>1 DEF Stream
  <2>. QED
    BY <1>1, <1>2, <1>3, <1>6, <2>2, <2>3 DEF Stream
<1>8. Stream(r, e)'
  BY <1>1, <1>3, <1>6 DEF Stream
<1>. QED
  BY <1>1, <1>4, <1>5, <1>7, <1>8 DEF Rotating

(* A packet that switches the receiver to the next key keeps it.           *)
LEMMA NewKeyKeeps ==
  ASSUME Rotating, NEW e \in Ends, IncomingNewKey(e)
  PROVE  Rotating'
<1> DEFINE r == Peer(e)
<1>1. /\ TypeOK /\ Keys(e) /\ Keys(r) /\ Stream(e, r) /\ Stream(r, e)
      /\ r \in Ends /\ r # e /\ Peer(r) = e /\ Peer(e) = r
      /\ Ends = {e, r}
  BY Peers DEF Rotating
<1>2. PICK m \in net[e] :
        /\ UsesNewKey(e, m.phase, m.pn)
        /\ Decrypts(e, m)
        /\ Record(e, m)
        /\ crypto_rotation_sequence' =
             [crypto_rotation_sequence EXCEPT ![e] = m.pn]
  BY DEF IncomingNewKey
<1>3. /\ NextDec(e) = dec[e] + 1
      /\ NewKeysAvailable(e) => NextEnc(e) = enc[e] + 1 /\ enc[e] = dec[e]
      /\ NoNewContext(e) => NewKeysAvailable(e)
      /\ (NoNewContext(e) \/ new_enc[e] # None) <=> NewKeysAvailable(e)
      /\ ~NewKeysAvailable(e) => enc[e] = dec[e] + 1
  BY <1>1, NextKeys DEF Keys
<1>4. /\ m.pn \in Nat /\ m.key = dec[e] + 1 /\ m.acks \in Nat
      /\ enc[e] \in Nat /\ dec[e] \in Nat /\ crypto_rotation_sequence[e] \in Nat
      /\ secret_enc[e] \in Nat /\ secret_dec[e] \in Nat
      /\ enc[r] \in Nat /\ dec[r] \in Nat
      /\ send_sequence[e] \in Nat /\ send_sequence[r] \in Nat
  <2>1. m \in Packet
    BY <1>1, TypesAt
  <2>2. m.key = dec[e] + 1
    BY <1>2, <1>3 DEF Decrypts, UsesNewKey
  <2>. QED
    BY <1>1, <2>1, <2>2, TypesAt, PacketFields
<1>5. /\ dec' = [dec EXCEPT ![e] = dec[e] + 1]
      /\ old_dec' = [old_dec EXCEPT ![e] = dec[e]]
      /\ new_dec' = [new_dec EXCEPT ![e] = None]
      /\ new_enc' = [new_enc EXCEPT ![e] = None]
      /\ key_phase_dec' = [key_phase_dec EXCEPT ![e] = 1 - @]
      /\ guard_open' = [guard_open EXCEPT ![e] = TRUE]
      /\ UNCHANGED <<crypto_epoch_sequence, send_sequence, net, started>>
  BY <1>3 DEF IncomingNewKey
<1>6. /\ enc' = [enc EXCEPT ![e] = dec[e] + 1]
      /\ \/ NewKeysAvailable(e) /\ key_phase_enc' = [key_phase_enc EXCEPT ![e] = 1 - @]
         \/ ~NewKeysAvailable(e) /\ key_phase_enc' = key_phase_enc
  <2>1. CASE NewKeysAvailable(e)
    BY <1>1, <1>3, <1>4, <2>1 DEF IncomingNewKey, Follow
  <2>2. CASE ~NewKeysAvailable(e)
    BY <1>1, <1>3, <1>4, <2>2 DEF IncomingNewKey, Follow, TypeOK
  <2>. QED
    BY <2>1, <2>2
<1>7. /\ secret_enc' = [secret_enc EXCEPT ![e] = dec[e] + 1]
      /\ secret_dec' = [secret_dec EXCEPT ![e] = dec[e] + 1]
  <2>1. CASE NoNewContext(e)
    BY <1>1, <1>3, <1>4, <2>1 DEF IncomingNewKey, RotateSecrets
  <2>2. CASE ~NoNewContext(e)
    <3>1. secret_dec[e] = dec[e] + 1 /\ secret_enc[e] = dec[e] + 1
      BY <1>1, <1>4, <2>2 DEF Keys, Paired, NoNewContext, None
    <3>2. UNCHANGED <<secret_enc, secret_dec>>
      BY <2>2 DEF IncomingNewKey, secrets
    <3>. QED
      BY <1>1, <3>1, <3>2 DEF TypeOK
  <2>. QED
    BY <2>1, <2>2
<1>8. TypeOK'
  <2>1. /\ secret_enc' \in [Ends -> Nat] /\ secret_dec' \in [Ends -> Nat]
        /\ enc' \in [Ends -> Nat] /\ dec' \in [Ends -> Nat]
        /\ new_enc' \in [Ends -> Key] /\ new_dec' \in [Ends -> Key]
        /\ old_dec' \in [Ends -> Key]
    BY <1>1, <1>4, <1>5, <1>6, <1>7 DEF TypeOK, Key, None
  <2>2. /\ key_phase_enc' \in [Ends -> {0, 1}]
        /\ key_phase_dec' \in [Ends -> {0, 1}]
    BY <1>1, <1>5, <1>6 DEF TypeOK
  <2>3. /\ crypto_rotation_sequence' \in [Ends -> Nat]
        /\ guard_open' \in [Ends -> BOOLEAN]
        /\ end_of_sack_range' \in [Ends -> Nat]
        /\ confirmed' \in [Ends -> Nat]
    BY <1>1, <1>2, <1>4, <1>5 DEF TypeOK, Record
  <2>. QED
    BY <1>1, <1>5, <2>1, <2>2, <2>3 DEF TypeOK
<1>9. /\ enc'[e] = dec[e] + 1 /\ dec'[e] = dec[e] + 1
      /\ new_enc'[e] = None /\ new_dec'[e] = None /\ old_dec'[e] = dec[e]
      /\ secret_enc'[e] = dec[e] + 1 /\ secret_dec'[e] = dec[e] + 1
      /\ key_phase_dec'[e] = 1 - key_phase_dec[e]
      /\ crypto_rotation_sequence'[e] = m.pn
      /\ enc'[r] = enc[r] /\ dec'[r] = dec[r] /\ new_enc'[r] = new_enc[r]
      /\ new_dec'[r] = new_dec[r] /\ old_dec'[r] = old_dec[r]
      /\ secret_enc'[r] = secret_enc[r] /\ secret_dec'[r] = secret_dec[r]
      /\ key_phase_dec'[r] = key_phase_dec[r]
      /\ key_phase_enc'[r] = key_phase_enc[r]
      /\ crypto_rotation_sequence'[r] = crypto_rotation_sequence[r]
      /\ net' = net /\ send_sequence' = send_sequence /\ started' = started
  BY SMTT(30), <1>1, <1>2, <1>5, <1>6, <1>7 DEF TypeOK
<1> HIDE DEF r
<1>10. Keys(e)'
  <2>1. key_phase_dec'[e] = dec'[e] % 2
    <3>1. key_phase_dec[e] = dec[e] % 2
      BY Zenon, <1>1 DEF Keys
    <3>2. dec[e] \in Nat
      BY <1>1, TypesAt
    <3>. QED
      BY <1>9, <3>1, <3>2, Parity
  <2>2. key_phase_enc'[e] = enc'[e] % 2
    <3>1. CASE NewKeysAvailable(e)
      <4>1. key_phase_enc'[e] = 1 - key_phase_enc[e] /\ enc[e] = dec[e]
        BY <1>1, <1>3, <1>6, <3>1 DEF TypeOK
      <4>. QED
        BY <1>1, <1>4, <1>9, <4>1, Parity DEF Keys
    <3>2. CASE ~NewKeysAvailable(e)
      <4>1. key_phase_enc'[e] = key_phase_enc[e] /\ enc[e] = dec[e] + 1
        BY SMTT(30), <1>3, <1>6, <3>2
      <4>. QED
        BY <1>1, <1>9, <4>1 DEF Keys
    <3>. QED
      BY <3>1, <3>2
  <2>3. Paired(e)'
    BY <1>4, <1>9 DEF Paired, None
  <2>4. old_dec'[e] \in {None, dec'[e] - 1}
    BY <1>4, <1>9
  <2>. QED
    BY ZenonT(40), <2>1, <2>2, <2>3, <2>4 DEF Keys
<1>11. Keys(r)'
  BY <1>1, <1>9 DEF Keys, Paired
<1>12. Stream(r, e)'
  <2>1. \A k \in net[e] : k.key \in Nat /\ k.pn \in Nat
    BY <1>1, TypesAt, PacketFields
  <2>2. \A k \in net[e] : /\ k.key > dec[e] + 1 => k.pn >= m.pn
                          /\ k.key < dec[e] + 1 => k.pn < m.pn
    BY <1>1, <1>4, <2>1 DEF Stream
  <2>3. m.pn <= send_sequence[r] /\ dec[e] + 1 <= enc[r]
    BY <1>1, <1>4 DEF Stream
  <2>. QED
    BY <1>1, <1>9, <2>2, <2>3 DEF Stream
<1>13. Stream(e, r)'
  <2>1. \A k \in net[r] : k.key \in Nat
    BY <1>1, TypesAt, PacketFields
  <2>2. enc[e] <= dec[e] + 1
    BY <1>1, <1>4 DEF Keys, Paired
  <2>3. \A k \in net[r] : k.key <= dec[e] + 1
    BY <1>1, <1>4, <2>1, <2>2 DEF Stream
  <2>4. dec[r] <= dec[e] + 1
    BY <1>1, <1>4, <2>2 DEF Stream
  <2>. QED
    BY <1>1, <1>9, <2>3, <2>4 DEF Stream
<1>. QED
  BY <1>1, <1>8, <1>10, <1>11, <1>12, <1>13 DEF Rotating

(* A packet under a key the receiver holds keeps it.                       *)
LEMMA KnownKeyKeeps ==
  ASSUME Rotating, NEW e \in Ends, IncomingKnownKey(e)
  PROVE  Rotating'
<1>1. /\ UNCHANGED <<secret_enc, secret_dec, enc, dec, new_enc, new_dec, old_dec,
                     key_phase_enc, key_phase_dec, crypto_rotation_sequence,
                     guard_open, crypto_epoch_sequence, send_sequence, net,
                     started>>
      /\ \E m \in net[e] : Record(e, m)
  BY DEF IncomingKnownKey, secrets, contexts, phases
<1>2. TypeOK'
  <2>1. PICK m \in net[e] : Record(e, m)
    BY <1>1
  <2>2. m.pn \in Nat /\ m.acks \in Nat
    BY TypesAt, PacketFields DEF Rotating
  <2>3. /\ end_of_sack_range' \in [Ends -> Nat]
        /\ confirmed' \in [Ends -> Nat]
    BY <2>1, <2>2 DEF Record, Rotating, TypeOK
  <2>. QED
    BY <1>1, <2>3 DEF Rotating, TypeOK
<1>3. ASSUME NEW x \in Ends PROVE Keys(x)' /\ Stream(x, Peer(x))'
  BY <1>1 DEF Rotating, Keys, Paired, Stream
<1>. QED
  BY <1>2, <1>3 DEF Rotating

(* A packet that no key opens keeps it.                                    *)
LEMMA UndecryptableKeeps ==
  ASSUME Rotating, NEW e \in Ends, IncomingUndecryptable(e)
  PROVE  Rotating'
<1>1. /\ TypeOK /\ Keys(e) /\ NoNewContext(e)
      /\ enc[e] \in Nat /\ dec[e] \in Nat
  BY TypesAt DEF Rotating, IncomingUndecryptable
<1>2. /\ NextDec(e) = dec[e] + 1 /\ NextEnc(e) = enc[e] + 1 /\ enc[e] = dec[e]
  BY <1>1, NextKeys DEF Keys
<1>3. /\ secret_enc' = [secret_enc EXCEPT ![e] = enc[e] + 1]
      /\ secret_dec' = [secret_dec EXCEPT ![e] = enc[e] + 1]
      /\ new_enc' = [new_enc EXCEPT ![e] = enc[e] + 1]
      /\ new_dec' = [new_dec EXCEPT ![e] = enc[e] + 1]
      /\ UNCHANGED <<enc, dec, old_dec, key_phase_enc, key_phase_dec,
                     crypto_rotation_sequence, guard_open, crypto_epoch_sequence,
                     send_sequence, end_of_sack_range, net, confirmed, started>>
  BY <1>1, <1>2 DEF IncomingUndecryptable, RotateSecrets, phases
<1>4. TypeOK'
  BY <1>1, <1>3 DEF TypeOK, Key
<1>5. ASSUME NEW x \in Ends PROVE Keys(x)'
  <2>1. CASE x = e
    <3>1. /\ new_enc'[e] = enc[e] + 1 /\ new_dec'[e] = enc[e] + 1
          /\ secret_enc'[e] = enc[e] + 1 /\ secret_dec'[e] = enc[e] + 1
      BY SMTT(30), <1>1, <1>3 DEF TypeOK
    <3>2. /\ enc[e] \in Nat /\ enc'[e] = enc[e] /\ dec'[e] = dec[e]
          /\ started' = started /\ enc[e] = dec[e]
      BY <1>1, <1>2, <1>3 DEF TypeOK
    <3>3. Paired(e)'
      BY <3>1, <3>2 DEF Paired, None
    <3>4. Keys(e)'
      BY ZenonT(40), <1>1, <1>3, <3>3 DEF Keys
    <3>. QED
      BY <2>1, <3>4
  <2>2. CASE x # e
    <3>1. /\ new_enc'[x] = new_enc[x] /\ new_dec'[x] = new_dec[x]
          /\ secret_enc'[x] = secret_enc[x] /\ secret_dec'[x] = secret_dec[x]
          /\ Keys(x)
      BY SMTT(30), <1>1, <1>3, <1>5, <2>2 DEF TypeOK, Rotating
    <3>. QED
      BY ZenonT(40), <1>3, <3>1 DEF Keys, Paired
  <2>. QED
    BY SMTT(30), <2>1, <2>2
<1>6. ASSUME NEW x \in Ends PROVE Stream(x, Peer(x))'
  BY <1>3 DEF Rotating, Stream
<1>. QED
  BY <1>4, <1>5, <1>6 DEF Rotating

(* Every step keeps it.                                                    *)
LEMMA NextKeeps ==
  ASSUME Rotating, [Next]_vars
  PROVE  Rotating'
<1>1. CASE UNCHANGED vars
  <2>1. TypeOK'
    BY <1>1 DEF Rotating, TypeOK, vars, secrets, contexts, phases
  <2>2. ASSUME NEW x \in Ends PROVE Keys(x)' /\ Stream(x, Peer(x))'
    BY <1>1 DEF Rotating, Keys, Paired, Stream, vars, secrets, contexts, phases
  <2>. QED
    BY <2>1, <2>2 DEF Rotating
<1>2. ASSUME NEW e \in Ends, GuardExpires(e) PROVE Rotating'
  <2>1. TypeOK'
    BY <1>2 DEF Rotating, TypeOK, GuardExpires, secrets, contexts, phases
  <2>2. ASSUME NEW x \in Ends PROVE Keys(x)' /\ Stream(x, Peer(x))'
    BY ZenonT(40), <1>2 DEF Rotating, Keys, Paired, Stream, GuardExpires, secrets,
                          contexts, phases
  <2>. QED
    BY <2>1, <2>2 DEF Rotating
<1>. QED
  BY <1>1, <1>2, StartKeeps, SendKeeps, NewKeyKeeps, KnownKeyKeeps,
     UndecryptableKeeps DEF Next

(* What the invariant says of the two ends together.                       *)
LEMMA Drift ==
  ASSUME Rotating, NEW e \in Ends
  PROVE  /\ Peer(e) \in Ends
         /\ enc[e] \in Nat /\ dec[e] \in Nat
         /\ enc[Peer(e)] \in Nat /\ dec[Peer(e)] \in Nat
         /\ enc[e] \in {dec[e], dec[e] + 1}
         /\ enc[Peer(e)] \in {dec[Peer(e)], dec[Peer(e)] + 1}
         /\ e \notin started => enc[e] = dec[e]
         /\ Peer(e) \notin started => enc[Peer(e)] = dec[Peer(e)]
         /\ dec[Peer(e)] <= enc[e] /\ dec[e] <= enc[Peer(e)]
<1>1. Peer(e) \in Ends /\ Peer(Peer(e)) = e
  BY Peers
<1>2. Keys(e) /\ Keys(Peer(e)) /\ Stream(e, Peer(e)) /\ Stream(Peer(e), e)
  BY <1>1 DEF Rotating
<1>. QED
  BY <1>1, <1>2, TypesAt DEF Rotating, Keys, Paired, Stream

(* The key of a late packet, and that of the next generation.              *)
LEMMA WhichKey ==
  ASSUME Rotating, NEW e \in Ends, NEW m \in net[e]
  PROVE  /\ m.key \in Nat /\ m.pn \in Nat
         /\ m.key = dec[e] => UsesCurrentKey(e, m.phase)
         /\ m.key = dec[e] + 1 => UsesNewKey(e, m.phase, m.pn)
         /\ m.key = dec[e] - 1 => UsesOldKey(e, m.phase, m.pn)
<1>1. /\ Peer(e) \in Ends /\ Peer(Peer(e)) = e /\ Keys(e) /\ Stream(Peer(e), e)
  BY Peers DEF Rotating
<1>2. /\ m.key \in Nat /\ m.pn \in Nat /\ dec[e] \in Nat
      /\ crypto_rotation_sequence[e] \in Nat
  BY TypesAt, PacketFields DEF Rotating
<1>3. /\ m.phase = m.key % 2 /\ key_phase_dec[e] = dec[e] % 2
      /\ m.key > dec[e] => m.pn >= crypto_rotation_sequence[e]
      /\ m.key < dec[e] => m.pn < crypto_rotation_sequence[e]
  BY <1>1 DEF Keys, Stream
<1>4. m.key = dec[e] => UsesCurrentKey(e, m.phase)
  BY <1>3 DEF UsesCurrentKey
<1>5. m.key = dec[e] + 1 => UsesNewKey(e, m.phase, m.pn)
  <2>1. m.key = dec[e] + 1 => m.phase # key_phase_dec[e]
    BY <1>2, <1>3, Parity
  <2>. QED
    BY <1>2, <1>3, <2>1 DEF UsesNewKey, UsesCurrentKey, UsesOldKey
<1>6. m.key = dec[e] - 1 => UsesOldKey(e, m.phase, m.pn)
  <2>1. m.key = dec[e] - 1 => dec[e] = m.key + 1
    BY <1>2
  <2>2. m.key = dec[e] - 1 => m.phase # key_phase_dec[e]
    BY <1>2, <1>3, <2>1, Parity
  <2>. QED
    BY <1>2, <1>3, <2>2 DEF UsesOldKey
<1>. QED
  BY <1>2, <1>4, <1>5, <1>6

(* The invariant holds always.                                             *)
LEMMA AlwaysRotating == Spec => []Rotating
<1>1. Init => Rotating
  BY InitRotating
<1>2. Rotating /\ [Next]_vars => Rotating'
  BY NextKeeps
<1>. QED
  BY <1>1, <1>2, PTL DEF Spec

(* Every variable of the two ends keeps its type.                          *)
THEOREM TypesKept == Spec => []TypeOK
<1>1. Rotating => TypeOK
  BY DEF Rotating
<1>. QED
  BY <1>1, AlwaysRotating, PTL

(* The encryption and the decryption key of an end never drift apart by    *)
(* more than the rotation it waits for (tls_api.c:909-990).                *)
THEOREM PairedKeys == Spec => []KeysPaired
<1>1. Rotating => KeysPaired
  BY DEF Rotating, Keys, Paired, KeysPaired
<1>. QED
  BY <1>1, AlwaysRotating, PTL

(* No end gets more than one generation ahead of the other, even when both *)
(* start rotations at any time (quicctx.c:2461).                           *)
THEOREM DriftBounded == Spec => []BoundedDrift
<1>1. Rotating => BoundedDrift
  BY Drift DEF BoundedDrift
<1>. QED
  BY <1>1, AlwaysRotating, PTL

(* As long as only one end has started rotations, everything sent with    *)
(* the current key is decrypted in whatever order it arrives               *)
(* (packet.c:552-590).                                                     *)
THEOREM CurrentKeyWorks == Spec => []CurrentKeyDecrypts
<1>1. ASSUME Rotating PROVE CurrentKeyDecrypts
  <2>1. SUFFICES ASSUME started # Ends, NEW e \in Ends,
                        NEW m \in net[Peer(e)], m.key = enc[e]
                 PROVE  Decrypts(Peer(e), m)
    BY DEF CurrentKeyDecrypts
  <2>2. e \notin started \/ Peer(e) \notin started
    <3>1. Ends = {e, Peer(e)}
      BY Peers
    <3>2. started \subseteq Ends
      BY <1>1 DEF Rotating, TypeOK
    <3>3. PICK x \in Ends : x \notin started
      BY <2>1, <3>2, Zenon
    <3>. QED
      BY <3>1, <3>3
  <2>3. Peer(e) \in Ends /\ dec[Peer(e)] \in Nat
        /\ m.key \in {dec[Peer(e)], dec[Peer(e)] + 1}
    BY <1>1, <2>1, <2>2, Drift
  <2>4. CASE m.key = dec[Peer(e)]
    BY <1>1, <2>3, <2>4, WhichKey DEF Decrypts
  <2>5. CASE m.key = dec[Peer(e)] + 1
    <3>1. NextDec(Peer(e)) = dec[Peer(e)] + 1
      BY <1>1, <2>3, NextKeys DEF Rotating, Keys
    <3>. QED
      BY <1>1, <2>3, <2>5, <3>1, WhichKey DEF Decrypts
  <2>. QED
    BY <2>3, <2>4, <2>5
<1>. QED
  BY <1>1, AlwaysRotating, PTL

(* A packet of the previous generation that the rotation overtook is       *)
(* decrypted with the old key while the guard time lasts (packet.c:557).   *)
THEOREM LatePacketsWork == Spec => []LatePacketsDecrypt
<1>1. ASSUME Rotating PROVE LatePacketsDecrypt
  <2>1. SUFFICES ASSUME NEW e \in Ends, NEW m \in net[e], m.key = dec[e] - 1,
                        guard_open[e], old_dec[e] # None
                 PROVE  Decrypts(e, m)
    BY DEF LatePacketsDecrypt
  <2>2. UsesOldKey(e, m.phase, m.pn)
    BY <1>1, <2>1, WhichKey
  <2>3. old_dec[e] = m.key
    BY <1>1, <2>1 DEF Rotating, Keys
  <2>. QED
    BY <2>1, <2>2, <2>3 DEF Decrypts
<1>. QED
  BY <1>1, AlwaysRotating, PTL

(* Both: what is in flight is decrypted when it arrives (packet.c:550-602).*)
THEOREM PacketsInFlight == Spec => []PacketsDecrypt
<1>1. CurrentKeyDecrypts /\ LatePacketsDecrypt => PacketsDecrypt
  BY DEF PacketsDecrypt
<1>. QED
  BY <1>1, CurrentKeyWorks, LatePacketsWork, PTL
=============================================================================
