------------------------------- MODULE Paths -------------------------------
(***************************************************************************)
(* Paths, probes, path challenges and connection identifiers of two ends   *)
(* in the ready state: the application probes a new pair of addresses or   *)
(* renews its identifier, a NAT changes the client's public address, and   *)
(* picoquic_prepare_packet and picoquic_find_incoming_path follow.         *)
(*                                                                         *)
(* An identifier is the path sequence number under which its owner         *)
(* announced it.  The three random values of a challenge are a fresh       *)
(* number with the index of the repeat.  A timer is "now" while it runs    *)
(* and "past" when it has expired; timers expire when nothing is in        *)
(* flight, or early, which counts as a fault.  Frames of lost packets are  *)
(* repeated except challenges and responses (module LossRecovery).         *)
(* Congestion and pacing let every packet go (module PathControl).         *)
(***************************************************************************)
EXTENDS Integers, Sequences, FiniteSets, FiniteSetsExt, SequencesExt

CONSTANTS
    CnxidLimit,         \* active_connection_id_limit of both ends
    ChallengeRepeatMax, \* PICOQUIC_CHALLENGE_REPEAT_MAX
    Plans               \* what may happen: numbers of events and of faults

(* Events: the client probes from its second address, or the server's      *)
(* second address; an end renews its identifier; the NAT rebinds; the      *)
(* client and the server write.  Faults: packets lost, packets repeated    *)
(* although received, timers that expire while packets are in flight.      *)
Plan == [{"probe", "migrate", "renew", "rebind", "ask", "answer",
          "lost", "spurious", "early"} -> 0..2]

ASSUME PathsAssumption ==
    CnxidLimit \in Nat \ {0} /\ ChallengeRepeatMax \in Nat \ {0} /\ Plans \subseteq Plan

VARIABLES cnx,     \* the connection context of each end
          net,     \* packets on their way to each end, in sending order
          nat,     \* public address of the client's address "c1"
          plan,    \* events and faults still to come
          reached  \* the addresses at which each end's challenges arrived
vars == <<cnx, net, nat, plan, reached>>


Ends == {"client", "server"}
Peer(e) == IF e = "client" THEN "server" ELSE "client"
None == "none"
NoCid == -1
Home == [client |-> "c1", server |-> "s1"]
Public(a) == IF a = "c1" THEN nat ELSE a

Frame(type, val) == [type |-> type, val |-> val]
Repeated(f) == f.type \in {"new_cid", "retire", "data"}
(* A challenge value; index ChallengeRepeatMax lies outside the array and  *)
(* reads the field behind it.                                              *)
Value(id, k) == IF k < ChallengeRepeatMax THEN id * ChallengeRepeatMax + k ELSE -1
InSet(v, id) == id > 0 /\ v \div ChallengeRepeatMax = id

(***************************************************************************)
(* Contexts and paths.  paths[1] is the default path, cnx->path[0].        *)
(***************************************************************************)
NoAlt == [peer |-> None, local |-> None, id |-> 0, count |-> 0,
          time |-> "past", req |-> FALSE, resp |-> 0]

(* The record filled in by picoquic_create_path.                           *)
FreshPath(seq, nonce, local, peer) ==
    [seq |-> seq, reg |-> FALSE, act |-> FALSE,
     cid |-> NoCid, cseq |-> 0, secret |-> FALSE, peer |-> peer, local |-> local,
     id |-> nonce, count |-> 0, time |-> "past",
     req |-> FALSE, ver |-> FALSE, fail |-> FALSE, resp |-> 0,
     alt |-> NoAlt, dem |-> FALSE, demTime |-> "past"]

CreatePath(c) ==
    [c EXCEPT !.paths = Append(@, FreshPath(c.nextSeq, c.nonce, None, None)),
              !.nextSeq = @ + 1, !.nonce = @ + 1]

(* Both ends when the handshake is over: one path, verified.               *)
ReadyContext(e) ==
    [state |-> "ready", nextSeq |-> 1, nonce |-> 2,
     paths |-> << [FreshPath(0, 1, Home[e], Home[Peer(e)])
                     EXCEPT !.reg = TRUE, !.act = TRUE, !.cid = 0,
                            !.secret = (e = "client"), !.ver = TRUE] >>,
     probes |-> <<>>, stash |-> <<>>, misc |-> {}, repeat |-> <<>>,
     succ |-> FALSE, demo |-> FALSE, alt |-> FALSE, p0del |-> FALSE,
     late |-> <<>>, ack |-> FALSE, todo |-> {}, got |-> {}]

(* picoquic_queue_retire_connection_id_frame.                              *)
QueueRetire(c, seqs) ==
    [c EXCEPT !.misc = @ \cup {Frame("retire", s) : s \in seqs}]

(* picoquic_demote_path.                                                   *)
DemotePath(c, i) ==
    IF c.paths[i].dem THEN c
    ELSE [c EXCEPT !.paths[i].dem = TRUE, !.paths[i].demTime = "now", !.demo = TRUE]

(* picoquic_promote_path_to_default.                                       *)
PromotePath(c, i) ==
    IF i = 1 THEN c
    ELSE LET d == DemotePath(c, 1)
         IN [d EXCEPT !.paths[1] = d.paths[i], !.paths[i] = d.paths[1]]

(* picoquic_delete_path on a set of paths: those left keep their order.    *)
DeletePaths(c, gone) ==
    [c EXCEPT !.paths = [k \in 1..(Len(c.paths) - Cardinality(gone)) |->
        c.paths[CHOOSE i \in DOMAIN c.paths \ gone :
                    Cardinality({j \in 1..i : j \notin gone}) = k]]]

(* picoquic_delete_abandoned_paths: paths whose challenge failed or whose  *)
(* demotion is due.  The demotion times come before the end of the         *)
(* silence, the initial wake time.                                         *)
DeleteAbandonedPaths(c) ==
    LET gone == {i \in 2..Len(c.paths) :
                    c.paths[i].fail \/ (c.paths[i].dem /\ c.paths[i].demTime = "past")}
        cids == {c.paths[i].cseq : i \in {j \in gone : c.paths[j].cid # NoCid}}
    IN [DeletePaths(QueueRetire(c, cids), gone)
          EXCEPT !.demo = \E i \in 2..Len(c.paths) : c.paths[i].dem]

(***************************************************************************)
(* Probes, newest first.                                                   *)
(***************************************************************************)
(* picoquic_create_probe and picoquic_dequeue_cnxid_stash.                 *)
CreateProbe(c, to, from) ==
    IF c.stash = <<>> THEN c
    ELSE [c EXCEPT
            !.probes = << [cid |-> Head(c.stash), peer |-> to, local |-> from,
                           id |-> c.nonce, count |-> 0, time |-> "past",
                           req |-> TRUE, ver |-> FALSE, fail |-> FALSE] >> \o @,
            !.stash = Tail(@), !.nonce = @ + 1]

(* picoquic_fill_path_data_from_probe and picoquic_delete_probe: the reset *)
(* secret of the probe is not among the data.                              *)
FillPathFromProbe(c, i, k, peer, local) ==
    LET b == c.probes[k] IN
    [c EXCEPT !.paths[i] =
                [@ EXCEPT !.act = TRUE, !.cid = b.cid, !.cseq = b.cid,
                          !.id = b.id, !.time = b.time, !.count = b.count,
                          !.req = b.req, !.ver = b.ver, !.fail = b.fail,
                          !.peer = peer,
                          !.local = IF local = None THEN @ ELSE local],
              !.probes = RemoveAt(@, k)]

(* picoquic_promote_successful_probe.                                      *)
PromoteSuccessfulProbe(c) ==
    LET won == {k \in DOMAIN c.probes : c.probes[k].ver}
        k == Min(won)
        made == CreatePath([c EXCEPT !.succ = FALSE])
        n == Len(made.paths)
        filled == FillPathFromProbe(made, n, k, c.probes[k].peer, c.probes[k].local)
        moved == PromotePath(filled, n)
    IN IF ~c.succ THEN c
       ELSE IF won = {} THEN [c EXCEPT !.succ = FALSE]
       ELSE [QueueRetire(moved, {c.probes[j].cid : j \in won \ {k}})
               EXCEPT !.probes = SelectSeq(@, LAMBDA b : ~b.ver)]

(* picoquic_delete_failed_probes.                                          *)
DeleteFailedProbes(c) ==
    [QueueRetire(c, {b.cid : b \in {x \in Range(c.probes) : x.fail}})
       EXCEPT !.probes = SelectSeq(@, LAMBDA b : ~b.fail)]

(***************************************************************************)
(* Sending: picoquic_prepare_packet.  Each step yields the context and the *)
(* packet, if there is one to send.                                        *)
(***************************************************************************)
NoPacket == [frames |-> <<>>]
Packet(cid, to, from, frames) ==
    [cid |-> cid, to |-> to, from |-> from, frames |-> frames, old |-> FALSE]
Result(c, p) == [c |-> c, p |-> p]

(* picoquic_register_path and picoquic_prepare_new_connection_id_frame for *)
(* a new path, as in picoquic_prepare_new_path_and_id.                     *)
NewPathAndId(c) ==
    LET d == CreatePath(c) IN [d EXCEPT !.paths[Len(d.paths)].reg = TRUE]

RECURSIVE AddPaths(_, _)
AddPaths(c, n) == IF n = 0 THEN c ELSE AddPaths(NewPathAndId(c), n - 1)

(* picoquic_prepare_probe: the first probe that is due; older ones that    *)
(* were repeated too often fail on the way.                                *)
PrepareProbe(c) ==
    LET due(b) == ~b.fail /\ ~b.ver /\ (b.req \/ b.time = "past")
        tired(b) == b.count >= ChallengeRepeatMax
        ready == {k \in DOMAIN c.probes : due(c.probes[k]) /\ ~tired(c.probes[k])}
        last == IF ready = {} THEN Len(c.probes) ELSE Min(ready)
        failed == [c EXCEPT !.probes = [k \in DOMAIN @ |->
                     IF k <= last /\ due(@[k]) /\ tired(@[k])
                     THEN [@[k] EXCEPT !.fail = TRUE] ELSE @[k]]]
        b == c.probes[last]
        idle == {i \in 2..Len(c.paths) : ~c.paths[i].act}
        named == IF idle = {} THEN NewPathAndId(failed) ELSE failed
        path == IF idle = {} THEN Last(named.paths) ELSE c.paths[Min(idle)]
        frames == (IF path.reg THEN << Frame("new_cid", path.seq) >> ELSE <<>>)
                    \o << Frame("challenge", Value(b.id, b.count)) >>
    IN IF ready = {} THEN Result(failed, NoPacket)
       ELSE Result([named EXCEPT !.probes[last] =
                      [@ EXCEPT !.req = FALSE, !.time = "now", !.count = @ + 1]],
                   Packet(b.cid, b.peer, b.local, frames))

(* picoquic_prepare_alt_challenge: the first path with a challenge or a    *)
(* response due on its alternate addresses.                                *)
PrepareAltChallenge(c) ==
    LET spent(x) == x.alt.req /\ x.alt.count > 3 /\ x.alt.time = "past"
        asks(x) == /\ x.alt.req /\ ~spent(x)
                   /\ x.alt.count = 0 \/ x.alt.time = "past"
        due == {i \in DOMAIN c.paths :
                  ~c.paths[i].dem /\ (asks(c.paths[i]) \/ c.paths[i].alt.resp # 0)}
        last == IF due = {} THEN Len(c.paths) ELSE Min(due)
        stopped == [c EXCEPT !.paths = [i \in DOMAIN @ |->
                      IF i <= last /\ spent(@[i])
                      THEN [@[i] EXCEPT !.alt.req = FALSE] ELSE @[i]]]
        waits == \E i \in 1..last : stopped.paths[i].alt.req /\ c.paths[i].alt.count < 4
        x == c.paths[last]
        frames == (IF asks(x) THEN << Frame("challenge", Value(x.alt.id, x.alt.count)) >>
                   ELSE <<>>)
                  \o (IF x.alt.resp # 0 THEN << Frame("response", x.alt.resp) >> ELSE <<>>)
    IN IF due = {} THEN Result([stopped EXCEPT !.alt = waits], NoPacket)
       ELSE Result([stopped EXCEPT !.alt = TRUE,
                      !.paths[last].alt =
                        [@ EXCEPT !.time = "now", !.resp = 0,
                                  !.count = IF asks(x) THEN @ + 1 ELSE @]],
                   Packet(x.cid, x.alt.peer, x.alt.local, frames))

(* picoquic_prepare_packet, the choice of a path: a verified path becomes  *)
(* the default one, else a path with a response or a challenge due.        *)
SelectPath(c) ==
    LET open == {i \in 2..Len(c.paths) : ~c.paths[i].dem}
        won == {i \in open : c.paths[i].ver}
        due == {i \in open :
                  /\ c.paths[i].act
                  /\ \/ c.paths[i].resp # 0
                     \/ c.paths[i].req /\ (c.paths[i].count = 0 \/ c.paths[i].time = "past")}
    IN IF won # {} THEN [c |-> PromotePath(c, Min(won)), i |-> 1]
       ELSE [c |-> c, i |-> IF due = {} THEN 1 ELSE Min(due)]

(* picoquic_prepare_packet_ready, what concerns paths: repeated frames go  *)
(* first; new frames need a verified path.                                 *)
PrepareReady(c, i) ==
    LET x == c.paths[i]
        ask == ~x.ver /\ ~x.fail /\ (x.time = "past" \/ x.count = 0)
        tired == ask /\ x.count >= ChallengeRepeatMax
        asked == [c EXCEPT
                    !.paths[i] = [@ EXCEPT !.time = IF ask /\ ~tired THEN "now" ELSE @,
                                           !.count = IF ask /\ ~tired THEN @ + 1 ELSE @,
                                           !.fail = @ \/ (tired /\ i # 1),
                                           !.resp = 0],
                    !.state = IF tired /\ i = 1 THEN "disconnected" ELSE @]
        n == Max({0, CnxidLimit + (IF c.p0del THEN 0 ELSE 1) - Len(c.paths)})
        full == [AddPaths(asked, n) EXCEPT !.misc = {}, !.todo = {}, !.ack = FALSE]
        checks == (IF ask /\ ~tired THEN << Frame("challenge", Value(x.id, x.count)) >>
                   ELSE <<>>)
                  \o (IF x.resp # 0 THEN << Frame("response", x.resp) >> ELSE <<>>)
        news == (IF c.ack THEN << Frame("ack", 0) >> ELSE <<>>) \o SetToSeq(c.misc)
                \o [k \in 1..n |-> Frame("new_cid", c.nextSeq + k - 1)]
                \o SetToSeq({Frame("data", k) : k \in c.todo})
    IN IF c.repeat # <<>>
       THEN Result([c EXCEPT !.repeat = Tail(@)],
                   Packet(x.cid, x.peer, x.local, Head(c.repeat)))
       ELSE IF x.ver THEN Result(full, Packet(x.cid, x.peer, x.local, checks \o news))
       ELSE Result(asked, Packet(x.cid, x.peer, x.local, checks))

(* Every step maps the set of results of the one before it: one result.    *)
PreparePacket(c) ==
    LET promoted == {PromoteSuccessfulProbe(d) : d \in {c}}
        kept == {IF d.demo THEN DeleteAbandonedPaths(d) ELSE d : d \in promoted}
        probed == {PrepareProbe(d) : d \in {DeleteFailedProbes(d) : d \in kept}}
        asked == {IF r.p = NoPacket /\ r.c.alt THEN PrepareAltChallenge(r.c) ELSE r : r \in probed}
    IN UNION {IF r.p # NoPacket THEN {r}
              ELSE {PrepareReady(s.c, s.i) : s \in {SelectPath(r.c)}} : r \in asked}

(***************************************************************************)
(* Receiving: picoquic_find_incoming_path, then the frames.                *)
(***************************************************************************)
(* The end of picoquic_find_incoming_path when a challenge is required.    *)
NewChallenge(c, i) ==
    [c EXCEPT !.paths[i] = [@ EXCEPT !.req = TRUE, !.id = c.nonce, !.ver = FALSE,
                                     !.time = "now", !.count = 0],
              !.nonce = @ + 1]

(* picoquic_find_probe_by_addr: an exact match, else the last probe        *)
(* without a local address.                                                *)
FindProbeByAddr(c, peer, local) ==
    LET same == {k \in DOMAIN c.probes : c.probes[k].peer = peer}
        exact == {k \in same : c.probes[k].local = local}
        part == {k \in same : c.probes[k].local = None}
    IN IF exact # {} THEN Min(exact) ELSE IF part # {} THEN Max(part) ELSE 0

(* Only the identifier changed: path i takes the place of the default      *)
(* path, with its identifier and challenge.                                *)
ReplaceDefault(c, i, p) ==
    LET d == c.paths[1]
        taken == [c.paths[i] EXCEPT
                    !.cid = d.cid, !.cseq = d.cseq, !.secret = d.secret, !.act = TRUE,
                    !.req = d.req, !.id = d.id, !.time = d.time, !.count = d.count,
                    !.ver = d.ver, !.fail = d.fail, !.peer = p.from, !.local = p.to]
    IN PromotePath([c EXCEPT !.paths[i] = taken, !.paths[1].cid = NoCid], i)

(* A packet on a path that has no remote identifier yet.                   *)
ActivatePath(c, i, p) ==
    LET k == FindProbeByAddr(c, p.from, p.to)
        d == c.paths[1]
        named == [c EXCEPT !.paths[i] =
                    [@ EXCEPT !.cid = Head(c.stash), !.cseq = Head(c.stash),
                              !.secret = TRUE, !.act = TRUE,
                              !.peer = p.from, !.local = p.to],
                           !.stash = Tail(@)]
    IN CASE k > 0 -> [c |-> FillPathFromProbe(c, i, k, p.from, p.to), i |-> i]
         [] k = 0 /\ d.peer = p.from /\ d.local = p.to ->
                [c |-> ReplaceDefault(c, i, p), i |-> 1]
         [] k = 0 /\ <<d.peer, d.local>> # <<p.from, p.to>> ->
                [c |-> IF c.paths[i].act THEN c
                       ELSE IF c.stash # <<>> THEN NewChallenge(named, i)
                       ELSE [c EXCEPT !.paths[i].req = FALSE],
                 i |-> i]

(* Faulty: the new addresses are used at once.                             *)
FaultyTrust(c, i, p) == [c EXCEPT !.paths[i].peer = p.from, !.paths[i].local = p.to]

(* Faulty: nobody is told that a challenge is due on the new addresses.    *)
FaultyUnannounced(c, i, p) ==
    LET a == c.paths[i].alt
    IN IF (a.peer = p.from /\ a.local = p.to) \/ p.old THEN c
       ELSE NewChallenge([c EXCEPT !.paths[i].alt =
                            [a EXCEPT !.peer = p.from, !.local = p.to, !.req = TRUE,
                                      !.time = "past", !.count = 0, !.id = c.nonce],
                                   !.nonce = @ + 1], i)

(* A packet from another address with an identifier in use: a NAT          *)
(* rebinding, to be checked with a challenge of its own.                   *)
Rebinding(c, i, p) ==
    LET a == c.paths[i].alt
        started == [a EXCEPT !.time = "past", !.req = TRUE, !.count = 0]
    IN IF a.peer = p.from /\ a.local = p.to
       THEN IF a.time = "past"
            THEN [c EXCEPT !.paths[i].alt = started, !.alt = TRUE] ELSE c
       ELSE IF ((a.peer = None /\ a.local = None) \/ a.time = "now") /\ ~p.old
       THEN NewChallenge([c EXCEPT !.paths[i].alt =
                            [started EXCEPT !.peer = p.from, !.local = p.to, !.id = c.nonce],
                                   !.alt = TRUE, !.nonce = @ + 1], i)
       ELSE c

FindIncomingPath(c, i, p) ==
    LET x == c.paths[i]
        c1 == IF x.local = None THEN [c EXCEPT !.paths[i].local = p.to] ELSE c
    IN IF x.peer = p.from
       THEN [c |-> [c EXCEPT !.paths[i].local = p.to, !.paths[i].act = TRUE], i |-> i]
       ELSE IF x.cid = NoCid /\ c.paths[1].cid # NoCid THEN ActivatePath(c1, i, p)
       ELSE [c |-> Rebinding(c1, i, p), i |-> i]

ConnectionError(c) == [c EXCEPT !.state = "error"]


(* picoquic_decode_new_connection_id_frame and                             *)
(* picoquic_enqueue_cnxid_stash.                                           *)
DecodeNewConnectionId(c, seq) ==
    LET used == {i \in DOMAIN c.paths : c.paths[i].cseq = seq}
        x == c.paths[Min(used)]
        known == \/ \E b \in Range(c.probes) : b.cid = seq
                 \/ \E s \in Range(c.stash) : s = seq
    IN IF c.paths[1].cid = NoCid THEN ConnectionError(c)
       ELSE IF used # {} THEN IF x.cid = seq /\ x.secret THEN c ELSE ConnectionError(c)
       ELSE IF known THEN c
       ELSE [c EXCEPT !.stash = Append(@, seq)]

(* picoquic_decode_retire_connection_id_frame, received on path i.         *)
DecodeRetireConnectionId(c, i, seq) ==
    LET found == {j \in DOMAIN c.paths : c.paths[j].seq = seq}
    IN IF seq >= c.nextSeq \/ (seq = c.paths[i].seq /\ c.paths[i].reg)
       THEN ConnectionError(c)
       ELSE IF found # {} /\ c.paths[i].reg
       THEN DemotePath([c EXCEPT !.p0del = @ \/ seq = 0], Min(found))
       ELSE c

(* picoquic_decode_path_challenge_frame.                                   *)
DecodePathChallenge(c, i, v, p) ==
    LET x == c.paths[i]
    IN IF x.peer = p.from /\ x.local = p.to THEN [c EXCEPT !.paths[i].resp = v]
       ELSE IF x.alt.peer = p.from /\ x.alt.local = p.to
       THEN [c EXCEPT !.paths[i].alt.resp = v, !.alt = TRUE]
       ELSE c

(* picoquic_decode_path_response_frame: the paths are asked in order, each *)
(* for its challenge and then for that of its alternate addresses.         *)
DecodePathResponse(c, v) ==
    LET hits == {i \in DOMAIN c.paths :
                   InSet(v, c.paths[i].id) \/ InSet(v, c.paths[i].alt.id)}
        i == Min(hits)
        x == c.paths[i]
        asked == {k \in DOMAIN c.probes : InSet(v, c.probes[k].id)}
    IN IF hits = {}
       THEN IF asked = {} THEN c
            ELSE [c EXCEPT !.probes[Min(asked)].ver = TRUE, !.succ = TRUE]
       ELSE IF InSet(v, x.id) THEN [c EXCEPT !.paths[i].ver = TRUE]
       ELSE [c EXCEPT !.paths[i] =
               [@ EXCEPT !.peer = x.alt.peer, !.local = x.alt.local,
                         !.resp = x.alt.resp, !.ver = TRUE,
                         !.alt = [NoAlt EXCEPT !.id = x.alt.id, !.count = x.alt.count]]]

DecodeFrame(c, i, f, p) ==
    CASE c.state # "ready" -> c
      [] c.state = "ready" /\ f.type = "new_cid" -> DecodeNewConnectionId(c, f.val)
      [] c.state = "ready" /\ f.type = "retire" -> DecodeRetireConnectionId(c, i, f.val)
      [] c.state = "ready" /\ f.type = "challenge" -> DecodePathChallenge(c, i, f.val, p)
      [] c.state = "ready" /\ f.type = "response" -> DecodePathResponse(c, f.val)
      [] c.state = "ready" /\ f.type = "ack" -> c
      [] c.state = "ready" /\ f.type = "data" -> [c EXCEPT !.got = @ \cup {f.val}]

(* picoquic_decode_frames.                                                 *)
RECURSIVE Decoded(_, _, _, _)
Decoded(C, i, frames, p) ==
    IF frames = <<>> THEN C
    ELSE Decoded({DecodeFrame(c, i, Head(frames), p) : c \in C}, i, Tail(frames), p)

(* The path on which p arrives: picoquic_cnx_by_id and the start of        *)
(* picoquic_find_incoming_path.                                            *)
Arrival(c, p) == {i \in DOMAIN c.paths : c.paths[i].reg /\ c.paths[i].seq = p.cid}

(* picoquic_incoming_encrypted.  A packet for an unknown identifier is     *)
(* answered by a stateless reset (Reply).                                  *)
IncomingEncrypted(c, p) ==
    IF c.state # "ready" \/ Arrival(c, p) = {} THEN c
    ELSE LET r == FindIncomingPath(c, Min(Arrival(c, p)), p)
             acks(d) == d.state = "ready" /\ \E f \in Range(p.frames) : Repeated(f)
         IN CHOOSE d \in {IF acks(d) THEN [d EXCEPT !.ack = TRUE] ELSE d :
                            d \in UNION {Decoded({q.c}, q.i, p.frames, p) : q \in {r}}} : TRUE

(* picoquic_process_unexpected_cnxid.                                      *)
Reply(c, p) ==
    IF c.state = "ready" /\ Arrival(c, p) = {}
    THEN << Packet(NoCid, p.from, p.to, << Frame("reset", p.cid) >>) >> ELSE <<>>

(* picoquic_parse_header_and_decrypt and picoquic_incoming_stateless_reset:*)
(* the context is found by the first address of the peer, the reset by the *)
(* secret of the default path.                                             *)
IncomingReset(c, e, p) ==
    IF /\ c.state = "ready" /\ p.from = Home[Peer(e)]
       /\ c.paths[1].secret /\ c.paths[1].cseq = Head(p.frames).val
    THEN [c EXCEPT !.state = "disconnected"] ELSE c

(***************************************************************************)
(* The system.                                                             *)
(***************************************************************************)
Init ==
    /\ cnx = [e \in Ends |-> ReadyContext(e)]
    /\ net = [e \in Ends |-> <<>>]
    /\ nat = "c1"
    /\ plan \in Plans
    /\ reached = [e \in Ends |-> {Home[Peer(e)]}]

(* The frames of a packet that the sender has to repeat.                   *)
Again(p) == SelectSeq(p.frames, Repeated)
Late(c, p) == IF Again(p) = <<>> THEN c ELSE [c EXCEPT !.late = Append(@, Again(p))]

(* Retransmission timers and those of challenges and demotions.            *)
Retransmit(c) == [c EXCEPT !.repeat = @ \o c.late, !.late = <<>>]
Expired(c) ==
    [c EXCEPT !.paths = [i \in DOMAIN @ |->
                [@[i] EXCEPT !.time = "past", !.demTime = "past", !.alt.time = "past"]],
              !.probes = [k \in DOMAIN @ |-> [@[k] EXCEPT !.time = "past"]]]

(* Where a packet goes: the client has the addresses nat and "c2".         *)
Reachable(e, p) == p.to \in (IF e = "client" THEN {nat, "c2"} ELSE {"s1", "s2"})
Received(e, p) ==
    IF e = "client" /\ p.to = nat THEN [p EXCEPT !.to = "c1"] ELSE p

(* Whether picoquic_prepare_packet has something to do.                    *)
Busy(e) ==
    /\ cnx[e].state = "ready"
    /\ \E r \in PreparePacket(cnx[e]) : r.c # cnx[e] \/ r.p.frames # <<>>

(* The source address is the one of the path, or the end's own, as the     *)
(* NAT shows it.  A packet for an address nobody has is lost.              *)
Prepare(e) ==
    /\ cnx[e].state = "ready"
    /\ \E r \in PreparePacket(cnx[e]) :
       LET p == [r.p EXCEPT !.from = Public(IF @ = None THEN Home[e] ELSE @)]
       IN IF r.p.frames = <<>>
          THEN r.c # cnx[e] /\ cnx' = [cnx EXCEPT ![e] = r.c] /\ UNCHANGED net
          ELSE IF Reachable(Peer(e), p)
          THEN cnx' = [cnx EXCEPT ![e] = r.c] /\ net' = [net EXCEPT ![Peer(e)] = Append(@, p)]
          ELSE cnx' = [cnx EXCEPT ![e] = Late(r.c, p)] /\ UNCHANGED net
    /\ UNCHANGED <<nat, plan, reached>>

(* Packets keep their order on a route.  The sender takes a packet for     *)
(* lost that was not for an identifier of the receiver, or spuriously.     *)
Deliver(e, i, spurious) ==
    LET p == Received(e, net[e][i])
        f == Peer(e)
        rest == [j \in 1..(Len(net[e]) - 1) |->
                   IF j < i THEN [net[e][j] EXCEPT !.old = TRUE] ELSE net[e][j + 1]]
        isReset == Head(p.frames).type = "reset"
    IN /\ \A j \in 1..(i - 1) : <<net[e][j].from, net[e][j].to>> # <<net[e][i].from, net[e][i].to>>
       /\ Reachable(e, net[e][i])
       /\ spurious => plan.spurious > 0 /\ Again(p) # <<>>
       /\ plan' = [plan EXCEPT !.spurious = IF spurious THEN @ - 1 ELSE @]
       /\ reached' = IF \E k \in DOMAIN p.frames : p.frames[k].type = "challenge"
                     THEN [reached EXCEPT ![f] = @ \cup {net[e][i].to}] ELSE reached
       /\ cnx' = [cnx EXCEPT
                    ![e] = IF isReset THEN IncomingReset(@, e, p) ELSE IncomingEncrypted(@, p),
                    ![f] = IF spurious \/ Arrival(cnx[e], p) = {} THEN Late(@, p) ELSE @]
       /\ net' = [net EXCEPT ![e] = rest,
                             ![f] = @ \o IF isReset THEN <<>> ELSE
                                [k \in DOMAIN Reply(cnx[e], p) |->
                                   [Reply(cnx[e], p)[k] EXCEPT !.from = Public(@)]]]
       /\ UNCHANGED nat

(* A packet is lost: by the network, or because its address is gone.       *)
Lose(e, i) ==
    /\ Reachable(e, net[e][i]) => plan.lost > 0
    /\ plan' = [plan EXCEPT !.lost = IF Reachable(e, net[e][i]) THEN @ - 1 ELSE @]
    /\ cnx' = [cnx EXCEPT ![Peer(e)] = Late(@, net[e][i])]
    /\ net' = [net EXCEPT ![e] = RemoveAt(@, i)]
    /\ UNCHANGED <<nat, reached>>

(* Nothing is in flight and nobody has anything to send: time passes.      *)
Tick ==
    /\ \A e \in Ends : net[e] = <<>> /\ ~Busy(e)
    /\ cnx' = [e \in Ends |-> Retransmit(Expired(cnx[e]))]
    /\ cnx' # cnx
    /\ UNCHANGED <<net, nat, plan, reached>>

(* The timers of one end expire although packets are in flight.            *)
Early(e) ==
    /\ plan.early > 0
    /\ \E c \in {Retransmit(cnx[e]), Expired(cnx[e])} :
          c # cnx[e] /\ cnx' = [cnx EXCEPT ![e] = c]
    /\ plan' = [plan EXCEPT !.early = @ - 1]
    /\ UNCHANGED <<net, nat, reached>>

Happens(ev, e) == plan[ev] > 0 /\ cnx[e].state = "ready" /\ plan' = [plan EXCEPT ![ev] = @ - 1]

(* picoquic_create_probe by the application of the client, for an address  *)
(* of its own or another of the server's.                                  *)
Probe(to, from) ==
    /\ Happens(IF to = "s1" THEN "probe" ELSE "migrate", "client")
    /\ cnx["client"].stash # <<>>
    /\ cnx' = [cnx EXCEPT !["client"] = CreateProbe(@, to, from)]
    /\ UNCHANGED <<net, nat, reached>>

(* picoquic_renew_connection_id on the default path.                       *)
RenewConnectionId(e) ==
    /\ Happens("renew", e)
    /\ cnx[e].stash # <<>>
    /\ LET c == QueueRetire(cnx[e], {cnx[e].paths[1].cseq})
           new == Head(c.stash)
       IN cnx' = [cnx EXCEPT ![e] =
                    [c EXCEPT !.paths[1].cid = new, !.paths[1].cseq = new,
                              !.paths[1].secret = TRUE, !.stash = Tail(@)]]
    /\ UNCHANGED <<net, nat, reached>>

(* The NAT changes the client's public address, and the client has data to *)
(* send: a server that alone has data would not find it.                   *)
Rebind ==
    /\ Happens("rebind", "client")
    /\ nat' = "n1"
    /\ cnx' = [cnx EXCEPT !["client"].todo = @ \cup {2}]
    /\ UNCHANGED <<net, reached>>

(* The application has a piece of data to send.                            *)
Write(e) ==
    /\ Happens(IF e = "client" THEN "ask" ELSE "answer", e)
    /\ cnx' = [cnx EXCEPT ![e].todo = @ \cup {plan[IF e = "client" THEN "ask" ELSE "answer"]}]
    /\ UNCHANGED <<net, nat, reached>>

Next ==
    \/ \E e \in Ends : Prepare(e) \/ Early(e) \/ RenewConnectionId(e) \/ Write(e)
    \/ \E e \in Ends : \E i \in DOMAIN net[e] :
          Lose(e, i) \/ \E spurious \in BOOLEAN : Deliver(e, i, spurious)
    \/ Probe("s1", "c2") \/ Probe("s2", None) \/ Rebind \/ Tick
Spec == Init /\ [][Next]_vars

(* Each end runs, packets arrive unless they are lost, and timers expire.  *)
Progress ==
    \/ \E e \in Ends : Prepare(e)
    \/ \E e \in Ends : \E i \in DOMAIN net[e] :
          Deliver(e, i, FALSE) \/ (~Reachable(e, net[e][i]) /\ Lose(e, i))
    \/ Tick
LiveSpec == Spec /\ WF_vars(Progress)

(* What an application has written reaches the peer: neither the probe,    *)
(* the NAT rebinding nor the new identifier of the plan loses it.          *)
DataArrives ==
    \A e \in Ends : \A k \in 1..2 :
        (k \in cnx[e].todo) ~> (k \in cnx[Peer(e)].got)

(* Two ends that follow this code never accuse each other of a protocol    *)
(* violation in picoquic_enqueue_cnxid_stash or                            *)
(* picoquic_decode_retire_connection_id_frame.                             *)
HonestPeersAgree == \A e \in Ends : cnx[e].state # "error"

(* An identifier of the peer is in one place only: a path, a probe or the  *)
(* stash.                                                                  *)
HeldOnce ==
    \A e \in Ends :
        LET cids(s) == [k \in DOMAIN s |-> s[k].cid]
            named == SelectSeq(cnx[e].paths, LAMBDA x : x.cid # NoCid)
        IN IsInjective(cids(named) \o cids(cnx[e].probes) \o cnx[e].stash)


(* An end takes an address for verified only if a challenge it sent to     *)
(* that very address arrived there, whatever probes, rebindings and        *)
(* repeats came between challenge and response.                            *)
VerifiedWereReached ==
    \A e \in Ends : \A i \in DOMAIN cnx[e].paths :
        cnx[e].paths[i].ver => cnx[e].paths[i].peer \in reached[e]

(* A context never loses the address of its default path.                  *)
DefaultHasAddress == \A e \in Ends : cnx[e].paths[1].peer # None
=============================================================================
