------------------------------ MODULE MCUnits ------------------------------
(***************************************************************************)
(* One instance of each component that works on its own: key rotation,     *)
(* packet numbers, frames, headers, stream limits, transport parameters,   *)
(* tickets and tokens, the lists and tables of the context, the splay tree *)
(* and the control of a path.  The part is chosen at the start and takes   *)
(* all the steps; the variables of the others stay as they are.            *)
(***************************************************************************)
EXTENDS KeyRotation, FiniteSets, Sequences

CONSTANTS slot1, slot2, slot3, NoNode

VARIABLES part,
          next_pn, highest,                                     \* PacketNumber
          payload, meant, misc, space, filling,                 \* FrameLayout
          route, datagram, sent, at, prev, got, stage,          \* Header
          plan, o, a, frames, read,                             \* StreamLimits
          endpoints, tp, state, window, logged,                 \* TransportParameters
          clock, address, tickets, tokens, file, cnx, given,    \* SessionStores
          quic, pc, created, arrived, turns,                    \* Context
          root, size, left, right, parent, nodes, call,         \* SplayTree
          link, now, wake, path, ctx, data, flight, peer, seen  \* PathControl

-----------------------------------------------------------------------------
(* Windows of eight numbers, and enough packets to pass several borders.   *)
Numbers == INSTANCE PacketNumber WITH HalfWindow <- 4, MaxPn <- 40,
               send_sequence <- next_pn, end_of_sack_range <- highest

(* A frame of each type, and values on both sides of the borders between   *)
(* the four lengths of a variable-length integer.                          *)
Bytes(n) == [k \in 1..n |-> 128 + (k % 64)]
F(t, v) == [type |-> t, vals |-> v]
SomeFrames ==
    {F(2, <<<<300>>, <<70>>, <<300, 300, 200, 198, 40, 0>>>>),
     F(3, <<<<5>>, <<0>>, <<5, 5, 3, 1>>, <<1>>, <<0>>, <<64>>>>),
     F(1, <<>>), F(4, <<<<4>>, <<300>>, <<16384>>>>), F(5, <<<<64>>, <<300>>>>),
     F(6, <<<<0>>, Bytes(70)>>), F(6, <<<<64>>, Bytes(4)>>), F(7, <<Bytes(5)>>),
     F(16, <<<<1073741824>>>>), F(17, <<<<4>>, <<16384>>>>),
     F(18, <<<<63>>>>), F(19, <<<<64>>>>), F(20, <<<<64>>>>), F(21, <<<<4>>, <<63>>>>),
     F(22, <<<<1>>>>), F(23, <<<<1>>>>),
     F(24, <<<<64>>, <<0>>, Bytes(8), [k \in 1..16 |-> 7]>>), F(25, <<<<2>>>>),
     F(26, <<Bytes(8)>>), F(27, <<Bytes(8)>>),
     F(28, <<<<10>>, <<6>>, <<>>>>), F(29, <<<<0>>, <<>>>>),
     F(33, <<<<0>>, Bytes(2)>>), F(35, <<<<64>>, Bytes(3)>>)}
S(id, offset, n, fin) == [id |-> id, offset |-> offset, data |-> Bytes(n), fin |-> fin]
SomeStreams == {S(0, 0, 0, TRUE), S(4, 64, 8, TRUE), S(4, 0, 40, FALSE),
                S(300, 16384, 90, TRUE)}

Frame == INSTANCE FrameLayout WITH Frames <- SomeFrames, Streams <- SomeStreams,
             Spaces <- {31, 34, 80}, PadTargets <- {0, 36}, MaxFrames <- 2,
             phase <- filling

-----------------------------------------------------------------------------
(* The versions the code knows and some it does not, identifiers of        *)
(* several lengths, with and without token, and receivers that have all or *)
(* some of the keys.                                                       *)
Cid(n, x) == [k \in 1..n |-> (x + k) % 256]
Draft(n) == <<255, 0, 0, n>>
Known == {Draft(20), Draft(22), <<80, 67, 81, 48>>}
Alien == {<<10, 26, 42, 58>>, <<26, 42, 58, 74>>, Draft(19), Draft(23)}
Lengths == {0, 8, 18}
Sender(client, starting, proposed, version, remote, local, token) ==
    [client |-> client, starting |-> starting, proposed |-> proposed,
     version |-> version, remote |-> remote, local |-> local,
     initial |-> Cid(8, 0), token |-> token, key_phase |-> 1, spin |-> 1]
Receiver(exists, client, cid, keys) ==
    [exists |-> exists, client |-> client, cid |-> cid,
     cids |-> {cid, Cid(Len(cid), 120)}, initial |-> Cid(8, 0),
     local_length |-> Len(cid), keys |-> keys]
Route(c, q, types, remotes, retry) ==
    [c |-> c, q |-> q, types |-> types, remotes |-> remotes, retry |-> retry,
     token |-> Cid(70, 9), mask |-> <<255, 129, 66, 36, 24>>, enforced_mtu |-> 100]
FirstFlight ==
    {Route(Sender(TRUE, TRUE, v, v, <<>>, Cid(n, 40), token),
           Receiver(FALSE, FALSE, Cid(8, 80), keys), {"initial", "zero_rtt"},
           {<<>>}, retry) :
        v \in Known, n \in Lengths, token \in {<<>>, Cid(70, 9)},
        keys \in {{0}, {0, 1}}, retry \in BOOLEAN}
Negotiation ==
    {Route(Sender(TRUE, TRUE, v, Draft(22), <<>>, Cid(n, x), <<>>),
           Receiver(FALSE, FALSE, Cid(8, 80), {0, 1}), {"initial", "zero_rtt"},
           {<<>>}, FALSE) :
        v \in Alien, n \in Lengths, x \in {0, 250}}
ClientLater ==
    {Route(Sender(TRUE, FALSE, v, v, Cid(8, 80), Cid(n, 40), token),
           Receiver(TRUE, FALSE, Cid(8, 80), keys),
           {"initial", "zero_rtt", "handshake", "one_rtt"},
           {Cid(8, 80), Cid(8, 120)}, FALSE) :
        v \in Known, n \in Lengths, token \in {<<>>, Cid(70, 9)},
        keys \in {{0, 2}, {3}}}
ServerLater ==
    {Route(Sender(FALSE, FALSE, v, v, Cid(n, 40), Cid(8, 80), <<>>),
           Receiver(TRUE, TRUE, Cid(n, 40), keys),
           {"initial", "handshake", "one_rtt"}, {Cid(n, 40)}, FALSE) :
        v \in Known, n \in Lengths, keys \in {{0, 2, 3}, {3}}}

Heads == INSTANCE Header WITH
            Links <- FirstFlight \cup Negotiation \cup ClientLater \cup ServerLater,
            Sizes <- {1, 60}, MaxSegments <- 2, link <- route, phase <- stage

-----------------------------------------------------------------------------
(* Streams opened at the limit and one over it, limits at the end of the   *)
(* number space, with a frame lost or repeated, and a server that opens.   *)
W == 1024
P(bidir, unidir, streams) ==
    [client |-> TRUE, limit |-> [bidir |-> bidir, unidir |-> unidir],
     streams |-> streams, high |-> -1, eager |-> FALSE, lost |-> 0, copied |-> 0,
     fins |-> {TRUE}]
Plans == {[P(4, 0, {0, 4, 8}) EXCEPT !.lost = 1],
          [P(W - 4, W - 2, {0, 2}) EXCEPT !.fins = BOOLEAN, !.high = 2, !.copied = 1],
          [P(1, 0, {1, 5}) EXCEPT !.client = FALSE, !.copied = 1, !.fins = BOOLEAN]}

Limits == INSTANCE StreamLimits WITH Word <- W, net <- frames

-----------------------------------------------------------------------------
(* The parameters the code sets by default, the largest, the smallest, and *)
(* a peer that has entries of types the code does not know.                *)
NoAddress == [defined |-> FALSE, ip4 |-> <<0, 0, 0, 0>>, port4 |-> 0,
              ip6 |-> [i \in 1..16 |-> 0], port6 |-> 0, cid |-> <<>>, token |-> <<>>]
Default(server) ==
    [bidi_local |-> 8192, bidi_remote |-> 65635, uni |-> 65535,
     initial_max_data |-> 1048576, streams_bidi |-> IF server THEN 2048 ELSE 2049,
     streams_uni |-> IF server THEN 2050 ELSE 2051, idle_timeout |-> 30000,
     max_packet_size |-> 1440, max_ack_delay |-> 0, active_connection_id_limit |-> 8,
     ack_delay_exponent |-> 3, migration_disabled |-> FALSE, preferred |-> NoAddress,
     max_datagram_size |-> 0]
Big == 1073741824
Largest(server) ==
    [bidi_local |-> Big, bidi_remote |-> Big, uni |-> Big, initial_max_data |-> Big,
     streams_bidi |-> IF server THEN 2147483640 ELSE 2147483641,
     streams_uni |-> IF server THEN 2147483642 ELSE 2147483643,
     idle_timeout |-> Big, max_packet_size |-> Big, max_ack_delay |-> 16384000,
     active_connection_id_limit |-> Big, ack_delay_exponent |-> 20,
     migration_disabled |-> TRUE, max_datagram_size |-> Big,
     preferred |-> IF server
                   THEN [NoAddress EXCEPT !.defined = TRUE, !.port4 = 4433,
                                          !.port6 = 4433, !.cid = Cid(18, 0),
                                          !.token = Cid(16, 0)]
                   ELSE NoAddress]
Smallest(server) ==
    [Default(server) EXCEPT
        !.streams_bidi = 0, !.streams_uni = IF server THEN -1 ELSE 3,
        !.idle_timeout = 0, !.bidi_local = 0, !.active_connection_id_limit = 0,
        !.ack_delay_exponent = 0, !.bidi_remote = 4096, !.uni = 4096,
        !.max_ack_delay = 1001]
Pair == [client |-> Default(FALSE), server |-> Default(TRUE), ticket |-> <<>>,
         draft20 |-> FALSE, original |-> <<>>, unknown |-> <<>>]
Pairs ==
    {Pair,
     [Pair EXCEPT !.client = Largest(FALSE), !.server = Largest(TRUE),
                  !.original = Cid(18, 0)],
     [Pair EXCEPT !.client = Smallest(FALSE), !.server = Smallest(TRUE),
                  !.original = <<1, 2, 3, 4>>, !.draft20 = TRUE],
     [Pair EXCEPT !.server = Largest(TRUE), !.client = Smallest(FALSE),
                  !.ticket = <<Default(TRUE)>>,
                  !.unknown = <<0, 77, 0, 2, 1, 1, 0, 77, 0, 0>>],
     [Pair EXCEPT !.client.max_ack_delay = 25000]}

Parameters == INSTANCE TransportParameters WITH
                  Links <- Pairs, BufferSize <- 256, link <- endpoints

-----------------------------------------------------------------------------
Stores == INSTANCE SessionStores WITH
              Servers <- {"x"}, Addresses <- {"home", "away"}, TicketLife <- 2,
              TokenLife <- 2, RetryLife <- 1, MaxLife <- 3, Lengths <- {1968},
              BufferSize <- 2048, Ends <- {1, 3}, MaxTime <- 3, MaxConnections <- 3

(* Two clients, and memory for one more context than they need.            *)
Tables == INSTANCE Context WITH
              Slots <- {slot1, slot2, slot3}, NULL <- NoNode, AddressOf <- <<1, 2>>,
              Bins <- 2, MaxPool <- 1, Burst <- 2, MaxDelay <- 2, MaxIds <- 3, MaxPackets <- 4

Tree == INSTANCE SplayTree WITH Streams <- 1..5, NULL <- NoNode

(* Both algorithms, with a short, a usual and a long round trip, sizes the *)
(* link carries below, between and above those that are tried, and links   *)
(* that lose or reorder.                                                   *)
L(alg, delays, mtu, lossy, ackdelay, cwin, written, queued, max_packet_size) ==
    [alg |-> alg, delays |-> delays, mtu |-> mtu, lossy |-> lossy,
     ackdelay |-> ackdelay, cwin |-> cwin, data |-> written, queued |-> queued,
     max_packet_size |-> max_packet_size]
SomeLinks ==
    {L("newreno", {40}, 1450, 0, 10, 3000, 9000, 9000, 0),
     L("cubic", {40}, 1500, 0, 10, 11000, 18000, 18000, 1536),
     L("newreno", {240}, 1500, 0, 20, 11000, 9000, 300000, 1536),
     L("cubic", {2}, 1280, 0, 10, 3000, 9000, 300000, 1480),
     L("newreno", {40, 60}, 1450, 1, 10, 3000, 2500, 2500, 0),
     L("cubic", {40}, 1450, 2, 10, 11000, 5000, 5000, 0),
     L("newreno", {40}, 1450, 2, 10, 3000, 4000, 4000, 0)}

Control == INSTANCE PathControl WITH Links <- SomeLinks, net <- flight

-----------------------------------------------------------------------------
Off == "off"
NumbersOff == next_pn = Off /\ highest = Off
FramesOff == payload = Off /\ meant = Off /\ misc = Off /\ space = Off /\ filling = Off
HeadersOff == /\ route = Off /\ datagram = Off /\ sent = Off /\ at = Off
              /\ prev = Off /\ got = Off /\ stage = Off
LimitsOff == plan = Off /\ o = Off /\ a = Off /\ frames = Off /\ read = Off
ParametersOff == /\ endpoints = Off /\ tp = Off /\ state = Off /\ window = Off
                 /\ logged = Off
StoresOff == /\ clock = Off /\ address = Off /\ tickets = Off /\ tokens = Off
             /\ file = Off /\ cnx = Off /\ given = Off
TablesOff == /\ quic = Off /\ pc = Off /\ created = Off /\ arrived = Off
             /\ turns = Off
TreeOff == /\ root = Off /\ size = Off /\ left = Off /\ right = Off
           /\ parent = Off /\ nodes = Off /\ call = Off
ControlOff == /\ link = Off /\ now = Off /\ wake = Off /\ path = Off /\ ctx = Off
              /\ data = Off /\ flight = Off /\ peer = Off /\ seen = Off

UnitInit ==
    /\ part \in {"keys", "numbers", "frames", "headers", "limits", "parameters",
                 "stores", "tables", "tree", "control"}
    /\ Init
    /\ IF part = "numbers" THEN Numbers!Init ELSE NumbersOff
    /\ IF part = "frames" THEN Frame!Init ELSE FramesOff
    /\ IF part = "headers" THEN Heads!Init ELSE HeadersOff
    /\ IF part = "limits" THEN Limits!Init ELSE LimitsOff
    /\ IF part = "parameters" THEN Parameters!Init ELSE ParametersOff
    /\ IF part = "stores" THEN Stores!Init ELSE StoresOff
    /\ IF part = "tables" THEN Tables!Init ELSE TablesOff
    /\ IF part = "tree" THEN Tree!Init ELSE TreeOff
    /\ IF part = "control" THEN Control!Init ELSE ControlOff

Others(p) ==
    /\ UNCHANGED part
    /\ p # "keys" => UNCHANGED vars
    /\ p # "numbers" => UNCHANGED <<next_pn, highest>>
    /\ p # "frames" => UNCHANGED <<payload, meant, misc, space, filling>>
    /\ p # "headers" => UNCHANGED <<route, datagram, sent, at, prev, got, stage>>
    /\ p # "limits" => UNCHANGED <<plan, o, a, frames, read>>
    /\ p # "parameters" => UNCHANGED <<endpoints, tp, state, window, logged>>
    /\ p # "stores" => UNCHANGED <<clock, address, tickets, tokens, file, cnx, given>>
    /\ p # "tables" => UNCHANGED <<quic, pc, created, arrived, turns>>
    /\ p # "tree" => UNCHANGED <<root, size, left, right, parent, nodes, call>>
    /\ p # "control" => UNCHANGED <<link, now, wake, path, ctx, data, flight, peer, seen>>

UnitNext ==
    \/ part = "keys" /\ Next /\ Others("keys")
    \/ part = "numbers" /\ Numbers!Next /\ Others("numbers")
    \/ part = "frames" /\ Frame!Next /\ Others("frames")
    \/ part = "headers" /\ Heads!Next /\ Others("headers")
    \/ part = "limits" /\ Limits!Next /\ Others("limits")
    \/ part = "parameters" /\ Parameters!Next /\ Others("parameters")
    \/ part = "stores" /\ Stores!Next /\ Others("stores")
    \/ part = "tables" /\ Tables!Next /\ Others("tables")
    \/ part = "tree" /\ Tree!Next /\ Others("tree")
    \/ part = "control" /\ Control!Next /\ Others("control")

(* The steps that go on as long as they can: the loops of the connection   *)
(* and the network that carries its frames, a call in the splay tree, and  *)
(* the wake times of a transfer.                                           *)
UnitProgress ==
    \/ part = "limits" /\ Limits!Progress /\ Others("limits")
    \/ part = "tree" /\ Tree!Step /\ Others("tree")
    \/ part = "control" /\ Control!Next /\ Others("control")

unitVars == <<part, vars, next_pn, highest, payload, meant, misc, space, filling,
              route, datagram, sent, at, prev, got, stage, plan, o, a, frames, read,
              endpoints, tp, state, window, logged, clock, address, tickets, tokens,
              file, cnx, given, quic, pc, created, arrived, turns, root, size, left,
              right, parent, nodes, call, link, now, wake, path, ctx, data, flight,
              peer, seen>>
UnitSpec == UnitInit /\ [][UnitNext]_unitVars /\ WF_unitVars(UnitProgress)

-----------------------------------------------------------------------------
(* Properties of the parts, each in the states of its part.                *)

(* Every packet at most half a window late gets its number back            *)
(* (picoquic_get_packet_number64).                                         *)
NumbersRecovered == part = "numbers" => Numbers!NumbersRecovered


(* A repeated packet carries, or sets aside, all that the lost one carried *)
(* (picoquic_copy_before_retransmit, picoquic_split_stream_frame).         *)
RepeatLosesNothing == Frame!RepeatLosesNothing

(* The receiver opens every packet of a datagram that it has keys for, as  *)
(* it was sent; the log finds its frames; a client reads Retry and Version *)
(* Negotiation as the server wrote them (picoquic_incoming_packet).        *)
HeadersAreRead ==
    part = "headers" => /\ Heads!SegmentsRecovered
                        /\ Heads!LogFindsFrames
                        /\ Heads!AnswersUnderstood





(* Child and parent pointers agree after every iteration of the loops of   *)
(* the splay tree (picosplay.c:40-303).                                    *)
LinksAgree == part = "tree" => Tree!LinksAgree

(* Between calls the tree is walked in order, and a search is exact.       *)
TreeIsSorted == part = "tree" => Tree!WalkMeetsAll /\ Tree!SearchIsExact


(* Every stream an application wants to write is read to its end, every    *)
(* call in the splay tree returns, and a transfer ends without sleeping    *)
(* for ever or turning without end.                                        *)
LoopsEnd ==
    (part \in {"limits", "control"} \/ (part = "tree" /\ call # Tree!Idle))
    ~> CASE part = "limits" -> read = plan.streams
         [] part = "tree" -> call = Tree!Idle
         [] part = "control" -> Control!Finished
         [] OTHER -> TRUE
=============================================================================
