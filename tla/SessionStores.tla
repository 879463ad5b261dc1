--------------------------- MODULE SessionStores ---------------------------
(***************************************************************************)
(* What a client keeps from one connection to the next: session tickets    *)
(* (ticket_store.c) and address tokens (token_store.c), their files, and   *)
(* the server's side of the tokens (tls_api.c:2040-2200): a server that    *)
(* checks addresses asks a client without a good token to retry with one   *)
(* it makes for the occasion, and gives a longer lived one to each client  *)
(* it has accepted.                                                        *)
(*                                                                         *)
(* A stored item is a record of its key, its end of validity, whether it   *)
(* was used, the length of its record in the file, and the identity of the *)
(* ticket or token.  The content of a token is known to the server only:   *)
(* the address, its own end of validity, and the original identifier when  *)
(* it was made for a retry.                                                *)
(***************************************************************************)
EXTENDS Integers, FiniteSets, SequencesExt

CONSTANTS Servers,       \* names (sni) of servers
          Addresses,     \* of the client
          TicketLife, TokenLife, RetryLife, MaxLife,  \* MaxLife: seven days
          Lengths,       \* lengths of ticket and token records
          BufferSize,    \* the buffers of the save and load functions
          Ends,          \* the ends of validity read from tokens
          MaxTime, MaxConnections

VARIABLES clock, address,
          tickets, tokens,  \* p_first_ticket, p_first_token
          file,             \* the two files
          cnx,              \* the client's connection
          given             \* tickets and tokens given to connections
vars == <<clock, address, tickets, tokens, file, cnx, given>>

Smaller(x, y) == IF x < y THEN x ELSE y

(***************************************************************************)
(* The stores                                                              *)
(***************************************************************************)
(* The new item comes first; items of its key that end no later go.        *)
Stored(list, item) ==
    <<item>> \o SelectSeq(list, LAMBDA x : ~(x.key = item.key /\ x.until <= item.until))

(* The end of validity is read from the ticket, which the TLS stack fills. *)
picoquic_store_ticket(list, server, id, length) ==
    Stored(list, [key |-> <<server>>, id |-> id, used |-> FALSE, length |-> length,
                  until |-> clock + Smaller(TicketLife, MaxLife)])

(* The end of validity is read from the same bytes of the token, which are *)
(* the random number and the cipher text of the server's encryption: it    *)
(* may be any time.  Tokens that have ended by then are refused.           *)
picoquic_store_token(list, server, token, length, until) ==
    IF until < clock THEN list
    ELSE Stored(list, [key |-> <<server, address>>, id |-> token, used |-> FALSE,
                       length |-> length, until |-> until])

Usable(x, server) == x.until > clock /\ x.key[1] = server /\ ~x.used

(* The index of the first usable ticket, 0 if there is none.               *)
picoquic_get_ticket(server) == SelectInSeq(tickets, LAMBDA x : Usable(x, server))

(* The client asks for a token of the server whatever the address: the     *)
(* first of those that end last.                                           *)
picoquic_get_token(server) ==
    SelectInSeq(tokens, LAMBDA x : /\ Usable(x, server)
                                   /\ \A y \in Range(tokens) : Usable(y, server) => y.until <= x.until)
MarkUsed(list, i) == [list EXCEPT ![i].used = TRUE]

(* The files hold the usable items, in order, each after its length; an    *)
(* item too long for the buffer ends the file.  The test of the length of  *)
(* a ticket does not count the six parameters written with it.             *)
Saved(list, at, uncounted) ==
    LET kept == SelectSeq(list, LAMBDA x : x.until > at /\ ~x.used)
        long == SelectInSeq(kept, LAMBDA x : x.length - uncounted > BufferSize)
    IN  IF long = 0 THEN kept ELSE SubSeq(kept, 1, long - 1)

(* A record that is too long for the buffer together with the head of the  *)
(* structure ends the reading.                                             *)
Loaded(records, at, head) ==
    LET long == SelectInSeq(records, LAMBDA x : x.length + head > BufferSize)
        read == IF long = 0 THEN records ELSE SubSeq(records, 1, long - 1)
    IN  SelectSeq(read, LAMBDA x : x.until >= at)

TicketHead == 80    \* offsetof(struct st_picoquic_stored_ticket_t, time_valid_until)
TokenHead == 32
TicketUncounted == 48
picoquic_save_tickets == Saved(tickets, clock, TicketUncounted)
picoquic_load_tickets(records, at) == Loaded(records, at, TicketHead)
picoquic_save_tokens == Saved(tokens, clock, 0)
picoquic_load_tokens(records, at) == Loaded(records, at, TokenHead)

(***************************************************************************)
(* Tokens at the server                                                    *)
(***************************************************************************)
(* number stands for the random bytes of a token.                          *)
picoquic_prepare_retry_token(number, odcid) ==
    [number |-> number, address |-> address, odcid |-> odcid,
     until |-> clock + (IF odcid = 0 THEN TokenLife ELSE RetryLife)]
NoToken == [number |-> 0, address |-> "none", odcid |-> 0, until |-> 0]
picoquic_verify_retry_token(token) ==
    token # NoToken /\ token.address = address /\ token.until >= clock

(***************************************************************************)
(* Connections                                                             *)
(***************************************************************************)
(* The client has one connection at a time.  Its states: "none",           *)
(* "created", "sent", "retried", "resent", "open", "refused", "closed".    *)
NewCnx(number, server, state) ==
    [number |-> number, server |-> server, state |-> state, token |-> NoToken, next |-> NoToken,
     original |-> 0, at_server |-> 0, asked |-> 0, moved |-> FALSE,
     ticketed |-> FALSE]
Init ==
    /\ clock = 1 /\ address \in Addresses
    /\ tickets = <<>> /\ tokens = <<>> /\ file = [tickets |-> <<>>, tokens |-> <<>>]
    /\ cnx = NewCnx(0, "none", "closed") /\ given = {}

(* A context is made with the first usable ticket.                         *)
picoquic_create_cnx(server) ==
    LET i == picoquic_get_ticket(server)
    IN  /\ cnx.number < MaxConnections
        /\ cnx.state \in {"open", "refused", "closed"}
        /\ cnx' = NewCnx(cnx.number + 1, server, "created")
        /\ tickets' = IF i = 0 THEN tickets ELSE MarkUsed(tickets, i)
        /\ given' = IF i = 0 THEN given ELSE given \cup {tickets[i].id}
        /\ UNCHANGED <<clock, address, tokens, file>>

(* The first Initial takes a token, if there is one.                       *)
picoquic_prepare_packet_client_init ==
    LET i == picoquic_get_token(cnx.server)
    IN  /\ cnx.state = "created"
        /\ cnx' = [cnx EXCEPT !.state = "sent", !.token = IF i = 0 THEN NoToken ELSE tokens[i].id]
        /\ tokens' = IF i = 0 THEN tokens ELSE MarkUsed(tokens, i)
        /\ given' = IF i = 0 THEN given ELSE given \cup {tokens[i].id}
        /\ UNCHANGED <<clock, address, tickets, file>>

(* The server has an Initial: with a good token the client gets in and is  *)
(* sent a new one, without it a Retry goes out with a token for the        *)
(* identifier the client chose.  A client takes one Retry only.            *)
picoquic_incoming_initial ==
    /\ cnx.state \in {"sent", "resent"}
    /\ cnx' = IF picoquic_verify_retry_token(cnx.token)
              THEN [cnx EXCEPT !.state = "open", !.at_server = cnx.token.odcid,
                               !.next = picoquic_prepare_retry_token(cnx.number, 0)]
              ELSE IF cnx.state = "resent" THEN [cnx EXCEPT !.state = "refused"]
              ELSE [cnx EXCEPT !.state = "retried", !.asked = clock,
                               !.next = picoquic_prepare_retry_token(cnx.number, cnx.number)]
    /\ UNCHANGED <<clock, address, tickets, tokens, file, given>>

picoquic_incoming_retry ==
    /\ cnx.state = "retried"
    /\ cnx' = [cnx EXCEPT !.state = "resent", !.token = cnx.next, !.original = cnx.number]
    /\ UNCHANGED <<clock, address, tickets, tokens, file, given>>

(* On an open connection the client is given a ticket and the token.       *)
picoquic_client_save_ticket_call_back ==
    /\ cnx.state = "open" /\ ~cnx.ticketed
    /\ \E length \in Lengths :
          tickets' = picoquic_store_ticket(tickets, cnx.server, [number |-> cnx.number], length)
    /\ cnx' = [cnx EXCEPT !.ticketed = TRUE]
    /\ UNCHANGED <<clock, address, tokens, file, given>>

picoquic_decode_new_token_frame ==
    /\ cnx.state = "open" /\ cnx.next # NoToken
    /\ \E length \in Lengths, until \in Ends :
          tokens' = picoquic_store_token(tokens, cnx.server, cnx.next, length, until)
    /\ cnx' = [cnx EXCEPT !.next = NoToken]
    /\ UNCHANGED <<clock, address, tickets, file, given>>

(* Time passes; the client moves to another address.                       *)
Tick == /\ clock < MaxTime
        /\ clock' = clock + 1
        /\ UNCHANGED <<address, tickets, tokens, file, cnx, given>>
Move == /\ \E a \in Addresses \ {address} : address' = a
        /\ cnx' = [cnx EXCEPT !.moved = @ \/ cnx.state \in {"retried", "resent"}]
        /\ UNCHANGED <<clock, tickets, tokens, file, given>>

(* The client ends after saving both stores, and a later client reads the  *)
(* files; or it crashes, and the later one reads the files of before.      *)
Load(files, at) == /\ tickets' = picoquic_load_tickets(files.tickets, at)
                   /\ tokens' = picoquic_load_tokens(files.tokens, at)
                   /\ clock' = at
                   /\ cnx' = NewCnx(cnx.number, "none", "closed")
Restart(at) ==
    LET files == [tickets |-> picoquic_save_tickets, tokens |-> picoquic_save_tokens]
    IN  /\ file' = files
        /\ Load(files, at)
        /\ UNCHANGED <<address, given>>
Crash(at) ==
    /\ Load(file, at)
    /\ given' = {}
    /\ UNCHANGED <<address, file>>

Next == \/ \E server \in Servers : picoquic_create_cnx(server)
        \/ picoquic_prepare_packet_client_init
        \/ picoquic_incoming_initial
        \/ picoquic_incoming_retry
        \/ picoquic_client_save_ticket_call_back
        \/ picoquic_decode_new_token_frame
        \/ Tick
        \/ Move
        \/ \E at \in (clock + 1)..MaxTime : Restart(at) \/ Crash(at)
Spec == Init /\ [][Next]_vars

-----------------------------------------------------------------------------
(* A ticket, like a token, serves one connection: was_used keeps it from a   *)
(* second one of the same process, and from the files.  Only a crash, after  *)
(* which the files of before are read (given starts anew), brings a used one *)
(* back.                                                                     *)
GivenOnce == \A x \in Range(tickets) \cup Range(tokens) : x.id \in given => x.used

(* A client that is asked to retry gets in with the token it was sent unless *)
(* it moved or took longer than the life of that token, a client is asked    *)
(* once, and whoever gets in agrees with the server on the original          *)
(* identifier, which the client checks in the server's parameters.           *)
AskedOnce ==
    /\ cnx.state = "refused" => cnx.moved \/ clock > cnx.asked + RetryLife
    /\ cnx.state = "open" => cnx.at_server = cnx.original

(* Nothing that can still be used is lost by an orderly restart, and nothing *)
(* else comes back: the stores are those of before without what was used or  *)
(* has ended in the meantime, in the same order.                             *)
RestartStep ==
    \A at \in (clock + 1)..MaxTime : Restart(at) =>
        /\ tickets' = SelectSeq(tickets, LAMBDA x : x.until > clock /\ x.until >= at /\ ~x.used)
        /\ tokens' = SelectSeq(tokens, LAMBDA x : x.until > clock /\ x.until >= at /\ ~x.used)
=============================================================================
