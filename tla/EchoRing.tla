------------------------------- MODULE EchoRing -------------------------------
(***************************************************************************)
(* The test server (as-game-server -s, src/src/program/test_server/         *)
(* test_server.c) and echo clients (as-game-server -e ip:port,              *)
(* src/src/program/echo/echo.c): the server greets every client it accepts, *)
(* both sides send back whatever they read, and every five seconds the      *)
(* server reports how much it has read.  Each program is one event loop;    *)
(* TCP is two byte streams per connection, cut short when an end goes away. *)
(***************************************************************************)
EXTENDS Integers, Sequences, SequencesExt

CONSTANTS
  Clients,    \* the echo processes
  Greeting,   \* the bytes accept_conn_cb writes, all different here
  Word,       \* size_t counts modulo Word
  K,          \* 1024 in the code
  MaxSince    \* bound: bytes read between two reports

ASSUME GreetingAssumption == Greeting \in Seq(ToSet(Greeting)) /\ Len(Greeting) > 0
ASSUME NumbersAssumption == {Word, K, MaxSince} \subseteq Nat \ {0}

VARIABLES
  server,      \* "off", "up", "ended"
  client,      \* client[c]: "off", "connecting", "up", "freed", "ended"
  bev,         \* bev[c]: the server's end: "none", "queued", "up", "freed"
  sOut, cOut,  \* the output buffers of the two bufferevents of c
  s2c, c2s,    \* the bytes in the network, to the client and to the server
  total_size,
  since,       \* the bytes read since the last report (history)
  offset,      \* offset[c]: bytes read from c, modulo twice the greeting (history)
  shown        \* the last report

ringVars == <<sOut, cOut, s2c, c2s>>
countVars == <<total_size, since, shown>>
vars == <<server, client, bev, ringVars, countVars, offset>>

Reports == [unit : {"kb", "mb"}, total : Nat, rate : Nat, size : Nat]

(* Types; total_size is a size_t.                                           *)
TypeOK ==
  /\ server \in {"off", "up", "ended"}
  /\ client \in [Clients -> {"off", "connecting", "up", "freed", "ended"}]
  /\ bev \in [Clients -> {"none", "queued", "up", "freed"}]
  /\ \A b \in {sOut, cOut, s2c, c2s} : b \in [Clients -> Seq(ToSet(Greeting))]
  /\ total_size \in 0..(Word - 1)
  /\ since \in 0..MaxSince
  /\ offset \in [Clients -> 0..(2 * Len(Greeting) - 1)]
  /\ shown \in Reports

Empty == [c \in Clients |-> <<>>]

Init ==
  /\ server = "off"
  /\ client = [c \in Clients |-> "off"]
  /\ bev = [c \in Clients |-> "none"]
  /\ sOut = Empty /\ cOut = Empty /\ s2c = Empty /\ c2s = Empty
  /\ total_size = 0
  /\ since = 0
  /\ offset = [c \in Clients |-> 0]
  /\ shown = [unit |-> "kb", total |-> 0, rate |-> 0, size |-> 0]

Take(s, n) == SubSeq(s, 1, n)
Drop(s, n) == SubSeq(s, n + 1, Len(s))

(* Mutants: the input goes before the output, replaces it, is drained.      *)
evbuffer_add_buffer_first(output, input) == input \o output
evbuffer_add_buffer_only(output, input) == input
evbuffer_add_buffer_drained(output, input) == output

(* What both echo_read_cb do with what was read.                            *)
evbuffer_add_buffer(output, input) == output \o input

(* Mutants: the end of file is ignored; the buffers of every client go.     *)
bufferevent_free_ignored(ends, c) == ends
Discard_all(buffers, c) == Empty

(* What both echo_event_cb do: the bufferevent goes, and what it holds.     *)
bufferevent_free(ends, c) == [ends EXCEPT ![c] = "freed"]
Discard(buffers, c) == [buffers EXCEPT ![c] = <<>>]

-------------------------------------------------------------------------------
(* The server.                                                              *)

(* init_test_server: event_listener, or exit(1).                            *)
init_test_server ==
  /\ server = "off"
  /\ server' \in {"up", "ended"}
  /\ UNCHANGED <<client, bev, ringVars, countVars, offset>>

accept_conn_cb(c) ==
  /\ server = "up" /\ bev[c] = "queued"
  /\ bev' = [bev EXCEPT ![c] = "up"]
  /\ sOut' = [sOut EXCEPT ![c] = @ \o Greeting]
  /\ UNCHANGED <<server, client, cOut, s2c, c2s, countVars, offset>>

(* The loop writes as much of the output as the socket takes.               *)
ServerWrites(c, n) ==
  /\ server = "up" /\ bev[c] = "up"
  /\ s2c' = [s2c EXCEPT ![c] = @ \o Take(sOut[c], n)]
  /\ sOut' = [sOut EXCEPT ![c] = Drop(@, n)]
  /\ UNCHANGED <<server, client, bev, cOut, c2s, countVars, offset>>

AddSize(n) == (total_size + n) % Word

(* The loop fills the input and calls echo_read_cb, which counts it and     *)
(* moves it behind the output.                                              *)
server_echo_read_cb(c, n) ==
  /\ server = "up" /\ bev[c] = "up"
  /\ since + n <= MaxSince
  /\ total_size' = AddSize(n)
  /\ since' = since + n
  /\ sOut' = [sOut EXCEPT ![c] = evbuffer_add_buffer(@, Take(c2s[c], n))]
  /\ c2s' = [c2s EXCEPT ![c] = Drop(@, n)]
  /\ offset' = [offset EXCEPT ![c] = (@ + n) % (2 * Len(Greeting))]
  /\ UNCHANGED <<server, client, bev, cOut, s2c, shown>>

(* End of file, or an error: the bufferevent is freed with its output.      *)
server_echo_event_cb(c) ==
  /\ server = "up" /\ bev[c] = "up"
  /\ client[c] = "ended" /\ c2s[c] = <<>>
  /\ bev' = bufferevent_free(bev, c)
  /\ sOut' = Discard(sOut, c)
  /\ s2c' = Discard(s2c, c)
  /\ UNCHANGED <<server, client, cOut, c2s, countVars, offset>>

(* The figures timeout_cb prints for a number of bytes.                     *)
Report(size) ==
  LET kb == size \div K
      mb == kb \div K
  IN IF kb <= K THEN [unit |-> "kb", total |-> kb, rate |-> kb \div 5, size |-> size]
                ELSE [unit |-> "mb", total |-> mb, rate |-> mb \div 5, size |-> size]

(* Mutant: the count is not reset.                                          *)
timeout_cb_keeping ==
  /\ server = "up"
  /\ shown' = Report(total_size)
  /\ since' = 0
  /\ UNCHANGED <<server, client, bev, ringVars, offset, total_size>>

(* It prints, starts again from zero and sets the next timer.               *)
timeout_cb ==
  /\ server = "up"
  /\ shown' = Report(total_size)
  /\ total_size' = 0
  /\ since' = 0
  /\ UNCHANGED <<server, client, bev, ringVars, offset>>

(* accept_error_cb leaves the loop, or the process is killed: every end the *)
(* server has is closed; what is in the network may or may not arrive.      *)
ServerEnds(keep) ==
  /\ server = "up"
  /\ server' = "ended"
  /\ bev' = [c \in Clients |-> IF bev[c] = "none" THEN "none" ELSE "freed"]
  /\ sOut' = Empty
  /\ c2s' = Empty
  /\ s2c' = IF keep THEN s2c ELSE Empty
  /\ UNCHANGED <<client, cOut, countVars, offset>>

-------------------------------------------------------------------------------
(* The clients.                                                             *)

(* init_echo: bad arguments or event_connect fails, exit(1); or the         *)
(* connection is under way and the loop starts.                             *)
init_echo(c) ==
  /\ client[c] = "off"
  /\ \E next \in {"connecting", "ended"} : client' = [client EXCEPT ![c] = next]
  /\ UNCHANGED <<server, bev, ringVars, countVars, offset>>

(* The connection is made: the server finds it in its backlog.              *)
Connected(c) ==
  /\ client[c] = "connecting" /\ server = "up"
  /\ client' = [client EXCEPT ![c] = "up"]
  /\ bev' = [bev EXCEPT ![c] = "queued"]
  /\ UNCHANGED <<server, ringVars, countVars, offset>>

client_echo_read_cb(c, n) ==
  /\ client[c] = "up"
  /\ cOut' = [cOut EXCEPT ![c] = evbuffer_add_buffer(@, Take(s2c[c], n))]
  /\ s2c' = [s2c EXCEPT ![c] = Drop(@, n)]
  /\ UNCHANGED <<server, client, bev, sOut, c2s, countVars, offset>>

ClientWrites(c, n) ==
  /\ client[c] = "up" /\ bev[c] \in {"queued", "up"}
  /\ c2s' = [c2s EXCEPT ![c] = @ \o Take(cOut[c], n)]
  /\ cOut' = [cOut EXCEPT ![c] = Drop(@, n)]
  /\ UNCHANGED <<server, client, bev, sOut, s2c, countVars, offset>>

(* Refused, reset, or the end of what the server sent: the bufferevent is   *)
(* freed with whatever it still holds.                                      *)
client_echo_event_cb(c) ==
  /\ \/ client[c] = "connecting"
     \/ client[c] = "up" /\ bev[c] = "freed"
  /\ client' = bufferevent_free(client, c)
  /\ cOut' = Discard(cOut, c)
  /\ s2c' = Discard(s2c, c)
  /\ UNCHANGED <<server, bev, sOut, c2s, countVars, offset>>

(* Without a bufferevent event_base_dispatch has nothing left to wait for;  *)
(* init_echo returns, close_echo, and main ends.                            *)
close_echo(c) ==
  /\ client[c] = "freed"
  /\ client' = [client EXCEPT ![c] = "ended"]
  /\ UNCHANGED <<server, bev, ringVars, countVars, offset>>

(* The client is killed; what it has sent may arrive, or part of it.        *)
ClientKilled(c, n) ==
  /\ client[c] \in {"connecting", "up"}
  /\ client' = [client EXCEPT ![c] = "ended"]
  /\ cOut' = Discard(cOut, c)
  /\ s2c' = Discard(s2c, c)
  /\ c2s' = [c2s EXCEPT ![c] = Take(@, n)]
  /\ UNCHANGED <<server, bev, sOut, countVars, offset>>

-------------------------------------------------------------------------------

ServerLoop ==
  \/ timeout_cb
  \/ \E c \in Clients :
       \/ accept_conn_cb(c)
       \/ server_echo_event_cb(c)
       \/ \E n \in 1..Len(sOut[c]) : ServerWrites(c, n)
       \/ \E n \in 1..Len(c2s[c]) : server_echo_read_cb(c, n)

ClientLoop(c) ==
  \/ Connected(c)
  \/ client_echo_event_cb(c)
  \/ close_echo(c)
  \/ \E n \in 1..Len(s2c[c]) : client_echo_read_cb(c, n)
  \/ \E n \in 1..Len(cOut[c]) : ClientWrites(c, n)

Terminated ==
  /\ server = "ended" /\ \A c \in Clients : client[c] = "ended"
  /\ UNCHANGED vars

Next ==
  \/ init_test_server
  \/ ServerLoop
  \/ \E keep \in BOOLEAN : ServerEnds(keep)
  \/ \E c \in Clients : \/ init_echo(c)
                        \/ ClientLoop(c)
                        \/ \E n \in 0..Len(c2s[c]) : ClientKilled(c, n)
  \/ Terminated

Spec == Init /\ [][Next]_vars

(* An event loop serves every event that stays ready, its timer included,   *)
(* and TCP delivers.  Nobody has to start a program or to kill it.          *)
Fairness ==
  /\ WF_vars(timeout_cb)
  /\ \A c \in Clients :
       /\ WF_vars(accept_conn_cb(c))
       /\ WF_vars(server_echo_event_cb(c))
       /\ WF_vars(\E n \in 1..Len(sOut[c]) : ServerWrites(c, n))
       /\ WF_vars(\E n \in 1..Len(c2s[c]) : server_echo_read_cb(c, n))
       /\ WF_vars(Connected(c) \/ client_echo_event_cb(c))
       /\ WF_vars(close_echo(c))
       /\ WF_vars(\E n \in 1..Len(s2c[c]) : client_echo_read_cb(c, n))
       /\ WF_vars(\E n \in 1..Len(cOut[c]) : ClientWrites(c, n))

FairSpec == Spec /\ Fairness

-------------------------------------------------------------------------------

Linked(c) == client[c] = "up" /\ bev[c] = "up"

(* The bytes under way, in the order in which the server will read them.    *)
Ring(c) == c2s[c] \o cOut[c] \o s2c[c] \o sOut[c]

(* The i-th byte of the greeting repeated for ever, from what c has been    *)
(* read of it.                                                              *)
Expected(c, i) == Greeting[((offset[c] + i - 1) % Len(Greeting)) + 1]

(* Whatever the two loops and the network split and delay, the server reads *)
(* the greeting over and over: while both ends are there no byte is lost,   *)
(* doubled or overtaken, and what still arrives from a client that died is  *)
(* the right continuation.                                                  *)
InOrder ==
  \A c \in Clients :
    /\ Linked(c) => /\ Len(Ring(c)) = Len(Greeting)
                    /\ \A i \in 1..Len(Ring(c)) : Ring(c)[i] = Expected(c, i)
    /\ \A i \in 1..Len(c2s[c]) : c2s[c][i] = Expected(c, i)

(* A report is right to one of its units: no byte more than there were, and *)
(* less than a unit missing (timeout_cb of the test server).                *)
ReportAccurate ==
  LET unit == IF shown.unit = "kb" THEN K ELSE K * K IN
  /\ shown.total * unit <= shown.size
  /\ shown.size < (shown.total + 1) * unit
  /\ shown.rate * 5 <= shown.total
  /\ shown.unit = "kb" => shown.total <= K

(* Every byte read is in one report: total_size is what was read since the  *)
(* last one, from all clients, as far as a size_t holds it, and the report  *)
(* shows it (echo_read_cb and timeout_cb of the test server).               *)
CountedOnce == TypeOK /\ total_size = since % Word /\ ReportAccurate

(* The programs together are rings of bytes.                                *)
Rings == INSTANCE ByteRing WITH
  ring <- [c \in Clients |-> IF Linked(c) THEN Ring(c) ELSE <<>>],
  open <- [c \in Clients |->
             IF Linked(c) THEN "yes"
             ELSE IF bev[c] \in {"none", "queued"} /\ client[c] \in {"off", "connecting", "up"}
             THEN "no" ELSE "broken"]

RingsSpec == Rings!Spec

(* The bytes never come to rest while both ends are there.                  *)
KeepsTurning ==
  \A c \in Clients : \A k \in 0..(2 * Len(Greeting) - 1) :
    (Linked(c) /\ offset[c] = k) ~> (offset[c] # k \/ ~Linked(c))

(* When the server is gone every client that was started ends, with output  *)
(* left or in the middle of connecting; and the server frees its end of a   *)
(* client that is gone (the echo_event_cb of both programs).                *)
PeersEnd ==
  \A c \in Clients :
    /\ (server = "ended" /\ client[c] # "off") ~> client[c] = "ended"
    /\ (client[c] = "ended" /\ bev[c] \in {"queued", "up"}) ~> bev[c] = "freed"
===============================================================================
