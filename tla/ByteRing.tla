------------------------------- MODULE ByteRing -------------------------------
(***************************************************************************)
(* What the test server and its echo clients do together: on each          *)
(* connection the greeting goes round and round.  Nothing is seen of a ring *)
(* but the bytes on it, in the order in which the server will read them.    *)
(***************************************************************************)
EXTENDS Integers, Sequences

CONSTANTS Clients,
          Greeting   \* the bytes the server sends to a new client

VARIABLES ring,      \* ring[c]: the bytes under way, the next to be read first
          open       \* open[c]: "no", "yes", "broken"

vars == <<ring, open>>

Init ==
  /\ ring = [c \in Clients |-> <<>>]
  /\ open = [c \in Clients |-> "no"]

Start(c) ==
  /\ open[c] = "no"
  /\ ring' = [ring EXCEPT ![c] = Greeting]
  /\ open' = [open EXCEPT ![c] = "yes"]

(* The server reads the next n bytes and queues them behind the others.     *)
Turn(c, n) ==
  /\ open[c] = "yes"
  /\ ring' = [ring EXCEPT ![c] = SubSeq(@, n + 1, Len(@)) \o SubSeq(@, 1, n)]
  /\ UNCHANGED open

(* One end is gone; a ring never opens again.                               *)
Break(S) ==
  /\ ring' = [c \in Clients |-> IF c \in S THEN <<>> ELSE ring[c]]
  /\ open' = [c \in Clients |-> IF c \in S THEN "broken" ELSE open[c]]

Next ==
  \/ \E c \in Clients : \/ Start(c)
                        \/ \E n \in 1..Len(ring[c]) : Turn(c, n)
  \/ \E S \in SUBSET Clients : Break(S)

Spec == Init /\ [][Next]_vars
===============================================================================
