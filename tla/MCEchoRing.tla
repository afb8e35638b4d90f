------------------------------ MODULE MCEchoRing ------------------------------
(* Instances of EchoRing for TLC.                                           *)
EXTENDS EchoRing

CONSTANTS c1, c2

OneClient == {c1}

ThreeBytes == <<"z", "h", "e">>

===============================================================================
