------------------------------ MODULE MCProgram -------------------------------
(***************************************************************************)
(* The parts of the program that share no state, checked side by side:     *)
(* HttpHandler, LuaFrame, Main, and EchoRing with two clients.  A behaviour *)
(* is one of the part it begins with; the others stay where they start.    *)
(***************************************************************************)
EXTENDS MCHttpHandler, LuaFrame, Main

CONSTANTS Clients, Word, K, MaxSince

VARIABLES part,
          server, client, bev, sOut, cOut, s2c, c2s, total_size, since, offset, shown

MCReturns == {"table", "true", "false", "userdata", "error"}
MCFound == {"table", "function"}
MCOutcomes ==
  {[error |-> TRUE, values |-> <<>>], [error |-> FALSE, values |-> <<>>],
   [error |-> FALSE, values |-> <<CVal("true", "script"), CVal("text", "script")>>]}

Ring == INSTANCE EchoRing WITH Greeting <- <<"z", "h">>

ringVars == <<server, client, bev, sOut, cOut, s2c, c2s, total_size, since, offset, shown>>
partVars == <<part, vars, frameVars, lifeVars, ringVars>>

PartsInit ==
  /\ part \in {"handling", "frame", "life", "ring"}
  /\ Init /\ FrameInit /\ LifeInit /\ Ring!Init
  /\ part # "handling" => handler = "nil"
  /\ part # "life" => cmd = "none" /\ now = 1

PartsNext ==
  \/ part = "handling" /\ Next /\ UNCHANGED <<part, frameVars, lifeVars, ringVars>>
  \/ part = "frame" /\ FrameNext /\ UNCHANGED <<part, vars, lifeVars, ringVars>>
  \/ part = "life" /\ LifeNext /\ UNCHANGED <<part, vars, frameVars, ringVars>>
  \/ part = "ring" /\ Ring!Next /\ UNCHANGED <<part, vars, frameVars, lifeVars>>

PartsSpec == PartsInit /\ [][PartsNext]_partVars

-------------------------------------------------------------------------------

(* EchoRing with two clients: neither takes or counts what belongs to the   *)
(* other (the total_size they share, and their buffers).                    *)
ClientsApart == Ring!InOrder /\ Ring!CountedOnce
===============================================================================
