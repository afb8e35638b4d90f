-------------------------------- MODULE Main --------------------------------
(***************************************************************************)
(* main.c and what it starts for -e and -s: the choice of the program, the *)
(* engine, init_echo or init_test_server with every failure on the way,    *)
(* the loop, the end function and close_engine.  (-h has the same life and *)
(* is in Httpd.)                                                           *)
(*                                                                         *)
(* An object is "none", "live" or "freed"; it becomes "corrupt" when it is *)
(* used while it is not live, as a NULL base would be.  Every step writes  *)
(* the log records the code writes there.                                  *)
(***************************************************************************)
EXTENDS LogUtil

\* No argument, an argument that is no option, -e alone, -e with an address, -s.
Commands == {"none", "bad", "-e", "-e addr", "-s"}

VARIABLES cmd, at, apr, pool, base, con
mainVars == <<cmd, at, apr, pool, base, con>>
lifeVars == <<mainVars, logVars>>

Echo == cmd \in {"-e", "-e addr"}
Use(o) == IF o = "live" THEN "live" ELSE "corrupt"

LifeInit ==
    /\ cmd \in Commands /\ at = "main"
    /\ apr = "none" /\ pool = "none" /\ base = "none" /\ con = "none"
    /\ LogInit

show_help ==
    /\ at = "main" /\ cmd \in {"none", "bad"}
    /\ at' = "returned"
    /\ UNCHANGED <<cmd, apr, pool, base, con>>
    /\ log_print

\* apr_initialize, and init_log, which exits when it cannot make its directory.
init_engine ==
    /\ at = "main" /\ cmd \notin {"none", "bad"}
    /\ apr' = "live"
    /\ at' \in {"start", "exited"}
    /\ UNCHANGED <<cmd, pool, base, con>>
    /\ IF at' = "exited" THEN log_print ELSE UNCHANGED logVars

\* init_echo up to its connection, and the same of init_test_server: the event
\* base may be NULL, which is left to event_connect and event_listener.
init_net_manager ==
    /\ at = "start" /\ Echo
    /\ IF cmd = "-e" THEN at' = "exited" /\ UNCHANGED pool
       ELSE at' = "init_event" /\ pool' = IF apr = "live" THEN "live" ELSE "corrupt"
    /\ UNCHANGED <<cmd, apr, base, con>>
    /\ IF at' = "exited" THEN log_print ELSE UNCHANGED logVars

init_event ==
    /\ at = IF Echo THEN "init_event" ELSE "start"
    /\ base' \in {"live", "none"}
    /\ at' = "open"
    /\ UNCHANGED <<cmd, apr, pool, con>>
    /\ UNCHANGED logVars

\* Mutant: a base that could not be made is used.
M_Open == /\ at = "open"
          /\ base' = Use(base)
          /\ con' \in {"live", "none"}
          /\ at' = IF con' = "live" THEN "loop" ELSE "exited"
          /\ UNCHANGED <<cmd, apr, pool>>
          /\ log_debug

\* event_connect or event_listener: NULL without a base, for an address that
\* cannot be parsed, without memory, and when the connection or the bind fails;
\* a connection made for nothing is freed.
Open ==
    /\ at = "open"
    /\ \/ /\ base = "none"
          /\ at' = "exited" /\ UNCHANGED <<base, con>>
       \/ /\ base # "none"
          /\ base' = Use(base)
          /\ con' \in IF Echo THEN {"live", "none", "freed"} ELSE {"live", "none"}
          /\ at' = IF con' = "live" THEN "loop" ELSE "exited"
    /\ UNCHANGED <<cmd, apr, pool>>
    /\ log_debug

\* The loop of -e ends when its one connection has been freed by echo_event_cb;
\* the loop of -s ends when the listener fails, and leaves it there.
\* net_del_connect finds nothing: nobody has called net_add_connect.
LoopEnds ==
    /\ at = "loop"
    /\ base' = Use(base)
    /\ con' = IF Echo THEN "freed" ELSE con
    /\ at' = "end_fun"
    /\ UNCHANGED <<cmd, apr, pool>>
    /\ IF Echo THEN log_debug ELSE UNCHANGED logVars

\* While the test server runs, its timer prints reports.
Report ==
    /\ at = "loop" /\ ~Echo
    /\ log_print
    /\ UNCHANGED mainVars

\* close_echo and close_test_server.
end_fun ==
    /\ at = "end_fun"
    /\ base' = IF base = "live" THEN "freed" ELSE "corrupt"
    /\ at' = "close_engine"
    /\ UNCHANGED <<cmd, apr, pool, con>>
    /\ UNCHANGED logVars

\* apr_terminate destroys the pools that are left; nobody calls close_net_manager.
close_engine ==
    /\ at = "close_engine"
    /\ apr' = "freed"
    /\ pool' = IF pool = "live" THEN "freed" ELSE pool
    /\ at' = "returned"
    /\ UNCHANGED <<cmd, base, con>>
    /\ UNCHANGED logVars

Over == at \in {"returned", "exited"} /\ UNCHANGED lifeVars

Step == \/ show_help \/ init_engine \/ init_net_manager \/ init_event \/ Open
        \/ LoopEnds \/ end_fun \/ close_engine
Clock == Tick /\ UNCHANGED mainVars
LifeNext == Step \/ Report \/ Clock \/ Over

LifeSpec == LifeInit /\ [][LifeNext]_lifeVars

----------------------------------------------------------------------------
(* Properties. *)

\* The pointer init_event returns is used by four functions and checked by two
\* of them; no path reaches a use with NULL or after the free, and no pool is
\* made before apr_initialize or outlives apr_terminate (event_connect,
\* event_listener, init_echo, init_test_server, close_echo, close_engine).
\* Returning 0 means that nothing was started, or that what was started has
\* been taken down; a failure in between never returns 0 (main).
UsedWhileLive ==
    /\ "corrupt" \notin {base, pool, con}
    /\ (pool = "live" => apr = "live")
    /\ at = "returned" =>
         IF cmd \in {"none", "bad"} THEN {apr, pool, base, con} = {"none"}
         ELSE apr = "freed" /\ base = "freed" /\ pool # "live"
============================================================================
