----------------------------- MODULE MainProofs -----------------------------
(***************************************************************************)
(* The life of main.c and the stamps of log.c, for every set of times and  *)
(* every number of log records.                                            *)
(***************************************************************************)
EXTENDS Main, SequenceTheorems, TLAPS

Objects == {"none", "live", "freed"}
Places == {"main", "start", "init_event", "open", "loop", "end_fun", "close_engine",
           "returned", "exited"}

\* What exists at each place of main and of the functions it calls.
LifeInv ==
    /\ cmd \in Commands /\ at \in Places
    /\ apr \in Objects /\ pool \in Objects /\ base \in Objects /\ con \in Objects
    /\ at = "main" => apr = "none" /\ pool = "none" /\ base = "none" /\ con = "none"
    /\ at \notin {"main", "returned"} => apr = "live" /\ cmd \notin {"none", "bad"}
    /\ at \in {"loop", "end_fun"} => base = "live"
    /\ at = "close_engine" => base = "freed"
    /\ at = "open" => base \in {"live", "none"}
    /\ at = "returned" =>
         IF cmd \in {"none", "bad"}
         THEN apr = "none" /\ pool = "none" /\ base = "none" /\ con = "none"
         ELSE apr = "freed" /\ base = "freed" /\ pool # "live"

TrueRecord == {r \in [stamp : Times, made : Times] : r.stamp = r.made}

\* The text in the static buffer is that of last_time; nothing else is needed
\* of it, because now is never compared with anything but last_time.
LogInv ==
    /\ now \in Times
    /\ buffer = last_time
    /\ written \in Seq(TrueRecord) /\ printed \in Seq(TrueRecord)

----------------------------------------------------------------------------

\* Every path of main from the choice of the program to its return keeps the
\* table of objects (main, init_engine, init_echo, init_test_server).
LEMMA LifeStarts == LifeInit => LifeInv
BY DEF LifeInit, LifeInv, Places, Objects, Commands

LEMMA LifeStep == ASSUME LifeInv, [LifeNext]_lifeVars PROVE LifeInv'
<1>1. CASE show_help  BY <1>1 DEF LifeInv, show_help, Places, Objects, Commands
<1>2. CASE init_engine  BY <1>2 DEF LifeInv, init_engine, Places, Objects, Commands
<1>3. CASE init_net_manager
  BY <1>3 DEF LifeInv, init_net_manager, Echo, Places, Objects, Commands
<1>4. CASE init_event  BY <1>4 DEF LifeInv, init_event, Echo, Places, Objects, Commands
<1>5. CASE Open  BY <1>5 DEF LifeInv, Open, Use, Echo, Places, Objects, Commands
<1>6. CASE LoopEnds  BY <1>6 DEF LifeInv, LoopEnds, Use, Echo, Places, Objects, Commands
<1>7. CASE end_fun  BY <1>7 DEF LifeInv, end_fun, Places, Objects, Commands
<1>8. CASE close_engine  BY <1>8 DEF LifeInv, close_engine, Places, Objects, Commands
<1>9. CASE UNCHANGED mainVars  BY <1>9 DEF LifeInv, mainVars
<1> QED
  BY <1>1, <1>2, <1>3, <1>4, <1>5, <1>6, <1>7, <1>8, <1>9
  DEF LifeNext, Step, Report, Clock, Over, lifeVars

----------------------------------------------------------------------------

LEMMA LogStarts == LogInit => LogInv
BY DEF LogInit, LogInv

\* _make_datetime leaves the text of the present second in the buffer, whether
\* it formats it or not.
LEMMA Restamped ==
  ASSUME LogInv, _make_datetime
  PROVE  buffer' = now /\ last_time' = now /\ Stamped \in TrueRecord
BY DEF LogInv, _make_datetime, Stamped, TrueRecord

LEMMA Printed == ASSUME LogInv, log_print PROVE LogInv'
<1>1. _make_datetime /\ now' = now /\ written' = written
  BY DEF log_print
<1>2. buffer' = now /\ last_time' = now /\ Stamped \in TrueRecord
  BY <1>1, Restamped
<1>3. printed' \in Seq(TrueRecord)
  BY <1>2, AppendProperties DEF log_print, LogInv
<1> QED  BY <1>1, <1>2, <1>3 DEF LogInv

LEMMA Debugged == ASSUME LogInv, log_debug PROVE LogInv'
<1>1. _make_datetime /\ now' = now
  BY DEF log_debug
<1>2. buffer' = now /\ last_time' = now /\ Stamped \in TrueRecord
  BY <1>1, Restamped
<1>3. printed' \in Seq(TrueRecord)
  BY <1>2, AppendProperties DEF log_debug, LogInv
<1>4. Append(written, Stamped) \in Seq(TrueRecord)
  BY <1>2, AppendProperties DEF LogInv
<1>5. written' \in Seq(TrueRecord)
  BY <1>4 DEF log_debug, evbuffer_write_to_file, LogInv
<1> QED  BY <1>1, <1>2, <1>3, <1>5 DEF LogInv

LEMMA LogStep == ASSUME LogInv, [LifeNext]_lifeVars PROVE LogInv'
<1>1. CASE UNCHANGED logVars  BY <1>1 DEF LogInv, logVars
<1>2. CASE Tick  BY <1>2 DEF LogInv, Tick
<1>3. CASE log_print  BY <1>3, Printed
<1>4. CASE log_debug  BY <1>4, Debugged
<1> QED
  BY <1>1, <1>2, <1>3, <1>4
  DEF LifeNext, Step, show_help, init_engine, init_net_manager, init_event, Open, LoopEnds,
      Report, end_fun, close_engine, Clock, Over, lifeVars

----------------------------------------------------------------------------
(* Theorems. *)

\* Whatever fails on the way, main uses the event base only while it is there,
\* makes no pool before apr_initialize and leaves none after apr_terminate, and
\* returns 0 only with nothing started or everything taken down (main,
\* init_echo, init_test_server, close_echo, close_test_server, close_engine).
THEOREM ObjectsUsedWhileLive == LifeSpec => []UsedWhileLive
<1>1. LifeInv => UsedWhileLive
  BY DEF LifeInv, UsedWhileLive, Objects, Places
<1> QED  BY <1>1, LifeStarts, LifeStep, PTL DEF LifeSpec

\* No log record, printed or in a file, carries the text of another second,
\* however the clock moves between the records (_make_datetime, log_print,
\* log_debug, log_file_with_time).
THEOREM RecordsAreStamped == LifeSpec => []StampsAreTrue
<1>1. LogInv => StampsAreTrue
  BY DEF LogInv, StampsAreTrue, TrueRecord
<1>2. LifeInit => LogInv
  BY LogStarts DEF LifeInit
<1> QED  BY <1>1, <1>2, LogStep, PTL DEF LifeSpec
============================================================================
