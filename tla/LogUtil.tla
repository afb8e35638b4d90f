------------------------------ MODULE LogUtil -------------------------------
(***************************************************************************)
(* log.c with evbuffer_write_to_file of buffer_util.c: what is printed,    *)
(* what is appended to a log file, and the time stamps, which come from a  *)
(* static buffer that is formatted anew only when the second has changed.  *)
(*                                                                         *)
(* The clock moves in any direction (somebody sets it).  written and       *)
(* printed hold, for each record, its stamp and the time it was made at.   *)
(***************************************************************************)
EXTENDS Integers, Sequences

CONSTANTS Times,          \* the seconds time() may return; 0 is not among them
          MaxRecords      \* records kept of each kind
ASSUME TimesAssumption == Times \subseteq Nat \ {0}

VARIABLES now, last_time, buffer, written, printed
logVars == <<now, last_time, buffer, written, printed>>

LogInit ==
    /\ now \in Times /\ last_time = 0 /\ buffer = 0
    /\ written = <<>> /\ printed = <<>>

Tick == now' \in Times /\ UNCHANGED <<last_time, buffer, written, printed>>

\* Mutant: a clock that was set back leaves the old text in use.
M__make_datetime ==
    /\ buffer' = IF last_time < now THEN now ELSE buffer
    /\ last_time' = now

\* Where it is used the primed buffer is what it returns.
_make_datetime ==
    /\ buffer' = IF last_time # now THEN now ELSE buffer
    /\ last_time' = now

Stamped == [stamp |-> buffer', made |-> now]

\* evbuffer_write_to_file: the whole record at the end of the file, or, when the
\* file cannot be opened or the buffer not be made contiguous, nothing.
evbuffer_write_to_file(r) == written' \in {Append(written, r), written}

log_print ==
    /\ Len(printed) < MaxRecords
    /\ _make_datetime
    /\ printed' = Append(printed, Stamped)
    /\ UNCHANGED <<now, written>>

\* log_debug prints and then calls log_file_with_time, which makes its stamp
\* again and does nothing at all without memory for its buffer.
log_debug ==
    /\ Len(printed) < MaxRecords /\ Len(written) < MaxRecords
    /\ _make_datetime
    /\ printed' = Append(printed, Stamped)
    /\ \/ evbuffer_write_to_file(Stamped)
       \/ UNCHANGED written
    /\ UNCHANGED now

----------------------------------------------------------------------------
(* Properties. *)

\* The cached text is never that of another second, also when the clock has
\* been set back (_make_datetime).
StampsAreTrue ==
    \A r \in {written[n] : n \in DOMAIN written} \union {printed[n] : n \in DOMAIN printed} :
        r.stamp = r.made
============================================================================
