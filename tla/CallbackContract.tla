--------------------------- MODULE CallbackContract ---------------------------
(***************************************************************************)
(* What http.get and http.post promise the script that calls them          *)
(* (src/src/program/httpd/httpd.c).  A call is either refused, and then     *)
(* nothing is kept for it and nothing is ever called back, or accepted, and *)
(* then the callback record (the names of the Lua table and function) is    *)
(* held until the callback has run, which happens at most once.             *)
(* Callbacks nest: a callback that starts inside another one ends first.    *)
(***************************************************************************)
EXTENDS Sequences, SequencesExt

CONSTANT Out        \* the calls made during the life of the process

VARIABLES st,       \* where each call stands
          held,     \* held[o]: the callback record of o is allocated
          nest,     \* the callbacks in progress, innermost last
          stopped   \* the process has ended, one way or the other

vars == <<st, held, nest, stopped>>

TypeOK ==
  /\ st \in [Out -> {"unused", "refused", "accepted", "running", "finished"}]
  /\ held \in [Out -> BOOLEAN]
  /\ nest \in Seq(Out)
  /\ stopped \in BOOLEAN

Init ==
  /\ st = [o \in Out |-> "unused"]
  /\ held = [o \in Out |-> FALSE]
  /\ nest = <<>>
  /\ stopped = FALSE

Refuse(o) ==
  /\ st[o] = "unused"
  /\ st' = [st EXCEPT ![o] = "refused"]
  /\ UNCHANGED <<held, nest, stopped>>

Accept(o) ==
  /\ st[o] = "unused"
  /\ st' = [st EXCEPT ![o] = "accepted"]
  /\ held' = [held EXCEPT ![o] = TRUE]
  /\ UNCHANGED <<nest, stopped>>

(* The answer is there: its callback starts, between two other callbacks.   *)
Run(o) ==
  /\ st[o] = "accepted"
  /\ nest = <<>>
  /\ st' = [st EXCEPT ![o] = "running"]
  /\ nest' = <<o>>
  /\ UNCHANGED <<held, stopped>>

(* The callback may also start before the call that asked for it returns.   *)
AcceptAndRun(o) ==
  /\ st[o] = "unused"
  /\ st' = [st EXCEPT ![o] = "running"]
  /\ held' = [held EXCEPT ![o] = TRUE]
  /\ nest' = Append(nest, o)
  /\ UNCHANGED stopped

Finish(o) ==
  /\ st[o] = "running"
  /\ nest # <<>>
  /\ o = Last(nest)
  /\ st' = [st EXCEPT ![o] = "finished"]
  /\ held' = [held EXCEPT ![o] = FALSE]
  /\ nest' = Front(nest)
  /\ UNCHANGED stopped

(* The process ends; whatever was still held goes with it.                  *)
Stop ==
  /\ stopped' = TRUE
  /\ UNCHANGED <<st, nest>>
  /\ \/ UNCHANGED held
     \/ held' = [o \in Out |-> FALSE]

Next ==
  /\ ~stopped
  /\ \/ Stop
     \/ \E o \in Out : \/ Refuse(o) \/ Accept(o) \/ Run(o)
                       \/ AcceptAndRun(o) \/ Finish(o)

Spec == Init /\ [][Next]_vars
===============================================================================
