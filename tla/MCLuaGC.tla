------------------------------- MODULE MCLuaGC --------------------------------
(* Heaps for LuaGC: what may be allocated besides the main thread and the    *)
(* registry.  A behaviour has one of the heaps of which.                     *)
EXTENDS LuaGC, TLC

CONSTANTS t1, u1, u2, s1, f1, v1, c1

VARIABLE which

(* The objects of the configuration. *)
KindOf ==
  (Main :> "thread" @@ Registry :> "table" @@ t1 :> "table" @@ u1 :> "udata" @@ u2 :> "udata"
    @@ s1 :> "string" @@ f1 :> "func" @@ v1 :> "upval" @@ c1 :> "thread")
KindOfObj == [o \in Obj |-> KindOf[o]]
ModesNone == {{}}
ModesOne == {{}, {"k"}, {"v"}}

(* A userdata and a table; closures that share locals with a coroutine; a    *)
(* string in tables with weak values; a userdata created, and a collection   *)
(* begun, while another userdata waits for its finalizer.                   *)
ObjectsOf == [udata |-> {t1, u1}, closures |-> {f1, v1, c1}, strings |-> {t1, s1},
              waiting |-> {t1, u1, u2}]
ModeOf == [udata |-> {"k"}, closures |-> {}, strings |-> {"v"}, waiting |-> {"k"}]

(* What the scripts of a heap do: closures have locals and no tables; only   *)
(* those with strings set the metatable of a type; only those with strings   *)
(* or a waiting userdata call collectgarbage.                               *)
Within ==
  /\ alloc \subseteq {Main, Registry} \cup ObjectsOf[which]
  /\ \A o \in Obj : mode[o] \subseteq ModeOf[which]
  /\ CASE which = "closures" -> tab = [o \in Obj |-> EmptyTable]
       [] which = "waiting" -> \A s \in Slots \ {Temp} : stk[Main][s] \in {Nil, u1}
       [] OTHER -> \A o \in Obj, s \in Slots \ {Temp} : stk[o][s] = Nil
  /\ which # "strings" => mt = Nil
  /\ which \in {"udata", "closures"} => full = "no"

(* While a userdata waits: the table is weak-keyed, is the environment of    *)
(* the first userdata and has it as its only key, and the globals hold no    *)
(* more than the table.                                                     *)
Arranged ==
  /\ alloc \cap {u1, u2} \subseteq hasgc
  /\ u1 \in alloc \/ tab[t1] # EmptyTable => mode[t1] = {"k"} \/ t1 \notin alloc
  /\ \A o \in Obj \ {u1} : link[o] = {}
  /\ \A k \in Keys : tab[Registry][k] \in Obj => k = Array /\ tab[Registry][k] = t1
  /\ \A k \in Keys : tab[t1][k] \in Obj => k = u1 /\ tab[t1][k] # u1

(* Meanwhile a script gets hold of it again, makes the second userdata and   *)
(* collects.                                                                *)
Meanwhile ==
  /\ u2 \in alloc' \ alloc => u1 \in tmudata
  /\ full # "sweeping" /\ full' = "sweeping" => u1 \in tmudata /\ u2 \in alloc
  /\ \A s \in Slots \ {Temp} : stk[Main][s] = Nil /\ stk'[Main][s] = u1 => u1 \in tmudata

HeapsInit == Init /\ which \in DOMAIN ObjectsOf
HeapsNext ==
  /\ Next /\ UNCHANGED which /\ Within'
  /\ which = "waiting" => Arranged' /\ Meanwhile
HeapsSpec == HeapsInit /\ [][HeapsNext]_<<vars, which>>

(* The heap of the configuration only, with a collector that goes on. *)
OneHeap == /\ which = "udata" /\ Init
           /\ [][Next /\ UNCHANGED which]_<<vars, which>>
           /\ WF_<<vars, which>>(singlestep /\ UNCHANGED which)
================================================================================
