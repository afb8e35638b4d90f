----------------------------- MODULE LuaGCProofs ------------------------------
(***************************************************************************)
(* Proofs about LuaGC, for any heap: nothing that is alive refers to what   *)
(* has been freed or is about to be.                                        *)
(***************************************************************************)
EXTENDS LuaGC, TLAPS

\* What scripts can hold: everything but upvalues.
Values == {o \in Obj : kind[o] # "upval"}

\* The kinds of objects that wait in the gray lists.
Traversable == {o \in Obj : kind[o] \in {"table", "func", "thread"}}

Colors == {"white", "dead", "gray", "black"}

\* Where uv->v points, on any stacks.
ValueOf(u, st, op, vl) == IF op[u] = NotOpen THEN vl[u] ELSE st[op[u][1]][op[u][2]]

\* o refers to r, weakly or not, or lets a script read it.
Points(o, r, tb, lk, st, op, vl) ==
  \/ r \in lk[o]
  \/ kind[o] = "table" /\ r \in Keys /\ tb[o][r] \in Obj
  \/ kind[o] = "table" /\ \E k \in Keys : tb[o][k] = r
  \/ kind[o] = "thread" /\ (r = Registry \/ \E s \in Slots : st[o][s] = r)
  \/ kind[o] = "upval" /\ r = ValueOf(o, st, op, vl)
  \/ kind[o] = "func" /\ \E u \in lk[o] : kind[u] = "upval" /\ r = ValueOf(u, st, op, vl)

\* What a black object may not hold white.
Holds(o, r, tb, lk, st, op, vl) ==
  \/ r \in lk[o]
  \/ kind[o] = "table" /\ r \in Keys /\ tb[o][r] # NoKey
  \/ kind[o] = "table" /\ \E k \in Keys : tb[o][k] = r
  \/ kind[o] = "upval" /\ r = ValueOf(o, st, op, vl)

\* The objects that are alive.
Alive(al, col) == {o \in al : col[o] # "dead"}

Sound(al, col, tb, lk, st, op, vl) ==
  \A o \in Alive(al, col), r \in Obj : Points(o, r, tb, lk, st, op, vl) => r \in Alive(al, col)

Settled(col, tm, tb, lk, st, op, vl) ==
  \A o \in Obj \ tm, r \in Obj :
    col[o] = "black" /\ Holds(o, r, tb, lk, st, op, vl) => col[r] \in {"gray", "black"}

-------------------------------------------------------------------------------
(* The invariant *)

TypesOK ==
  /\ alloc \subseteq Obj
  /\ color \in [Obj -> Colors]
  /\ tab \in [Obj -> [Keys -> Values \cup {Nil, NoKey}]]
  /\ mode \in [Obj -> SUBSET {"k", "v"}]
  /\ link \in [Obj -> SUBSET Obj]
  /\ open \in [Obj -> {NotOpen} \cup (Obj \X Slots)]
  /\ val \in [Obj -> Values \cup {Nil}]
  /\ stk \in [Obj -> [Slots -> Values \cup {Nil}]]
  /\ mt \in Values \cup {Nil}
  /\ running \in Obj /\ kind[running] = "thread"
  /\ gcstate \in {"pause", "propagate", "sweepstring", "sweep", "finalize"}
  /\ full \in {"no", "sweeping", "marking"}

\* Upvalues are open in threads; only functions hold upvalues.
LinksOK(al, lk, op) ==
  \A o \in Obj :
    /\ op[o] # NotOpen => kind[o] = "upval" /\ kind[op[o][1]] = "thread" /\ op[o][1] \in al
    /\ kind[o] \notin {"table", "func", "udata"} => lk[o] = {}
    /\ kind[o] # "func" => lk[o] \subseteq Values

\* What has been freed holds nothing.
FreshOK(al, col, tb, lk, st, op) ==
  \A o \in Obj \ al : /\ tb[o] = EmptyTable /\ lk[o] = {} /\ st[o] = EmptyStack
                      /\ op[o] = NotOpen /\ col[o] = "white"

\* The colours that objects of a kind have.
ColorsOK(al, col, op, tm) ==
  /\ tm \subseteq {o \in al : kind[o] = "udata"}
  /\ \A o \in Obj : /\ kind[o] \in {"string", "thread"} => col[o] # "black"
                    /\ kind[o] = "udata" => col[o] # "gray"
                    /\ op[o] # NotOpen => col[o] # "black"
                    /\ o \in tm => col[o] # "dead"

\* The roots are alive.
RootsOK(al, col, m, rn) == ({Main, Registry, m, rn} \ {Nil}) \subseteq Alive(al, col)

\* The lists are apart, and what is on them is gray.
ListsOK(col, gr, ga, wk) ==
  /\ gr \cap ga = {} /\ gr \cap wk = {} /\ ga \cap wk = {}
  /\ \A o \in gr \cup ga \cup wk : o \in Traversable /\ col[o] = "gray"

\* Whatever is gray will be traversed, or be looked at by remarkupvals.
WaitsOK(col, op, gr, ga, wk) ==
  \A o \in Obj : col[o] = "gray" =>
     \/ o \in gr \cup ga \cup wk
     \/ kind[o] = "string"
     \/ op[o] # NotOpen

MarkingOK(col, tm, gr, ga, wk, tb, lk, st, op, vl) ==
  /\ \A o \in Obj : col[o] # "dead"
  /\ Settled(col, tm, tb, lk, st, op, vl)
  /\ WaitsOK(col, op, gr, ga, wk)
  /\ {col[Main], col[Registry]} \subseteq {"gray", "black"}

\* What is still to be swept: open upvalues are swept with their threads.
Unswept(o, op, ss, sg) ==
  o \in ss \cup sg \/ (op[o] # NotOpen /\ op[o][1] \in sg)

\* Only what is still to be swept has a mark.
SweepingOK(al, col, op, tm, ss, sg) ==
  /\ ss \subseteq {o \in al : kind[o] = "string"}
  /\ sg \subseteq {o \in al : kind[o] # "string" /\ op[o] = NotOpen /\ o \notin tm}
  /\ \A o \in Obj \ tm : col[o] # "white" => Unswept(o, op, ss, sg)

GCInv ==
  /\ TypesOK
  /\ LinksOK(alloc, link, open)
  /\ FreshOK(alloc, color, tab, link, stk, open)
  /\ ColorsOK(alloc, color, open, tmudata)
  /\ RootsOK(alloc, color, mt, running)
  /\ Sound(alloc, color, tab, link, stk, open, val)
  /\ ListsOK(color, gray, grayagain, weak)
  /\ gcstate = "propagate" =>
        /\ MarkingOK(color, tmudata, gray, grayagain, weak, tab, link, stk, open, val)
        /\ sweepstr = {} /\ sweepgc = {}
  /\ gcstate # "propagate" =>
        /\ SweepingOK(alloc, color, open, tmudata, sweepstr, sweepgc)
        /\ gray = {} /\ grayagain = {} /\ weak = {}
  /\ gcstate \in {"pause", "finalize"} => sweepgc = {}
  /\ gcstate # "sweepstring" => sweepstr = {}

-------------------------------------------------------------------------------
(* Marking *)

\* Closure is the smallest set around S that E does not lead out of.
LEMMA ClosureFacts ==
  ASSUME NEW S \in SUBSET Obj, NEW E \in [Obj -> SUBSET Obj]
  PROVE  /\ S \subseteq Closure(S, E) /\ Closure(S, E) \subseteq Obj
         /\ \A p \in Closure(S, E) : E[p] \subseteq Closure(S, E)
         /\ \A Y \in SUBSET Obj : S \subseteq Y /\ (\A p \in Y : E[p] \subseteq Y)
                                    => Closure(S, E) \subseteq Y
<1> DEFINE X1 == Grow(S, E)
           X2 == Grow(X1, E)
           X == Grow(X2, E)
           I == {o \in Obj : \A Y \in SUBSET Obj : S \subseteq Y /\ Closed(Y, E) => o \in Y}
<1>1. ASSUME NEW Z \in SUBSET Obj
      PROVE  /\ Z \subseteq Grow(Z, E) /\ Grow(Z, E) \in SUBSET Obj
             /\ \A Y \in SUBSET Obj : Z \subseteq Y /\ Closed(Y, E) => Grow(Z, E) \subseteq Y
  BY DEF Grow, Closed
<1>2. /\ S \subseteq X /\ X \in SUBSET Obj
      /\ \A Y \in SUBSET Obj : S \subseteq Y /\ Closed(Y, E) => X \subseteq Y
  <2>1. S \subseteq X1 /\ X1 \in SUBSET Obj
        /\ \A Y \in SUBSET Obj : S \subseteq Y /\ Closed(Y, E) => X1 \subseteq Y
    BY <1>1
  <2>2. S \subseteq X2 /\ X2 \in SUBSET Obj
        /\ \A Y \in SUBSET Obj : S \subseteq Y /\ Closed(Y, E) => X2 \subseteq Y
    <3> HIDE DEF X1
    <3> QED
      BY <1>1, <2>1
  <2> HIDE DEF X2
  <2> QED
    BY <1>1, <2>2
<1>3. Closure(S, E) = IF Closed(X, E) THEN X ELSE I
  BY DEF Closure
<1> HIDE DEF X
<1>4. S \subseteq I /\ I \subseteq Obj /\ (\A p \in I : E[p] \subseteq I)
      /\ \A Y \in SUBSET Obj : S \subseteq Y /\ Closed(Y, E) => I \subseteq Y
  BY DEF Closed
<1>5. \A Y \in SUBSET Obj : Closed(Y, E) <=> \A p \in Y : E[p] \subseteq Y
  BY DEF Closed
<1> HIDE DEF I
<1>6. CASE Closed(X, E)
  BY <1>2, <1>3, <1>5, <1>6
<1>7. CASE ~Closed(X, E)
  BY <1>3, <1>4, <1>5, <1>7
<1> QED
  BY <1>6, <1>7

\* The links of an object have their kinds.
LEMMA Shapes ==
  ASSUME GCInv, NEW o \in Obj
  PROVE  /\ kind[o] \in {"table", "udata", "func", "upval", "thread", "string"}
         /\ link[o] \subseteq Obj /\ (kind[o] # "func" => link[o] \subseteq Values)
         /\ (kind[o] \in {"upval", "thread", "string"} => link[o] = {})
         /\ \A k \in Keys : tab[o][k] \in Values \cup {Nil, NoKey}
         /\ \A s \in Slots : stk[o][s] \in Values \cup {Nil}
         /\ val[o] \in Values \cup {Nil}
         /\ open[o] # NotOpen => /\ kind[o] = "upval" /\ open[o][1] \in alloc /\ open[o][1] \in Obj
                                 /\ kind[open[o][1]] = "thread" /\ open[o][2] \in Slots
                                 /\ o \in alloc
<1>1. /\ link[o] \in SUBSET Obj /\ tab[o] \in [Keys -> Values \cup {Nil, NoKey}]
      /\ stk[o] \in [Slots -> Values \cup {Nil}] /\ val[o] \in Values \cup {Nil}
      /\ open[o] \in {NotOpen} \cup (Obj \X Slots)
  BY DEF GCInv, TypesOK
<1>2. kind[o] \in {"table", "udata", "func", "upval", "thread", "string"}
  BY HeapAssumption
<1>3. /\ open[o] # NotOpen => kind[o] = "upval" /\ kind[open[o][1]] = "thread" /\ open[o][1] \in alloc
      /\ kind[o] \notin {"table", "func", "udata"} => link[o] = {}
      /\ kind[o] # "func" => link[o] \subseteq Values
  BY DEF GCInv, LinksOK
<1>4. o \notin alloc => open[o] = NotOpen
  BY DEF GCInv, FreshOK
<1> QED
  BY <1>1, <1>2, <1>3, <1>4

\* Where an upvalue points.
LEMMA UpvalueFacts ==
  ASSUME GCInv, NEW u \in Obj
  PROVE  /\ UpvalValue(u) = ValueOf(u, stk, open, val)
         /\ UpvalValue(u) \in Values \cup {Nil}
<1>1. UpvalValue(u) = ValueOf(u, stk, open, val)
  BY DEF UpvalValue, ValueOf
<1>2. CASE open[u] = NotOpen
  BY <1>1, <1>2, Shapes DEF UpvalValue
<1>3. CASE open[u] # NotOpen
  <2>1. open[u][1] \in Obj /\ open[u][2] \in Slots
    BY <1>3, Shapes
  <2>2. stk[open[u][1]][open[u][2]] \in Values \cup {Nil}
    BY <2>1, Shapes
  <2> QED
    BY <1>1, <1>3, <2>2 DEF UpvalValue
<1> QED
  BY <1>2, <1>3

\* What a traversal marks is referred to.
LEMMA EdgesFacts ==
  ASSUME GCInv, NEW o \in Obj
  PROVE  /\ Edges(o) \subseteq Obj
         /\ \A r \in Edges(o) : Points(o, r, tab, link, stk, open, val)
         /\ kind[o] # "thread" => \A r \in Edges(o) : Holds(o, r, tab, link, stk, open, val)
         /\ kind[o] = "upval" => Edges(o) = {UpvalValue(o)} \ {Nil}
         /\ kind[o] \in {"udata", "func", "string"} => Edges(o) = link[o]
         /\ kind[o] \in {"udata", "upval", "thread", "string"} => Edges(o) \subseteq Values
<1>1. CASE kind[o] = "table"
  <2>1. Edges(o) = traversetable(o) \ {Nil}
    BY <1>1 DEF Edges
  <2>2. \A k \in Keys : tab[o][k] \in Obj => tab[o][k] # NoKey /\ tab[o][k] # Nil
    BY HeapAssumption
  <2>3. ASSUME NEW r \in Edges(o)
        PROVE  /\ r \in Obj
               /\ r \in link[o] \/ (r \in Keys /\ tab[o][r] \in Obj) \/ \E k \in Keys : tab[o][k] = r
    BY <2>1, Shapes DEF traversetable
  <2> QED
    BY <1>1, <2>2, <2>3 DEF Points, Holds
<1>2. CASE kind[o] = "thread"
  <2>1. Edges(o) = ({stk[o][s] : s \in Slots} \cup {Registry}) \ {Nil}
    BY <1>2 DEF Edges, traversestack
  <2>2. \A s \in Slots : stk[o][s] \in Values \cup {Nil}
    BY Shapes
  <2>3. Registry \in Values /\ Values \subseteq Obj
    BY HeapAssumption DEF Values
  <2> QED
    BY <1>2, <2>1, <2>2, <2>3 DEF Points
<1>3. CASE kind[o] = "upval"
  <2>1. Edges(o) = {UpvalValue(o)} \ {Nil}
    BY <1>3 DEF Edges
  <2>2. UpvalValue(o) = ValueOf(o, stk, open, val) /\ UpvalValue(o) \in Values \cup {Nil}
    BY UpvalueFacts
  <2>3. Values \subseteq Obj
    BY DEF Values
  <2> QED
    BY <1>3, <2>1, <2>2, <2>3 DEF Points, Holds
<1>4. CASE kind[o] \notin {"table", "thread", "upval"}
  <2>1. Edges(o) = link[o] \ {Nil}
    BY <1>4 DEF Edges
  <2>2. Edges(o) = link[o] /\ link[o] \subseteq Obj /\ (kind[o] # "func" => link[o] \subseteq Values)
    BY <2>1, Shapes, HeapAssumption
  <2> QED
    BY <1>4, <2>2, Shapes DEF Points, Holds
<1> QED
  BY <1>1, <1>2, <1>3, <1>4

\* Nothing alive is traversed to something that is not.
LEMMA AliveEdges ==
  ASSUME GCInv, NEW o \in Alive(alloc, color)
  PROVE  Edges(o) \subseteq Alive(alloc, color)
<1>1. o \in Obj
  BY DEF Alive, GCInv, TypesOK
<1> QED
  BY <1>1, EdgesFacts DEF GCInv, Sound

\* What reallymarkobject reaches from S: white objects, and userdata and upvalues
\* with what they pass the mark on to.
LEMMA MarkedFacts ==
  ASSUME GCInv, \A o \in Obj : color[o] # "dead", NEW S \in SUBSET alloc
  PROVE  /\ Marked(S) \subseteq alloc
         /\ \A x \in Marked(S) : color[x] = "white"
         /\ \A s \in S : iswhite(s) => s \in Marked(S)
         /\ \A x \in Marked(S) : kind[x] \in {"udata", "upval"} =>
               \A r \in Edges(x) : iswhite(r) => r \in Marked(S)
         /\ S \subseteq Values => Marked(S) \subseteq Values
<1> DEFINE W == {o \in S : iswhite(o)}
           E == PassedOn
           X == Closure(W, E)
<1>1. alloc \subseteq Obj /\ alloc = Alive(alloc, color)
  BY DEF GCInv, TypesOK, Alive
<1>2. E \in [Obj -> SUBSET Obj]
        /\ \A o \in Obj : E[o] = IF kind[o] \in {"udata", "upval"} THEN {r \in Edges(o) : iswhite(r)} ELSE {}
  <2>1. \A o \in Obj : {r \in Edges(o) : iswhite(r)} \in SUBSET Obj
    BY EdgesFacts
  <2> QED
    BY <2>1 DEF PassedOn
<1>3. W \in SUBSET Obj
  BY <1>1
<1> HIDE DEF E, W
<1>4. /\ W \subseteq X /\ X \subseteq Obj /\ (\A p \in X : E[p] \subseteq X)
      /\ \A Y \in SUBSET Obj : W \subseteq Y /\ (\A p \in Y : E[p] \subseteq Y) => X \subseteq Y
  BY <1>2, <1>3, ClosureFacts
<1>5. Marked(S) = X
  BY DEF Marked, W, E
<1> HIDE DEF X
<1>6. X \subseteq {o \in alloc : iswhite(o)}
  <2> DEFINE Y == {o \in alloc : iswhite(o)}
  <2>1. Y \in SUBSET Obj /\ W \subseteq Y
    BY <1>1 DEF W
  <2>2. ASSUME NEW p \in Y PROVE E[p] \subseteq Y
    <3>1. p \in Obj /\ Edges(p) \subseteq alloc
      BY <1>1, AliveEdges
    <3> QED
      BY <1>2, <3>1
  <2> HIDE DEF Y
  <2>3. X \subseteq Y
    BY <1>4, <2>1, <2>2
  <2> QED
    BY <2>3 DEF Y
<1>7. ASSUME S \subseteq Values PROVE X \subseteq Values
  <2>1. Values \in SUBSET Obj /\ W \subseteq Values
    BY <1>7 DEF W, Values
  <2>2. ASSUME NEW p \in Values PROVE E[p] \subseteq Values
    <3>1. p \in Obj /\ (kind[p] \in {"udata", "upval"} => Edges(p) \subseteq Values)
      BY EdgesFacts DEF Values
    <3> QED
      BY <1>2, <3>1
  <2> QED
    BY <1>4, <2>1, <2>2
<1>8. \A x \in X : color[x] = "white"
  BY <1>1, <1>6 DEF iswhite
<1>9. ASSUME NEW x \in X, kind[x] \in {"udata", "upval"}, NEW r \in Edges(x), iswhite(r)
      PROVE  r \in X
  BY <1>2, <1>4, <1>9
<1>10. \A s \in S : iswhite(s) => s \in X
  BY <1>4 DEF W
<1> QED
  BY <1>5, <1>6, <1>7, <1>8, <1>9, <1>10

Marks == {"gray", "black"}

\* What marking S, and with it X, does to the colours.
Recolored(S, X, col) ==
  /\ col \in [Obj -> Colors] /\ \A o \in Obj : col[o] # "dead"
  /\ \A o \in Obj : col[o] \in Marks <=> color[o] \in Marks \/ o \in X
  /\ \A o \in Obj \ X : col[o] = color[o]
  /\ \A o \in X : color[o] = "white" /\ o \in alloc
  /\ \A s \in S : col[s] \in Marks
  /\ ColorsOK(alloc, col, open, tmudata)
  /\ FreshOK(alloc, col, tab, link, stk, open)
  /\ \A o \in X, r \in Obj : col[o] = "black" /\ Holds(o, r, tab, link, stk, open, val) => col[r] \in Marks
  /\ \A o \in X : col[o] = "gray" => o \in Listed(X) \/ kind[o] = "string" \/ open[o] # NotOpen
  /\ Listed(X) \subseteq Traversable /\ \A o \in Listed(X) : col[o] = "gray"

\* Marking does it.
LEMMA RecolorFacts ==
  ASSUME GCInv, \A o \in Obj : color[o] # "dead", NEW S \in SUBSET alloc,
         NEW X, X = Marked(S), NEW col, col = Recolor(X)
  PROVE  Recolored(S, X, col)
<1>1. /\ X \subseteq alloc /\ \A x \in X : color[x] = "white"
      /\ \A s \in S : iswhite(s) => s \in X
      /\ \A x \in X : kind[x] \in {"udata", "upval"} => \A r \in Edges(x) : iswhite(r) => r \in X
  BY MarkedFacts
<1>2. alloc \subseteq Obj /\ \A o \in Obj : color[o] \in Colors
  BY DEF GCInv, TypesOK
<1>3. \A o \in Obj : col[o] = IF o \in X THEN MarkColor(o) ELSE color[o]
  BY DEF Recolor
<1>4. \A o \in Obj : MarkColor(o) = IF kind[o] = "udata" \/ (kind[o] = "upval" /\ open[o] = NotOpen)
                                    THEN "black" ELSE "gray"
  BY DEF MarkColor
<1>5. col \in [Obj -> Colors]
  BY <1>2, <1>3, <1>4 DEF Recolor, Colors
<1>6. \A o \in Obj : color[o] \in Marks <=> ~iswhite(o)
  BY <1>2 DEF Colors, Marks, iswhite
<1>7. /\ \A o \in Obj : col[o] \in Marks <=> color[o] \in Marks \/ o \in X
      /\ \A o \in Obj \ X : col[o] = color[o]
      /\ \A o \in Obj : col[o] # "dead"
  BY <1>3, <1>4 DEF Marks
<1>8. ColorsOK(alloc, col, open, tmudata)
  <2>1. ColorsOK(alloc, color, open, tmudata)
    BY DEF GCInv
  <2>2. \A o \in Obj : open[o] # NotOpen => kind[o] = "upval"
    BY Shapes
  <2> QED
    BY <1>3, <1>4, <1>7, <2>1, <2>2 DEF ColorsOK
<1>9. FreshOK(alloc, col, tab, link, stk, open)
  BY <1>1, <1>7 DEF GCInv, FreshOK
<1>10. ASSUME NEW o \in X, NEW r \in Obj, col[o] = "black", Holds(o, r, tab, link, stk, open, val)
       PROVE  col[r] \in Marks
  <2>1. o \in Obj /\ (kind[o] = "udata" \/ (kind[o] = "upval" /\ open[o] = NotOpen))
    BY <1>1, <1>2, <1>3, <1>4, <1>10
  <2>2. r \in Edges(o)
    <3>1. CASE kind[o] = "udata"
      <4>1. r \in link[o]
        BY <1>10, <3>1 DEF Holds
      <4> QED
        BY <2>1, <3>1, <4>1, EdgesFacts
    <3>2. CASE kind[o] = "upval"
      <4>1. r = ValueOf(o, stk, open, val)
        BY <1>10, <2>1, <3>2, Shapes DEF Holds
      <4>2. r = UpvalValue(o) /\ r # Nil
        BY <2>1, <4>1, UpvalueFacts, HeapAssumption
      <4> QED
        BY <2>1, <3>2, <4>2, EdgesFacts
    <3> QED
      BY <2>1, <3>1, <3>2
  <2> QED
    BY <1>1, <1>6, <1>7, <2>1, <2>2
<1>11. ASSUME NEW o \in X, col[o] = "gray"
       PROVE  o \in Listed(X) \/ kind[o] = "string" \/ open[o] # NotOpen
  <2>1. o \in Obj /\ MarkColor(o) = "gray"
    BY <1>1, <1>2, <1>3, <1>11
  <2> QED
    BY <1>4, <2>1, HeapAssumption DEF Listed
<1>12. Listed(X) \subseteq Traversable /\ \A o \in Listed(X) : col[o] = "gray"
  BY <1>1, <1>2, <1>3, <1>4 DEF Listed, Traversable
<1>13. \A s \in S : col[s] \in Marks
  BY <1>1, <1>2, <1>6, <1>7
<1> QED
  BY <1>1, <1>5, <1>7, <1>8, <1>9, <1>10, <1>11, <1>12, <1>13 DEF Recolored

\* With no dead objects, Sound and RootsOK do not depend on the colours.
LEMMA AliveAll ==
  ASSUME NEW al \in SUBSET Obj, NEW col, \A o \in Obj : col[o] # "dead"
  PROVE  Alive(al, col) = al
  BY DEF Alive

\* markroot, in a pause or in the middle of luaC_fullgc.
LEMMA MarkingStarts ==
  ASSUME GCInv, gcstate \in {"pause", "finalize"}, StartMarking, full' \in {"no", "sweeping", "marking"},
         UNCHANGED <<heap, sweepstr, sweepgc, tmudata, fin>>
  PROVE  GCInv'
<1> DEFINE X == Marked(Roots)
           col == Recolor(X)
<1>1. \A o \in Obj \ tmudata : color[o] = "white"
  BY DEF GCInv, SweepingOK, Unswept
<1>2. alloc \subseteq Obj /\ color \in [Obj -> Colors] /\ \A o \in Obj : color[o] # "dead"
  BY <1>1 DEF GCInv, TypesOK, ColorsOK
<1>3. Alive(alloc, color) = alloc
  BY <1>2, AliveAll
<1>4. Roots \in SUBSET alloc /\ Main \in Roots /\ Registry \in Roots
  BY <1>3, HeapAssumption DEF GCInv, RootsOK, Roots
<1> HIDE DEF X, col
<1>5. /\ col \in [Obj -> Colors] /\ \A o \in Obj : col[o] # "dead"
      /\ \A o \in Obj : col[o] \in Marks <=> color[o] \in Marks \/ o \in X
      /\ \A o \in Obj \ X : col[o] = color[o]
      /\ \A o \in X : color[o] = "white" /\ o \in alloc
      /\ \A s \in Roots : col[s] \in Marks
      /\ ColorsOK(alloc, col, open, tmudata)
      /\ FreshOK(alloc, col, tab, link, stk, open)
      /\ \A o \in X, r \in Obj : col[o] = "black" /\ Holds(o, r, tab, link, stk, open, val) => col[r] \in Marks
      /\ \A o \in X : col[o] = "gray" => o \in Listed(X) \/ kind[o] = "string" \/ open[o] # NotOpen
      /\ Listed(X) \subseteq Traversable /\ \A o \in Listed(X) : col[o] = "gray"
  <2>1. Recolored(Roots, X, col)
    BY <1>2, <1>4, RecolorFacts DEF X, col
  <2> QED
    BY <2>1 DEF Recolored
<1>6. /\ color' = col /\ gray' = Listed(X) /\ grayagain' = {} /\ weak' = {} /\ gcstate' = "propagate"
      /\ alloc' = alloc /\ tab' = tab /\ mode' = mode /\ link' = link /\ open' = open /\ val' = val
      /\ stk' = stk /\ mt' = mt /\ running' = running
      /\ sweepstr' = sweepstr /\ sweepgc' = sweepgc /\ tmudata' = tmudata
  BY DEF StartMarking, heap, X, col
<1>7. Alive(alloc, col) = alloc
  BY <1>2, <1>5, AliveAll
<1>8. TypesOK'
  BY <1>5, <1>6 DEF GCInv, TypesOK
<1>9. LinksOK(alloc, link, open)' /\ ColorsOK(alloc, color, open, tmudata)'
      /\ FreshOK(alloc, color, tab, link, stk, open)'
  BY <1>5, <1>6 DEF GCInv
<1>10. RootsOK(alloc, color, mt, running)' /\ Sound(alloc, color, tab, link, stk, open, val)'
  BY <1>3, <1>6, <1>7 DEF GCInv, RootsOK, Sound
<1>11. ListsOK(color, gray, grayagain, weak)'
  BY <1>5, <1>6 DEF ListsOK
<1>12. MarkingOK(color, tmudata, gray, grayagain, weak, tab, link, stk, open, val)'
  <2>1. Settled(col, tmudata, tab, link, stk, open, val)
    <3>1. \A o \in Obj \ tmudata : col[o] = "black" => o \in X
      BY <1>1, <1>5 DEF Marks
    <3> QED
      BY <1>5, <3>1 DEF Settled, Marks
  <2>2. WaitsOK(col, open, Listed(X), {}, {})
    <3>1. \A o \in Obj : col[o] = "gray" => o \in X
      <4>1. \A o \in Obj : kind[o] = "udata" => col[o] # "gray"
        BY <1>5 DEF ColorsOK
      <4>2. tmudata \subseteq {o \in alloc : kind[o] = "udata"}
        BY DEF GCInv, ColorsOK
      <4> QED
        BY <1>1, <1>5, <4>1, <4>2
    <3> QED
      BY <1>5, <3>1 DEF WaitsOK
  <2>3. {col[Main], col[Registry]} \subseteq Marks
    BY <1>4, <1>5
  <2> QED
    BY <1>5, <1>6, <2>1, <2>2, <2>3 DEF MarkingOK, Marks
<1>13. sweepstr' = {} /\ sweepgc' = {}
  BY <1>6 DEF GCInv
<1> QED
  BY <1>6, <1>8, <1>9, <1>10, <1>11, <1>12, <1>13 DEF GCInv

\* A traversal of a table only forgets keys, and keeps in a table that is not
\* weak only what it marks.
LEMMA RemoveFacts ==
  ASSUME GCInv, NEW o \in Obj, kind[o] = "table"
  PROVE  /\ removeentry(o) \in [Keys -> Values \cup {Nil, NoKey}]
         /\ \A k \in Keys : removeentry(o)[k] \in Obj => removeentry(o)[k] = tab[o][k]
         /\ mode[o] = {} => \A r \in Obj : Holds(o, r, [tab EXCEPT ![o] = removeentry(o)], link, stk, open, val)
                                             => r \in Edges(o)
<1>1. \A k \in Keys : tab[o][k] \in Values \cup {Nil, NoKey}
  BY Shapes
<1>2. \A k \in Keys : removeentry(o)[k] = IF k \in Obj /\ tab[o][k] = Nil /\ mode[o] # {"k", "v"}
                                          THEN NoKey ELSE tab[o][k]
  BY DEF removeentry
<1>3. removeentry(o) \in [Keys -> Values \cup {Nil, NoKey}]
  BY <1>1 DEF removeentry
<1>4. \A k \in Keys : removeentry(o)[k] \in Obj => removeentry(o)[k] = tab[o][k]
  BY <1>2, HeapAssumption
<1>5. ASSUME mode[o] = {}, NEW r \in Obj,
             Holds(o, r, [tab EXCEPT ![o] = removeentry(o)], link, stk, open, val)
      PROVE  r \in Edges(o)
  <2>1. tab \in [Obj -> [Keys -> Values \cup {Nil, NoKey}]]
    BY DEF GCInv, TypesOK
  <2>2. [tab EXCEPT ![o] = removeentry(o)][o] = removeentry(o)
    BY <2>1
  <2>3. Edges(o) = traversetable(o) \ {Nil} /\ r # Nil
    BY HeapAssumption DEF Edges
  <2>4. CASE r \in link[o]
    BY <2>3, <2>4 DEF traversetable
  <2>5. CASE r \in Keys /\ removeentry(o)[r] # NoKey
    <3>1. tab[o][r] # Nil /\ tab[o][r] # NoKey
      BY <1>2, <1>5, <2>5
    <3>2. tab[o][r] \in Obj
      BY <1>1, <2>5, <3>1 DEF Values
    <3> QED
      BY <1>5, <2>3, <2>5, <3>2 DEF traversetable
  <2>6. CASE \E k \in Keys : removeentry(o)[k] = r
    <3>1. PICK k \in Keys : tab[o][k] = r
      BY <1>4, <2>6
    <3> QED
      BY <1>5, <2>3, <3>1 DEF traversetable
  <2> QED
    BY <1>5, <2>2, <2>4, <2>5, <2>6 DEF Holds
<1> QED
  BY <1>3, <1>4, <1>5

\* One object of the gray list is traversed.
LEMMA Propagated ==
  ASSUME GCInv, NEW o \in Obj, propagatemark(o)
  PROVE  GCInv'
<1> DEFINE S == Edges(o)
           X == Marked(S)
           col == Recolor(X)
<1>1. gcstate = "propagate" /\ o \in gray /\ color[o] = "gray" /\ o \in Traversable
  BY DEF propagatemark, GCInv, ListsOK
<1>2. /\ alloc \subseteq Obj /\ color \in [Obj -> Colors] /\ \A p \in Obj : color[p] # "dead"
      /\ Settled(color, tmudata, tab, link, stk, open, val)
      /\ WaitsOK(color, open, gray, grayagain, weak)
      /\ {color[Main], color[Registry]} \subseteq Marks
      /\ ListsOK(color, gray, grayagain, weak)
  BY <1>1 DEF GCInv, TypesOK, MarkingOK, Marks
<1>3. Alive(alloc, color) = alloc
  BY <1>2, AliveAll
<1>4. o \in alloc /\ S \in SUBSET alloc
  <2>1. o \in alloc
    BY <1>1 DEF GCInv, FreshOK
  <2> QED
    BY <1>3, <2>1, AliveEdges
<1>5. /\ col \in [Obj -> Colors] /\ \A p \in Obj : col[p] # "dead"
      /\ \A p \in Obj : col[p] \in Marks <=> color[p] \in Marks \/ p \in X
      /\ \A p \in Obj \ X : col[p] = color[p]
      /\ \A p \in X : color[p] = "white" /\ p \in alloc
      /\ \A s \in S : col[s] \in Marks
      /\ ColorsOK(alloc, col, open, tmudata)
      /\ FreshOK(alloc, col, tab, link, stk, open)
      /\ \A p \in X, r \in Obj : col[p] = "black" /\ Holds(p, r, tab, link, stk, open, val) => col[r] \in Marks
      /\ \A p \in X : col[p] = "gray" => p \in Listed(X) \/ kind[p] = "string" \/ open[p] # NotOpen
      /\ Listed(X) \subseteq Traversable /\ \A p \in Listed(X) : col[p] = "gray"
  <2>1. Recolored(S, X, col)
    BY <1>2, <1>4, RecolorFacts
  <2> HIDE DEF S, X, col
  <2> QED
    BY <2>1 DEF Recolored
<1>6. Listed(X) \subseteq X
  BY DEF Listed
<1> HIDE DEF S, X, col
<1>7. /\ color' = [col EXCEPT ![o] = TraversedColor(o)]
      /\ gray' = (gray \ {o}) \cup Listed(X)
      /\ grayagain' = IF kind[o] = "thread" THEN grayagain \cup {o} ELSE grayagain
      /\ weak' = IF kind[o] = "table" /\ mode[o] # {} THEN weak \cup {o} ELSE weak
      /\ tab' = IF kind[o] = "table" THEN [tab EXCEPT ![o] = removeentry(o)] ELSE tab
      /\ alloc' = alloc /\ mode' = mode /\ link' = link /\ open' = open /\ val' = val
      /\ stk' = stk /\ mt' = mt /\ running' = running /\ gcstate' = gcstate
      /\ sweepstr' = sweepstr /\ sweepgc' = sweepgc /\ tmudata' = tmudata /\ full' = full
  BY DEF propagatemark, S, X, col
<1>8. /\ TraversedColor(o) \in Marks
      /\ TraversedColor(o) = "black" <=> kind[o] # "thread" /\ ~(kind[o] = "table" /\ mode[o] # {})
  BY DEF TraversedColor, Marks
<1>9. /\ color'[o] = TraversedColor(o) /\ \A p \in Obj \ {o} : color'[p] = col[p]
      /\ color' \in [Obj -> Colors] /\ \A p \in Obj : color'[p] # "dead"
      /\ \A p \in Obj : color'[p] \in Marks <=> col[p] \in Marks \/ p = o
  BY <1>5, <1>7, <1>8 DEF Marks, Colors
<1>10. o \notin X /\ col[o] = "gray"
  BY <1>1, <1>5
<1>11. /\ tab' \in [Obj -> [Keys -> Values \cup {Nil, NoKey}]]
       /\ \A p \in Obj \ {o} : tab'[p] = tab[p]
       /\ \A k \in Keys : tab'[o][k] \in Obj => tab'[o][k] = tab[o][k]
  <2>1. tab \in [Obj -> [Keys -> Values \cup {Nil, NoKey}]]
    BY DEF GCInv, TypesOK
  <2> QED
    BY <1>7, <2>1, RemoveFacts
<1>12. Alive(alloc, color') = alloc
  BY <1>2, <1>9, AliveAll
<1>13. TypesOK'
  BY <1>7, <1>9, <1>11 DEF GCInv, TypesOK
<1>14. LinksOK(alloc, link, open)' /\ RootsOK(alloc, color, mt, running)'
  BY <1>3, <1>7, <1>12 DEF GCInv, RootsOK
<1>15. FreshOK(alloc, color, tab, link, stk, open)'
  BY <1>4, <1>5, <1>7, <1>9, <1>11 DEF FreshOK
<1>16. ColorsOK(alloc, color, open, tmudata)'
  <2>1. kind[o] \notin {"udata", "string", "upval"} /\ open[o] = NotOpen
    BY <1>1, Shapes DEF Traversable
  <2> QED
    BY <1>5, <1>7, <1>8, <1>9, <2>1 DEF ColorsOK, Marks
<1>17. Sound(alloc, color, tab, link, stk, open, val)'
  <2>1. ASSUME NEW p \in Obj, NEW r \in Obj, Points(p, r, tab', link, stk, open, val)
        PROVE  Points(p, r, tab, link, stk, open, val)
    <3>1. \A k \in Keys : tab'[p][k] \in Obj => tab'[p][k] = tab[p][k]
      BY <1>11
    <3> QED
      BY <2>1, <3>1 DEF Points
  <2> QED
    BY <1>2, <1>3, <1>7, <1>12, <2>1 DEF GCInv, Sound
<1>18. ListsOK(color, gray, grayagain, weak)'
  <2>1. \A p \in Listed(X) : p \notin gray \cup grayagain \cup weak
    BY <1>2, <1>5, <1>6 DEF ListsOK
  <2>2. \A p \in (gray \ {o}) \cup grayagain \cup weak : p \in Traversable /\ color'[p] = "gray"
    <3>1. \A p \in (gray \ {o}) \cup grayagain \cup weak : p \in Obj \ {o} /\ p \in Traversable /\ color[p] = "gray"
      BY <1>1, <1>2 DEF ListsOK, Traversable
    <3> QED
      BY <1>5, <1>9, <3>1
  <2>3. \A p \in Listed(X) : p \in Traversable /\ color'[p] = "gray"
    <3>1. \A p \in Listed(X) : p \in Obj \ {o}
      BY <1>2, <1>5, <1>6, <1>10
    <3> QED
      BY <1>5, <1>9, <3>1
  <2>4. o \in grayagain' \cup weak' => color'[o] = "gray"
    BY <1>1, <1>2, <1>7, <1>8, <1>9 DEF ListsOK, Marks
  <2>5. gray' \cap grayagain' = {} /\ gray' \cap weak' = {} /\ grayagain' \cap weak' = {}
    BY <1>1, <1>2, <1>6, <1>7, <1>10, <2>1 DEF ListsOK
  <2> QED
    BY <1>1, <1>7, <2>2, <2>3, <2>4, <2>5 DEF ListsOK
<1>19. Settled(color', tmudata, tab', link, stk, open, val)
  <2> SUFFICES ASSUME NEW p \in Obj \ tmudata, NEW r \in Obj, color'[p] = "black",
                      Holds(p, r, tab', link, stk, open, val)
               PROVE  color'[r] \in Marks
    BY DEF Settled, Marks
  <2>1. CASE p = o
    <3>1. r \in Edges(o)
      <4>1. CASE kind[o] = "table"
        <5>1. mode[o] = {} /\ tab' = [tab EXCEPT ![o] = removeentry(o)]
          BY <1>7, <1>8, <1>9, <2>1, <4>1
        <5> QED
          BY <2>1, <4>1, <5>1, RemoveFacts
      <4>2. CASE kind[o] = "func"
        BY <2>1, <4>2, EdgesFacts DEF Holds
      <4> QED
        BY <1>1, <1>8, <1>9, <2>1, <4>1, <4>2 DEF Traversable
    <3> QED
      BY <1>5, <1>9, <3>1 DEF S
  <2>2. CASE p # o
    <3>1. col[p] = "black" /\ Holds(p, r, tab, link, stk, open, val)
      BY <1>9, <1>11, <2>2 DEF Holds
    <3>2. col[r] \in Marks
      <4>1. CASE p \in X
        BY <1>5, <3>1, <4>1
      <4>2. CASE p \notin X
        BY <1>2, <1>5, <3>1, <4>2 DEF Settled, Marks
      <4> QED
        BY <4>1, <4>2
    <3> QED
      BY <1>9, <3>2
  <2> QED
    BY <2>1, <2>2
<1>20. WaitsOK(color, open, gray, grayagain, weak)'
  <2> SUFFICES ASSUME NEW p \in Obj, color'[p] = "gray"
               PROVE  \/ p \in gray' \cup grayagain' \cup weak'
                      \/ kind[p] = "string" \/ open[p] # NotOpen
    BY <1>7 DEF WaitsOK
  <2>1. CASE p = o
    BY <1>7, <1>8, <1>9, <2>1
  <2>2. CASE p # o /\ p \in X
    BY <1>5, <1>7, <1>9, <2>2
  <2>3. CASE p # o /\ p \notin X
    BY <1>2, <1>5, <1>7, <1>9, <2>3 DEF WaitsOK
  <2> QED
    BY <2>1, <2>2, <2>3
<1>21. {color'[Main], color'[Registry]} \subseteq Marks
  BY <1>2, <1>5, <1>9, HeapAssumption
<1>22. MarkingOK(color, tmudata, gray, grayagain, weak, tab, link, stk, open, val)'
  BY <1>7, <1>9, <1>19, <1>20, <1>21 DEF MarkingOK, Marks
<1> QED
  BY <1>1, <1>7, <1>13, <1>14, <1>15, <1>16, <1>17, <1>18, <1>22 DEF GCInv

-------------------------------------------------------------------------------
(* The end of the marking *)

\* What atomic marks from the lists and the remarked values.
LEMMA AtomicMarksFacts ==
  ASSUME GCInv, gcstate = "propagate"
  PROVE  /\ AtomicMarks \subseteq alloc
         /\ gray \cup grayagain \cup weak \subseteq AtomicMarks
         /\ \A o \in remarkupvals \cup {running} \cup ({mt} \ {Nil}) : iswhite(o) => o \in AtomicMarks
         /\ \A o \in AtomicMarks : \A r \in Edges(o) : iswhite(r) => r \in AtomicMarks
<1> DEFINE E == [o \in Obj |-> {r \in Edges(o) : iswhite(r)}]
           Q == {o \in remarkupvals \cup {running} \cup ({mt} \ {Nil}) : iswhite(o)}
           G == gray \cup weak \cup grayagain \cup Q
           X == Closure(G, E)
<1>1. AtomicMarks = X
  BY DEF AtomicMarks
<1>2. /\ alloc \subseteq Obj /\ (\A o \in Obj : color[o] # "dead") /\ color \in [Obj -> Colors]
      /\ ListsOK(color, gray, grayagain, weak)
  BY DEF GCInv, TypesOK, MarkingOK
<1>3. Alive(alloc, color) = alloc
  BY <1>2, AliveAll
<1>4. E \in [Obj -> SUBSET Obj] /\ \A o \in Obj : E[o] = {r \in Edges(o) : iswhite(r)}
  BY EdgesFacts
<1>5. gray \cup weak \cup grayagain \subseteq alloc
  <2>1. \A o \in gray \cup weak \cup grayagain : o \in Obj /\ color[o] = "gray"
    BY <1>2 DEF ListsOK, Traversable
  <2> QED
    BY <2>1 DEF GCInv, FreshOK
<1>6. remarkupvals \subseteq alloc
  <2> SUFFICES ASSUME NEW r \in remarkupvals PROVE r \in alloc
    OBVIOUS
  <2>1. PICK u \in OfKind("upval") : r = UpvalValue(u) /\ r # Nil
    BY DEF remarkupvals
  <2>2. u \in alloc /\ u \in Obj /\ kind[u] = "upval"
    BY <1>2, <2>1 DEF OfKind
  <2>3. r \in Edges(u)
    BY <2>1, <2>2, EdgesFacts
  <2> QED
    BY <1>3, <2>2, <2>3, AliveEdges
<1>7. {running} \cup ({mt} \ {Nil}) \subseteq alloc
  <2>1. running # Nil
    BY HeapAssumption DEF GCInv, TypesOK
  <2> QED
    BY <1>3, <2>1 DEF GCInv, RootsOK
<1>8. G \subseteq alloc
  BY <1>5, <1>6, <1>7
<1> HIDE DEF E, G
<1>9. /\ G \subseteq X /\ X \subseteq Obj /\ (\A p \in X : E[p] \subseteq X)
      /\ \A Y \in SUBSET Obj : G \subseteq Y /\ (\A p \in Y : E[p] \subseteq Y) => X \subseteq Y
  <2>1. G \in SUBSET Obj
    BY <1>2, <1>8
  <2> QED
    BY <1>4, <2>1, ClosureFacts
<1> HIDE DEF X
<1>10. X \subseteq alloc
  <2>1. \A p \in alloc : E[p] \subseteq alloc
    BY <1>2, <1>3, <1>4, AliveEdges
  <2> QED
    BY <1>2, <1>8, <1>9, <2>1
<1>11. \A o \in X : \A r \in Edges(o) : iswhite(r) => r \in X
  BY <1>4, <1>9
<1>12. gray \cup grayagain \cup weak \subseteq X /\ Q \subseteq X
  BY <1>9 DEF G
<1> QED
  BY <1>1, <1>10, <1>11, <1>12

\* After them only what nothing but a weak table or a userdata without hope
\* refers to is unmarked.
LEMMA AtomicClosed ==
  ASSUME GCInv, gcstate = "propagate", NEW M, M = AtomicMarks \cup {o \in Obj : ~iswhite(o)}
  PROVE  /\ M \subseteq alloc
         /\ {Main, Registry, running} \cup ({mt} \ {Nil}) \subseteq M
         /\ \A o \in M \ tmudata : Edges(o) \subseteq M
         /\ \A o \in M \ (AtomicMarks \cup tmudata), r \in Obj :
               kind[o] = "table" /\ Holds(o, r, tab, link, stk, open, val) => r \in M
<1> DEFINE X == AtomicMarks
<1>1. /\ X \subseteq alloc
      /\ gray \cup grayagain \cup weak \subseteq X
      /\ \A o \in remarkupvals \cup {running} \cup ({mt} \ {Nil}) : iswhite(o) => o \in X
      /\ \A o \in X : \A r \in Edges(o) : iswhite(r) => r \in X
  BY AtomicMarksFacts
<1> HIDE DEF X
<1>2. /\ alloc \subseteq Obj /\ color \in [Obj -> Colors] /\ (\A o \in Obj : color[o] # "dead")
      /\ Settled(color, tmudata, tab, link, stk, open, val)
      /\ WaitsOK(color, open, gray, grayagain, weak)
      /\ {color[Main], color[Registry]} \subseteq Marks
      /\ mt \in Obj \cup {Nil} /\ running \in Obj
  BY DEF GCInv, TypesOK, MarkingOK, Marks, Values
<1>3. \A o \in Obj : iswhite(o) <=> color[o] \notin Marks
  BY <1>2 DEF iswhite, Marks, Colors
<1>4. M = X \cup {o \in Obj : color[o] \in Marks}
  BY <1>3 DEF X
<1>5. M \subseteq alloc
  <2>1. \A o \in Obj : color[o] \in Marks => o \in alloc
    BY DEF GCInv, FreshOK, Marks
  <2> QED
    BY <1>1, <1>4, <2>1
<1>6. {Main, Registry, running} \cup ({mt} \ {Nil}) \subseteq M
  BY <1>1, <1>2, <1>3, <1>4, HeapAssumption
<1>7. ASSUME NEW o \in M \ tmudata, NEW r \in Edges(o)
      PROVE  r \in M
  <2>1. o \in Obj /\ r \in Obj
    BY <1>2, <1>5, EdgesFacts
  <2>2. CASE o \in X
    BY <1>1, <1>3, <1>4, <1>7, <2>1, <2>2
  <2>3. CASE o \notin X /\ color[o] = "black"
    <3>1. kind[o] # "thread"
      BY <2>1, <2>3 DEF GCInv, ColorsOK
    <3>2. Holds(o, r, tab, link, stk, open, val)
      BY <1>7, <2>1, <3>1, EdgesFacts
    <3> QED
      BY <1>2, <1>4, <1>7, <2>1, <2>3, <3>2 DEF Settled, Marks
  <2>4. CASE o \notin X /\ color[o] = "gray"
    <3>1. kind[o] = "string" \/ open[o] # NotOpen
      BY <1>1, <1>2, <2>1, <2>4 DEF WaitsOK
    <3>2. CASE kind[o] = "string"
      BY <1>7, <2>1, <3>2, EdgesFacts, Shapes
    <3>3. CASE open[o] # NotOpen
      <4>1. kind[o] = "upval" /\ o \in alloc
        BY <2>1, <3>3, Shapes
      <4>2. r = UpvalValue(o) /\ r # Nil
        BY <1>7, <2>1, <4>1, EdgesFacts
      <4>3. r \in remarkupvals
        BY <2>4, <3>3, <4>1, <4>2 DEF remarkupvals, OfKind
      <4> QED
        BY <1>1, <1>3, <1>4, <2>1, <4>3
    <3> QED
      BY <3>1, <3>2, <3>3
  <2> QED
    BY <1>4, <1>7, <2>2, <2>3, <2>4 DEF Marks
<1>8. ASSUME NEW o \in M \ (X \cup tmudata), NEW r \in Obj, kind[o] = "table",
             Holds(o, r, tab, link, stk, open, val)
      PROVE  r \in M
  <2>1. o \in Obj /\ color[o] \in Marks
    BY <1>4, <1>8
  <2>2. color[o] # "gray"
    <3>1. open[o] = NotOpen
      BY <1>8, <2>1, Shapes
    <3> QED
      BY <1>1, <1>2, <1>8, <2>1, <3>1 DEF WaitsOK
  <2> QED
    BY <1>2, <1>4, <1>8, <2>1, <2>2 DEF Settled, Marks
<1> QED
  BY <1>5, <1>6, <1>7, <1>8 DEF X

\* What atomic marks first, the userdata that wait for their finalizers then, and
\* what they hold.
AllMarked == AtomicMarks \cup {o \in Obj : ~iswhite(o)}
AllWaiting == tmudata \cup luaC_separateudata(AllMarked)
Finalized == marktmu(AllMarked, AllWaiting)

\* What waits for its finalizer is marked, with all that it refers to.
LEMMA FinalizedClosed ==
  ASSUME GCInv, gcstate = "propagate"
  PROVE  /\ AllWaiting \subseteq OfKind("udata") /\ AllWaiting \subseteq Finalized /\ Finalized \subseteq alloc
         /\ \A o \in AllMarked \cup Finalized : Edges(o) \subseteq AllMarked \cup Finalized
<1> DEFINE M == AllMarked
           T == AllWaiting
           Y == Finalized
<1>0. /\ M = AtomicMarks \cup {o \in Obj : ~iswhite(o)}
      /\ T = tmudata \cup luaC_separateudata(M) /\ Y = marktmu(M, T)
  BY DEF AllMarked, AllWaiting, Finalized
<1> HIDE DEF M, T, Y
<1> DEFINE E == [o \in Obj |-> {r \in Edges(o) : iswhite(r) /\ r \notin M}]
<1>1. alloc \subseteq Obj /\ \A o \in Obj : color[o] # "dead"
  BY DEF GCInv, TypesOK, MarkingOK
<1>2. Alive(alloc, color) = alloc
  BY <1>1, AliveAll
<1>3. M \subseteq alloc /\ \A o \in M \ tmudata : Edges(o) \subseteq M
  BY <1>0, AtomicClosed
<1>4. T \subseteq OfKind("udata")
  BY <1>0 DEF luaC_separateudata, DeadUdata, GCInv, ColorsOK, OfKind
<1>5. T \in SUBSET Obj /\ T \subseteq alloc
  BY <1>1, <1>4 DEF OfKind
<1>6. E \in [Obj -> SUBSET Obj] /\ \A o \in Obj : E[o] = {r \in Edges(o) : iswhite(r) /\ r \notin M}
  BY EdgesFacts
<1>7. Y = Closure(T, E)
  BY <1>0 DEF marktmu
<1> HIDE DEF E
<1>8. /\ T \subseteq Y /\ Y \subseteq Obj /\ (\A p \in Y : E[p] \subseteq Y)
      /\ \A Z \in SUBSET Obj : T \subseteq Z /\ (\A p \in Z : E[p] \subseteq Z) => Y \subseteq Z
  BY <1>5, <1>6, <1>7, ClosureFacts
<1>9. Y \subseteq alloc
  <2>1. \A p \in alloc : E[p] \subseteq alloc
    BY <1>1, <1>2, <1>6, AliveEdges
  <2> QED
    BY <1>1, <1>5, <1>8, <2>1
<1>10. ASSUME NEW o \in M \cup Y, NEW r \in Edges(o)
       PROVE  r \in M \cup Y
  <2>1. o \in Obj /\ r \in Obj
    BY <1>1, <1>3, <1>9, EdgesFacts
  <2>2. CASE o \in Y
    BY <1>0, <1>6, <1>8, <1>10, <2>1, <2>2
  <2>3. CASE o \notin Y
    BY <1>0, <1>3, <1>8, <1>10, <2>3
  <2> QED
    BY <2>2, <2>3
<1> QED
  BY <1>4, <1>8, <1>9, <1>10 DEF M, T, Y

\* What a weak table keeps is marked: by the marking, or as a string it met.
LEMMA ClearedFacts ==
  ASSUME GCInv, NEW N, N \subseteq Obj, NEW F, NEW t \in Obj, kind[t] = "table", color[t] # "dead",
         Edges(t) \subseteq N, NEW S, MetStrings(t, N, F) \subseteq S,
         NEW k \in Keys, tab[t][k] \in Obj, k \notin ClearedKeys(t, N, F)
  PROVE  tab[t][k] \in N \cup S /\ (k \in Obj => k \in N \cup S)
<1> DEFINE r == tab[t][k]
<1>1. r # Nil /\ r # NoKey /\ r \in Obj /\ Array \notin Obj
  BY HeapAssumption
<1>2. Edges(t) = traversetable(t) \ {Nil}
  BY DEF Edges
<1>3. \A o \in Obj, b \in BOOLEAN : ~iscleared(o, b, N, F) => kind[o] = "string" \/ o \in N
  BY DEF iscleared
<1>4. \A o \in Obj : kind[o] = "string" /\ (k = o \/ (r = o /\ (IF k = Array THEN "v" \in mode[t]
                                                            ELSE ~iscleared(k, TRUE, N, F))))
                        /\ o \in alloc => o \in S
  BY DEF MetStrings, OfKind
<1>5. t \in alloc
  <2>1. tab[t] # EmptyTable
    BY <1>1 DEF EmptyTable
  <2> QED
    BY <2>1 DEF GCInv, FreshOK
<1>6. (k \in Obj => k \in alloc) /\ r \in alloc
  <2>1. Points(t, r, tab, link, stk, open, val)
        /\ (k \in Obj => Points(t, k, tab, link, stk, open, val))
    BY DEF Points
  <2> QED
    BY <1>1, <1>5, <2>1 DEF GCInv, Sound, Alive
<1> HIDE DEF r
<1>7. CASE k = Array /\ "v" \notin mode[t]
  <2>1. r \in traversetable(t)
    BY <1>7 DEF traversetable, r
  <2> QED
    BY <1>1, <1>2, <1>7, <2>1 DEF r
<1>8. CASE k = Array /\ "v" \in mode[t]
  <2>1. ~iscleared(r, FALSE, N, F)
    BY <1>8 DEF ClearedKeys, r
  <2>2. kind[r] = "string" \/ r \in N
    BY <1>1, <1>3, <2>1
  <2> QED
    BY <1>1, <1>4, <1>6, <1>8, <2>2 DEF r
<1>9. CASE k # Array
  <2>1. ~iscleared(r, FALSE, N, F) /\ ~iscleared(k, TRUE, N, F)
    BY <1>9 DEF ClearedKeys, r
  <2>2. k \in Obj
    BY <1>9 DEF Keys
  <2>3. (kind[r] = "string" \/ r \in N) /\ (kind[k] = "string" \/ k \in N)
    BY <1>1, <1>3, <2>1, <2>2
  <2> QED
    BY <1>1, <1>4, <1>6, <1>9, <2>1, <2>2, <2>3 DEF r
<1> QED
  BY <1>7, <1>8, <1>9

\* atomic: what is alive afterwards is what has been marked.
LEMMA AtomicDone ==
  ASSUME GCInv, atomic
  PROVE  GCInv'
<1> DEFINE X == AtomicMarks
           M == X \cup {o \in Obj : ~iswhite(o)}
           T == tmudata \cup luaC_separateudata(M)
           Y == marktmu(M, T)
           F == fin \cup DeadUdata(M)
           W == {t \in X \cup Y : kind[t] = "table" /\ mode[t] # {}}
           S == UNION {MetStrings(t, M \cup Y, F) : t \in W}
           Live1 == M \cup Y \cup S
<1>1. /\ gcstate = "propagate"
      /\ color' = [o \in Obj |->
           IF o \in X \cup Y THEN (IF o \in Listed(X \cup Y) THEN TraversedColor(o) ELSE MarkColor(o))
           ELSE IF o \in S THEN "gray"
           ELSE IF o \in alloc THEN OtherWhite(color[o]) ELSE "white"]
      /\ tab' = [t \in Obj |-> [k \in Keys |->
          IF t \in W /\ k \in ClearedKeys(t, M \cup Y, F) THEN (IF k = Array THEN Nil ELSE NoKey)
          ELSE IF t \in OfKind("table") \cap (X \cup Y) THEN removeentry(t)[k] ELSE tab[t][k]]]
      /\ tmudata' = T /\ gcstate' = "sweepstring"
      /\ sweepstr' = AllStrings /\ sweepgc' = AllOthers \ T
      /\ gray' = {} /\ grayagain' = {} /\ weak' = {}
      /\ alloc' = alloc /\ mode' = mode /\ link' = link /\ open' = open /\ val' = val
      /\ stk' = stk /\ mt' = mt /\ running' = running /\ full' = full
  BY DEF atomic
<1>0. X = AtomicMarks /\ M = AtomicMarks \cup {o \in Obj : ~iswhite(o)}
      /\ T = tmudata \cup luaC_separateudata(M) /\ Y = marktmu(M, T)
  OBVIOUS
<1>5. /\ W \subseteq X \cup Y /\ (\A t \in X \cup Y : t \in W <=> kind[t] = "table" /\ mode[t] # {})
      /\ X \subseteq M /\ \A t \in W : MetStrings(t, M \cup Y, F) \subseteq S
  OBVIOUS
<1>4. S \subseteq AllStrings
  BY DEF MetStrings, AllStrings
<1>6. /\ alloc \subseteq Obj /\ color \in [Obj -> Colors] /\ (\A o \in Obj : color[o] # "dead")
      /\ \A o \in Obj : o \in M <=> o \in X \/ color[o] \in Marks
      /\ tmudata \subseteq T
  <2>1. alloc \subseteq Obj /\ color \in [Obj -> Colors] /\ \A o \in Obj : color[o] # "dead"
    BY <1>1 DEF GCInv, TypesOK, MarkingOK
  <2>2. \A o \in Obj : ~iswhite(o) <=> color[o] \in Marks
    BY <2>1 DEF iswhite, Marks, Colors
  <2> QED
    BY <2>1, <2>2
<1> HIDE DEF X, M, T, Y, F, W, S
<1>2. /\ M \subseteq alloc
      /\ {Main, Registry, running} \cup ({mt} \ {Nil}) \subseteq M
      /\ \A o \in M \ (X \cup tmudata), r \in Obj :
            kind[o] = "table" /\ Holds(o, r, tab, link, stk, open, val) => r \in M
  BY <1>0, <1>1, AtomicClosed
<1>3. /\ T \subseteq OfKind("udata") /\ T \subseteq Y /\ Y \subseteq alloc
      /\ \A o \in M \cup Y : Edges(o) \subseteq M \cup Y
  <2>1. M = AllMarked /\ T = AllWaiting /\ Y = Finalized
    BY <1>0 DEF AllMarked, AllWaiting, Finalized
  <2> QED
    BY <1>1, <2>1, FinalizedClosed
<1>7. \A o \in Obj :
        /\ o \in X \cup Y => color'[o] = IF o \in Listed(X \cup Y) THEN TraversedColor(o) ELSE MarkColor(o)
        /\ o \notin X \cup Y /\ o \in S => color'[o] = "gray"
        /\ o \notin X \cup Y \cup S /\ o \in alloc => color'[o] = OtherWhite(color[o])
        /\ o \notin X \cup Y \cup S /\ o \notin alloc => color'[o] = "white"
  BY <1>1
<1>8. /\ \A o \in Obj : TraversedColor(o) \in Marks /\ MarkColor(o) \in Marks
      /\ \A o \in Obj : OtherWhite(color[o]) = IF color[o] \in Marks THEN color[o] ELSE "dead"
  BY <1>6 DEF TraversedColor, MarkColor, OtherWhite, Marks, Colors
<1>9. color' \in [Obj -> Colors]
  <2>1. \A o \in Obj : color'[o] \in Colors
    BY <1>7, <1>8 DEF Marks, Colors
  <2>2. color' = [o \in Obj |-> color'[o]]
    BY <1>1
  <2> QED
    BY <2>1, <2>2
<1>10. \A o \in Obj : o \in alloc /\ color'[o] # "dead" <=> o \in Live1
  <2>1. S \subseteq alloc
    BY <1>4 DEF AllStrings, OfKind
  <2>2. \A o \in Obj : o \in X \cup Y \cup S => color'[o] \in Marks
    BY <1>7, <1>8 DEF Marks
  <2>3. \A o \in alloc \ (X \cup Y \cup S) : color'[o] # "dead" <=> color[o] \in Marks
    BY <1>6, <1>7, <1>8 DEF Marks
  <2> QED
    BY <1>2, <1>3, <1>6, <2>1, <2>2, <2>3 DEF Marks
<1>11. Alive(alloc, color') = Live1
  <2>1. Live1 \subseteq Obj
    BY <1>2, <1>3, <1>4, <1>6 DEF AllStrings, OfKind
  <2> QED
    BY <1>6, <1>10, <2>1 DEF Alive
<1> HIDE DEF Live1
<1>12. \A t \in Obj, k \in Keys :
          /\ t \in W /\ k \in ClearedKeys(t, M \cup Y, F) => tab'[t][k] = IF k = Array THEN Nil ELSE NoKey
          /\ ~(t \in W /\ k \in ClearedKeys(t, M \cup Y, F)) /\ t \in X \cup Y /\ kind[t] = "table"
               => tab'[t][k] = removeentry(t)[k]
          /\ t \notin X \cup Y \/ kind[t] # "table" => tab'[t][k] = tab[t][k]
  <2>1. \A t \in X \cup Y : kind[t] = "table" <=> t \in OfKind("table")
    <3>1. X \cup Y \subseteq alloc
      BY <1>2, <1>3, <1>5
    <3> QED
      BY <3>1 DEF OfKind
  <2>2. \A t \in OfKind("table") : kind[t] = "table"
    BY DEF OfKind
  <2>3. \A t \in W : t \in X \cup Y /\ kind[t] = "table"
    BY <1>5
  <2> QED
    BY <1>1, <2>1, <2>2, <2>3
<1>13. \A t \in Obj, k \in Keys : tab'[t][k] \in Values \cup {Nil, NoKey}
                                  /\ (tab'[t][k] \in Obj => tab'[t][k] = tab[t][k])
  <2> SUFFICES ASSUME NEW t \in Obj, NEW k \in Keys
               PROVE  tab'[t][k] \in Values \cup {Nil, NoKey}
                      /\ (tab'[t][k] \in Obj => tab'[t][k] = tab[t][k])
    OBVIOUS
  <2>1. CASE t \in W /\ k \in ClearedKeys(t, M \cup Y, F)
    BY <1>12, <2>1, HeapAssumption
  <2>2. CASE ~(t \in W /\ k \in ClearedKeys(t, M \cup Y, F)) /\ t \in X \cup Y /\ kind[t] = "table"
    <3>1. removeentry(t)[k] \in Values \cup {Nil, NoKey}
          /\ (removeentry(t)[k] \in Obj => removeentry(t)[k] = tab[t][k])
      BY <2>2, RemoveFacts
    <3> QED
      BY <1>12, <2>2, <3>1
  <2>3. CASE t \notin X \cup Y \/ kind[t] # "table"
    BY <1>12, <2>3, Shapes
  <2> QED
    BY <2>1, <2>2, <2>3
<1>14. TypesOK'
  <2>1. tab' \in [Obj -> [Keys -> Values \cup {Nil, NoKey}]]
    <3>1. \A t \in Obj : tab'[t] = [k \in Keys |-> tab'[t][k]]
      BY <1>1
    <3>2. \A t \in Obj : tab'[t] \in [Keys -> Values \cup {Nil, NoKey}]
      BY <1>13, <3>1
    <3>3. tab' = [t \in Obj |-> tab'[t]]
      BY <1>1
    <3> QED
      BY <3>2, <3>3
  <2> QED
    BY <1>1, <1>9, <2>1 DEF GCInv, TypesOK
<1>15. LinksOK(alloc, link, open)'
  BY <1>1 DEF GCInv
<1>16. FreshOK(alloc, color, tab, link, stk, open)'
  <2> SUFFICES ASSUME NEW o \in Obj \ alloc
               PROVE  tab'[o] = EmptyTable /\ color'[o] = "white"
    BY <1>1 DEF GCInv, FreshOK
  <2>1. o \notin X \cup Y \cup S
    BY <1>2, <1>3, <1>4, <1>5 DEF AllStrings, OfKind
  <2>2. o \notin W /\ o \notin OfKind("table")
    BY <1>5, <2>1 DEF OfKind
  <2>3. tab'[o] = [k \in Keys |-> tab[o][k]]
    BY <1>1, <2>2
  <2>4. tab[o] = EmptyTable
    BY DEF GCInv, FreshOK
  <2> QED
    BY <1>7, <2>1, <2>3, <2>4 DEF EmptyTable
<1>17. ColorsOK(alloc, color, open, tmudata)'
  <2>1. ColorsOK(alloc, color, open, tmudata)
    BY DEF GCInv
  <2>2. \A o \in Obj : o \in S => kind[o] = "string"
    BY <1>4 DEF AllStrings, OfKind
  <2>3. \A o \in Obj : color'[o] = "black" =>
           \/ color[o] = "black"
           \/ o \in Listed(X \cup Y) /\ TraversedColor(o) = "black"
           \/ MarkColor(o) = "black"
    BY <1>7, <1>8 DEF Marks
  <2>4. \A o \in Obj : color'[o] = "gray" =>
           \/ color[o] = "gray" \/ o \in S
           \/ o \in Listed(X \cup Y)
           \/ MarkColor(o) = "gray"
    BY <1>7, <1>8 DEF Marks
  <2>5. \A o \in Obj : open[o] # NotOpen => kind[o] = "upval"
    BY Shapes
  <2>6. \A o \in T : o \in Y /\ o \in Obj /\ color'[o] \in Marks /\ o \in alloc /\ kind[o] = "udata"
    BY <1>3, <1>6, <1>7, <1>8 DEF OfKind
  <2>7. ASSUME NEW o \in Obj
        PROVE  /\ kind[o] \in {"string", "thread"} => color'[o] # "black"
               /\ kind[o] = "udata" => color'[o] # "gray"
               /\ open[o] # NotOpen => color'[o] # "black"
    BY <2>1, <2>2, <2>3, <2>4, <2>5 DEF ColorsOK, Listed, TraversedColor, MarkColor
  <2> QED
    BY <1>1, <2>6, <2>7 DEF ColorsOK, Marks
<1>18. RootsOK(alloc, color, mt, running)'
  BY <1>1, <1>2, <1>11 DEF RootsOK, Live1
<1>19. Sound(alloc, color, tab, link, stk, open, val)'
  <2> SUFFICES ASSUME NEW o \in Live1, NEW r \in Obj, Points(o, r, tab', link, stk, open, val)
               PROVE  r \in Live1
    BY <1>1, <1>11 DEF Sound
  <2>0. o \in Obj /\ r # Nil
    BY <1>6, <1>11, HeapAssumption DEF Alive
  <2>1. CASE o \notin M \cup Y
    <3>1. kind[o] = "string"
      BY <1>4, <2>1 DEF Live1, AllStrings, OfKind
    <3> QED
      BY <2>0, <3>1, Shapes DEF Points
  <2>2. CASE o \in M \cup Y /\ kind[o] = "thread"
    <3>1. r \in Edges(o)
      BY <2>0, <2>2, Shapes DEF Points, Edges, traversestack
    <3> QED
      BY <1>3, <2>2, <3>1 DEF Live1
  <2>3. CASE o \in M \cup Y /\ kind[o] = "upval"
    <3>1. r \in Edges(o)
      BY <2>0, <2>3, Shapes, UpvalueFacts, EdgesFacts DEF Points
    <3> QED
      BY <1>3, <2>3, <3>1 DEF Live1
  <2>4. CASE o \in M \cup Y /\ kind[o] = "udata"
    <3>1. r \in Edges(o)
      BY <2>0, <2>4, Shapes, EdgesFacts DEF Points
    <3> QED
      BY <1>3, <2>4, <3>1 DEF Live1
  <2>5. CASE o \in M \cup Y /\ kind[o] = "func"
    <3>1. link[o] \subseteq M \cup Y /\ link[o] \subseteq Obj
      BY <1>3, <2>0, <2>5, EdgesFacts, Shapes
    <3>2. CASE r \in link[o]
      BY <3>1, <3>2 DEF Live1
    <3>3. CASE \E u \in link[o] : kind[u] = "upval" /\ r = ValueOf(u, stk, open, val)
      <4>1. PICK u \in link[o] : kind[u] = "upval" /\ r = ValueOf(u, stk, open, val)
        BY <3>3
      <4>2. r \in Edges(u)
        BY <2>0, <3>1, <4>1, UpvalueFacts, EdgesFacts
      <4> QED
        BY <1>3, <3>1, <4>1, <4>2 DEF Live1
    <3> QED
      BY <2>5, <3>2, <3>3 DEF Points
  <2>6. CASE o \in M \cup Y /\ kind[o] = "table"
    <3>1. Edges(o) \subseteq M \cup Y /\ Edges(o) = traversetable(o) \ {Nil}
      BY <1>3, <2>6 DEF Edges
    <3>2. CASE r \in link[o]
      BY <2>0, <3>1, <3>2 DEF traversetable, Live1
    <3>3. CASE \E k \in Keys : tab'[o][k] \in Obj /\ (r = k \/ r = tab'[o][k])
      <4>1. PICK k \in Keys : tab'[o][k] \in Obj /\ (r = k \/ r = tab'[o][k])
        BY <3>3
      <4>2. tab[o][k] = tab'[o][k]
        BY <1>13, <2>0, <4>1
      <4>3. CASE o \in X \cup Y
        <5>1. ~(o \in W /\ k \in ClearedKeys(o, M \cup Y, F))
          BY <1>12, <2>0, <4>1, HeapAssumption
        <5>2. CASE mode[o] = {}
          <6>1. r \in traversetable(o)
            BY <4>1, <4>2, <5>2 DEF traversetable
          <6> QED
            BY <2>0, <3>1, <6>1 DEF Live1
        <5>3. CASE mode[o] # {}
          <6>1. o \in W /\ k \notin ClearedKeys(o, M \cup Y, F) /\ MetStrings(o, M \cup Y, F) \subseteq S
            BY <1>5, <2>6, <4>3, <5>1, <5>3
          <6>2. M \cup Y \subseteq Obj
            BY <1>2, <1>3, <1>6
          <6>3. tab[o][k] \in (M \cup Y) \cup S /\ (k \in Obj => k \in (M \cup Y) \cup S)
            <7> DEFINE N == M \cup Y
            <7>1. /\ N \subseteq Obj /\ Edges(o) \subseteq N /\ MetStrings(o, N, F) \subseteq S
                  /\ k \notin ClearedKeys(o, N, F) /\ tab[o][k] \in Obj
              BY <3>1, <4>1, <4>2, <6>1, <6>2
            <7>2. color[o] # "dead" /\ o \in Obj /\ kind[o] = "table"
              BY <1>6, <2>0, <2>6
            <7> HIDE DEF N
            <7>3. tab[o][k] \in N \cup S /\ (k \in Obj => k \in N \cup S)
              BY <7>1, <7>2, ClearedFacts
            <7> QED
              BY <7>3 DEF N
          <6> QED
            BY <4>1, <4>2, <6>3 DEF Live1
        <5> QED
          BY <5>2, <5>3
      <4>4. CASE o \notin X \cup Y
        <5>1. o \in M \ (X \cup tmudata)
          BY <1>3, <1>6, <2>6, <4>4
        <5>2. Holds(o, r, tab, link, stk, open, val)
          BY <2>0, <2>6, <4>1, <4>2, HeapAssumption DEF Holds
        <5> QED
          BY <1>2, <2>6, <5>1, <5>2 DEF Live1
      <4> QED
        BY <4>3, <4>4
    <3> QED
      BY <2>0, <2>6, <3>2, <3>3 DEF Points
  <2>7. CASE kind[o] = "string"
    BY <2>0, <2>7, Shapes DEF Points
  <2> QED
    BY <2>0, <2>1, <2>2, <2>3, <2>4, <2>5, <2>6, <2>7, HeapAssumption
<1>20. SweepingOK(alloc, color, open, tmudata, sweepstr, sweepgc)'
  <2>1. AllStrings \subseteq {o \in alloc : kind[o] = "string"}
    BY DEF AllStrings, OfKind
  <2>2. AllOthers \ T \subseteq {o \in alloc : kind[o] # "string" /\ open[o] = NotOpen /\ o \notin T}
    BY DEF AllOthers, AllStrings, OfKind
  <2>3. ASSUME NEW o \in Obj \ T, color'[o] # "white"
        PROVE  Unswept(o, open, AllStrings, AllOthers \ T)
    <3>1. o \in alloc
      BY <1>2, <1>3, <1>4, <1>5, <1>7, <2>3 DEF AllStrings, OfKind
    <3>2. CASE open[o] = NotOpen
      BY <1>6, <2>3, <3>1, <3>2 DEF Unswept, AllStrings, AllOthers, OfKind
    <3>3. CASE open[o] # NotOpen
      <4>1. open[o][1] \in alloc /\ kind[open[o][1]] = "thread" /\ open[o][1] \in Obj
        BY <3>3, Shapes
      <4>2. open[open[o][1]] = NotOpen
        BY <4>1, Shapes
      <4>3. open[o][1] \notin T
        BY <1>3, <4>1 DEF OfKind
      <4> QED
        BY <1>6, <3>3, <4>1, <4>2, <4>3 DEF Unswept, AllOthers, AllStrings, OfKind
    <3> QED
      BY <3>2, <3>3
  <2> QED
    BY <1>1, <2>1, <2>2, <2>3 DEF SweepingOK
<1>21. ListsOK(color, gray, grayagain, weak)'
  BY <1>1 DEF ListsOK
<1> QED
  BY <1>1, <1>14, <1>15, <1>16, <1>17, <1>18, <1>19, <1>20, <1>21 DEF GCInv

-------------------------------------------------------------------------------
(* Sweeping *)

\* Only dead objects are freed, and the open upvalues of a freed thread with it.
Freeable(D, C) ==
  /\ D \in SUBSET alloc /\ C \in SUBSET Obj
  /\ \A x \in D : isdead(x)
  /\ C \cap D = {} /\ \A u \in C : open[u] # NotOpen
  /\ \A u \in Obj : open[u] # NotOpen /\ open[u][1] \in D => u \in D \cup C

\* What is freed loses all that it held, what is closed keeps its value, and the
\* rest is as it was.
Freed(D, C) ==
  /\ alloc' \subseteq Obj /\ alloc' = alloc \ D
  /\ tab' \in [Obj -> [Keys -> Values \cup {Nil, NoKey}]]
  /\ mode' \in [Obj -> SUBSET {"k", "v"}]
  /\ link' \in [Obj -> SUBSET Obj]
  /\ open' \in [Obj -> {NotOpen} \cup (Obj \X Slots)]
  /\ val' \in [Obj -> Values \cup {Nil}]
  /\ stk' \in [Obj -> [Slots -> Values \cup {Nil}]]
  /\ LinksOK(alloc', link', open')
  /\ \A o \in Obj : open'[o] = IF o \in D \cup C THEN NotOpen ELSE open[o]
  /\ \A o \in D : tab'[o] = EmptyTable /\ link'[o] = {} /\ stk'[o] = EmptyStack /\ open'[o] = NotOpen
  /\ \A o \in Obj \ D : tab'[o] = tab[o] /\ link'[o] = link[o] /\ stk'[o] = stk[o]
  /\ \A o \in Alive(alloc, color), r \in Obj :
        Points(o, r, tab', link', stk', open', val') => Points(o, r, tab, link, stk, open, val)
  /\ \A o \in Obj \ D, r \in Obj :
        Holds(o, r, tab', link', stk', open', val') => Holds(o, r, tab, link, stk, open, val)

\* FreeAndClose on such sets.
LEMMA FreedFacts ==
  ASSUME GCInv, NEW D, NEW C, Freeable(D, C), FreeAndClose(D, C)
  PROVE  Freed(D, C)
<1>0. /\ D \in SUBSET alloc /\ C \in SUBSET Obj
      /\ \A x \in D : isdead(x)
      /\ C \cap D = {} /\ \A u \in C : open[u] # NotOpen
      /\ \A u \in Obj : open[u] # NotOpen /\ open[u][1] \in D => u \in D \cup C
  BY DEF Freeable
<1>1. /\ alloc \subseteq Obj /\ color \in [Obj -> Colors]
      /\ tab \in [Obj -> [Keys -> Values \cup {Nil, NoKey}]]
      /\ mode \in [Obj -> SUBSET {"k", "v"}]
      /\ link \in [Obj -> SUBSET Obj]
      /\ open \in [Obj -> {NotOpen} \cup (Obj \X Slots)]
      /\ val \in [Obj -> Values \cup {Nil}]
      /\ stk \in [Obj -> [Slots -> Values \cup {Nil}]]
      /\ LinksOK(alloc, link, open)
  BY DEF GCInv, TypesOK
<1>2. /\ alloc' = alloc \ D
      /\ tab'  = [o \in Obj |-> IF o \in D THEN EmptyTable ELSE tab[o]]
      /\ mode' = [o \in Obj |-> IF o \in D THEN {} ELSE mode[o]]
      /\ link' = [o \in Obj |-> IF o \in D THEN {} ELSE link[o]]
      /\ stk'  = [o \in Obj |-> IF o \in D THEN EmptyStack ELSE stk[o]]
      /\ open' = [o \in Obj |-> IF o \in D \cup C THEN NotOpen ELSE open[o]]
      /\ val'  = [o \in Obj |-> IF o \in D THEN Nil ELSE IF o \in C THEN UpvalValue(o) ELSE val[o]]
  BY DEF FreeAndClose
<1>3. EmptyTable \in [Keys -> Values \cup {Nil, NoKey}] /\ EmptyStack \in [Slots -> Values \cup {Nil}]
  BY DEF EmptyTable, EmptyStack
<1>4. /\ tab' \in [Obj -> [Keys -> Values \cup {Nil, NoKey}]]
      /\ mode' \in [Obj -> SUBSET {"k", "v"}]
      /\ link' \in [Obj -> SUBSET Obj]
      /\ open' \in [Obj -> {NotOpen} \cup (Obj \X Slots)]
      /\ stk' \in [Obj -> [Slots -> Values \cup {Nil}]]
  BY <1>0, <1>1, <1>2, <1>3
<1>5. val' \in [Obj -> Values \cup {Nil}]
  <2>1. \A o \in Obj : UpvalValue(o) \in Values \cup {Nil}
    BY UpvalueFacts
  <2> QED
    BY <1>0, <1>1, <1>2, <2>1
<1>6. \A o \in Obj : open'[o] = IF o \in D \cup C THEN NotOpen ELSE open[o]
  BY <1>0, <1>2
<1>7. \A o \in D : tab'[o] = EmptyTable /\ link'[o] = {} /\ stk'[o] = EmptyStack /\ open'[o] = NotOpen
  BY <1>0, <1>1, <1>2
<1>8. \A o \in Obj \ D : /\ tab'[o] = tab[o] /\ link'[o] = link[o] /\ stk'[o] = stk[o]
                         /\ val'[o] = IF o \in C THEN UpvalValue(o) ELSE val[o]
  BY <1>0, <1>2
<1>9. LinksOK(alloc', link', open')
  <2> SUFFICES ASSUME NEW o \in Obj
               PROVE  /\ open'[o] # NotOpen => kind[o] = "upval" /\ kind[open'[o][1]] = "thread" /\ open'[o][1] \in alloc'
                      /\ kind[o] \notin {"table", "func", "udata"} => link'[o] = {}
                      /\ kind[o] # "func" => link'[o] \subseteq Values
    BY DEF LinksOK
  <2>1. open'[o] # NotOpen => kind[o] = "upval" /\ kind[open'[o][1]] = "thread" /\ open'[o][1] \in alloc'
    BY <1>0, <1>1, <1>2, <1>6 DEF LinksOK
  <2>2. link'[o] = {} \/ link'[o] = link[o]
    BY <1>0, <1>7, <1>8
  <2> QED
    BY <1>0, <1>1, <2>1, <2>2 DEF LinksOK
<1>10. ASSUME NEW u \in Obj \ D
       PROVE  ValueOf(u, stk', open', val') = ValueOf(u, stk, open, val)
  <2>1. CASE u \in C
    BY <1>0, <1>6, <1>8, <2>1, UpvalueFacts DEF ValueOf
  <2>2. CASE u \notin C /\ open[u] = NotOpen
    BY <1>0, <1>6, <1>8, <2>2 DEF ValueOf
  <2>3. CASE u \notin C /\ open[u] # NotOpen
    <3>1. open[u][1] \in Obj \ D
      BY <1>0, <2>3, Shapes
    <3> QED
      BY <1>0, <1>6, <1>8, <2>3, <3>1 DEF ValueOf
  <2> QED
    BY <1>0, <2>1, <2>2, <2>3
<1>11. ASSUME NEW o \in Alive(alloc, color), NEW r \in Obj, Points(o, r, tab', link', stk', open', val')
       PROVE  Points(o, r, tab, link, stk, open, val)
  <2>1. o \in Obj \ D
    BY <1>0, <1>1 DEF Alive, isdead
  <2>2. \A u \in link[o] : u \in Obj \ D
    <3>1. \A u \in link[o] : u \in Obj /\ Points(o, u, tab, link, stk, open, val)
      BY <1>0, <2>1, Shapes DEF Points
    <3>2. \A u \in link[o] : u \in Alive(alloc, color)
      BY <1>0, <3>1 DEF GCInv, Sound
    <3> QED
      BY <1>0, <3>1, <3>2 DEF Alive, isdead
  <2> QED
    BY <1>0, <1>8, <1>10, <1>11, <2>1, <2>2 DEF Points
<1>12. ASSUME NEW o \in Obj \ D, NEW r \in Obj, Holds(o, r, tab', link', stk', open', val')
       PROVE  Holds(o, r, tab, link, stk, open, val)
  BY <1>0, <1>8, <1>10, <1>12 DEF Holds
<1> QED
  BY <1>0, <1>1, <1>2, <1>4, <1>5, <1>6, <1>7, <1>8, <1>9, <1>11, <1>12 DEF Freed

\* One object is swept, a thread with its open upvalues.
LEMMA Swept ==
  ASSUME GCInv, gcstate \in {"sweepstring", "sweep"}, NEW o \in sweepstr \cup sweepgc, sweeplist(o),
         sweepstr' = sweepstr \ {o}, sweepgc' = sweepgc \ {o},
         UNCHANGED <<mt, running, gcstate, lists, tmudata, full>>
  PROVE  GCInv'
<1> DEFINE swept == {o} \cup OpenUpvals(o)
           D == {x \in swept : isdead(x)}
           C == IF o \in D THEN swept \ (D \cup {o}) ELSE {}
<1>1. /\ alloc \subseteq Obj /\ color \in [Obj -> Colors]
      /\ SweepingOK(alloc, color, open, tmudata, sweepstr, sweepgc)
      /\ gray = {} /\ grayagain = {} /\ weak = {}
      /\ ColorsOK(alloc, color, open, tmudata)
      /\ FreshOK(alloc, color, tab, link, stk, open)
      /\ (gcstate = "sweep" => sweepstr = {})
  BY DEF GCInv, TypesOK
<1>2. /\ o \in alloc /\ o \in Obj /\ open[o] = NotOpen /\ o \notin tmudata
  <2>1. o \in alloc /\ o \in Obj /\ o \notin tmudata
    BY <1>1 DEF SweepingOK, ColorsOK
  <2> QED
    BY <1>1, <2>1, Shapes DEF SweepingOK
<1>3. /\ \A u \in OpenUpvals(o) : u \in alloc /\ kind[u] = "upval" /\ open[u] # NotOpen /\ open[u][1] = o
      /\ \A u \in Obj : open[u] # NotOpen /\ open[u][1] = o => u \in OpenUpvals(o)
      /\ OpenUpvals(o) \subseteq Obj
  <2>1. \A u \in Obj : open[u] # NotOpen => kind[u] = "upval" /\ u \in alloc
    BY Shapes
  <2> QED
    BY <1>1, <2>1 DEF OpenUpvals, OfKind
<1>4. FreeAndClose(D, C) /\ color' = [x \in Obj |-> IF x \in swept THEN "white" ELSE color[x]]
  BY DEF sweeplist
<1>5. /\ D \subseteq swept /\ C \subseteq swept \ {o} /\ C \cap D = {} /\ \A x \in D : isdead(x)
      /\ swept \subseteq alloc /\ (o \in D => swept \subseteq D \cup C)
      /\ \A x \in swept : isdead(x) => x \in D
  BY <1>2, <1>3
<1>6. \A x \in Obj : /\ x \in swept => x = o \/ (open[x] # NotOpen /\ open[x][1] = o /\ kind[x] = "upval")
                     /\ open[x] # NotOpen /\ open[x][1] = o => x \in swept
                     /\ x \in swept /\ x # o => kind[x] = "upval"
  BY <1>3
<1>7. \A u \in C : open[u] # NotOpen
  BY <1>3
<1>8. o \in swept
  OBVIOUS
<1> HIDE DEF swept, D, C
<1>9. \A u \in Obj : open[u] # NotOpen /\ open[u][1] \in D => u \in D \cup C
  <2> SUFFICES ASSUME NEW u \in Obj, open[u] # NotOpen, open[u][1] \in D
               PROVE  u \in D \cup C
    OBVIOUS
  <2>1. kind[open[u][1]] = "thread" /\ open[u][1] \in Obj
    BY Shapes
  <2>2. open[u][1] = o
    BY <1>5, <1>6, <2>1
  <2> QED
    BY <1>5, <1>6, <2>2
<1>10. /\ alloc' \subseteq Obj /\ alloc' = alloc \ D
       /\ tab' \in [Obj -> [Keys -> Values \cup {Nil, NoKey}]]
       /\ mode' \in [Obj -> SUBSET {"k", "v"}]
       /\ link' \in [Obj -> SUBSET Obj]
       /\ open' \in [Obj -> {NotOpen} \cup (Obj \X Slots)]
       /\ val' \in [Obj -> Values \cup {Nil}]
       /\ stk' \in [Obj -> [Slots -> Values \cup {Nil}]]
       /\ LinksOK(alloc', link', open')
       /\ \A p \in Obj : open'[p] = IF p \in D \cup C THEN NotOpen ELSE open[p]
       /\ \A p \in D : tab'[p] = EmptyTable /\ link'[p] = {} /\ stk'[p] = EmptyStack /\ open'[p] = NotOpen
       /\ \A p \in Obj \ D : tab'[p] = tab[p] /\ link'[p] = link[p] /\ stk'[p] = stk[p]
       /\ \A p \in Alive(alloc, color), r \in Obj :
             Points(p, r, tab', link', stk', open', val') => Points(p, r, tab, link, stk, open, val)
  <2>1. Freeable(D, C)
    BY <1>1, <1>5, <1>7, <1>9 DEF Freeable
  <2>2. Freed(D, C)
    BY <1>4, <2>1, FreedFacts
  <2> QED
    BY <2>2 DEF Freed
<1>11. /\ color' \in [Obj -> Colors]
       /\ \A p \in Obj : color'[p] = IF p \in swept THEN "white" ELSE color[p]
  BY <1>1, <1>4 DEF Colors
<1>12. Alive(alloc', color') = Alive(alloc, color)
  <2>1. \A p \in Obj : p \in alloc' /\ color'[p] # "dead" <=> p \in alloc /\ color[p] # "dead"
    BY <1>5, <1>10, <1>11 DEF isdead
  <2> QED
    BY <1>1, <1>10, <2>1 DEF Alive
<1>13. /\ mt' = mt /\ running' = running /\ gcstate' = gcstate /\ full' = full /\ tmudata' = tmudata
       /\ gray' = {} /\ grayagain' = {} /\ weak' = {}
  BY <1>1 DEF lists
<1>14. TypesOK'
  BY <1>10, <1>11, <1>13 DEF GCInv, TypesOK
<1>15. LinksOK(alloc, link, open)'
  BY <1>10
<1>16. FreshOK(alloc, color, tab, link, stk, open)'
  BY <1>1, <1>5, <1>10, <1>11 DEF FreshOK
<1>17. ColorsOK(alloc, color, open, tmudata)'
  <2>1. tmudata \subseteq {p \in alloc' : kind[p] = "udata"}
    BY <1>1, <1>5, <1>10 DEF ColorsOK, isdead
  <2> QED
    BY <1>1, <1>10, <1>11, <1>13, <2>1 DEF ColorsOK
<1>18. RootsOK(alloc, color, mt, running)'
  BY <1>12, <1>13 DEF GCInv, RootsOK
<1>19. Sound(alloc, color, tab, link, stk, open, val)'
  BY <1>10, <1>12 DEF GCInv, Sound
<1>20. ListsOK(color, gray, grayagain, weak)'
  BY <1>13 DEF ListsOK
<1>21. SweepingOK(alloc, color, open, tmudata, sweepstr, sweepgc)'
  <2>1. sweepstr' \subseteq {p \in alloc' : kind[p] = "string"}
    <3>1. \A p \in sweepstr \ {o} : p \in alloc /\ p \in Obj /\ kind[p] = "string"
      BY <1>1 DEF SweepingOK
    <3>2. \A p \in sweepstr \ {o} : p \notin D
      BY <1>5, <1>6, <3>1
    <3> QED
      BY <1>10, <3>1, <3>2
  <2>2. sweepgc' \subseteq {p \in alloc' : kind[p] # "string" /\ open'[p] = NotOpen /\ p \notin tmudata'}
    <3>1. \A p \in sweepgc \ {o} : p \in alloc /\ p \in Obj /\ kind[p] # "string" /\ open[p] = NotOpen /\ p \notin tmudata
      BY <1>1 DEF SweepingOK
    <3>2. \A p \in sweepgc \ {o} : p \notin D /\ open'[p] = NotOpen
      BY <1>5, <1>6, <1>10, <3>1
    <3> QED
      BY <1>10, <1>13, <3>1, <3>2
  <2>3. ASSUME NEW p \in Obj \ tmudata, color'[p] # "white"
        PROVE  Unswept(p, open', sweepstr', sweepgc')
    <3>1. p \notin swept /\ color[p] # "white" /\ p # o
      BY <1>8, <1>11, <2>3
    <3>2. open'[p] = open[p]
      BY <1>5, <1>10, <3>1
    <3>3. Unswept(p, open, sweepstr, sweepgc)
      BY <1>1, <3>1 DEF SweepingOK
    <3> QED
      BY <1>6, <3>1, <3>2, <3>3 DEF Unswept
  <2> QED
    BY <1>13, <2>1, <2>2, <2>3 DEF SweepingOK
<1> QED
  BY <1>1, <1>13, <1>14, <1>15, <1>16, <1>17, <1>18, <1>19, <1>20, <1>21 DEF GCInv

\* A phase of the sweep ends.
LEMMA PhaseEnds ==
  ASSUME GCInv, NextPhase
  PROVE  GCInv'
<1>1. /\ alloc' = alloc /\ color' = color /\ tab' = tab /\ mode' = mode /\ link' = link /\ open' = open
      /\ val' = val /\ stk' = stk /\ mt' = mt /\ running' = running
      /\ gray' = gray /\ grayagain' = grayagain /\ weak' = weak
      /\ sweepstr' = sweepstr /\ sweepgc' = sweepgc /\ tmudata' = tmudata
      /\ gcstate # "propagate" /\ gcstate' \in {"sweep", "finalize", "pause"}
      /\ full' \in {"no", full}
      /\ gcstate' = "sweep" => gcstate = "sweepstring" /\ sweepstr = {}
      /\ gcstate' = "finalize" => gcstate = "sweep" /\ sweepgc = {}
      /\ gcstate' = "pause" => gcstate = "finalize"
  BY DEF NextPhase, heap, lists
<1>2. TypesOK'
  BY <1>1 DEF GCInv, TypesOK
<1> QED
  BY <1>1, <1>2 DEF GCInv

\* luaC_fullgc throws the marks away, or lets the sweep go on.
LEMMA FullStarts ==
  ASSUME GCInv, luaC_fullgc
  PROVE  GCInv'
<1>1. /\ alloc' = alloc /\ color' = color /\ tab' = tab /\ mode' = mode /\ link' = link /\ open' = open
      /\ val' = val /\ stk' = stk /\ mt' = mt /\ running' = running /\ tmudata' = tmudata
      /\ full' = "sweeping"
  BY DEF luaC_fullgc, heap
<1>2. CASE gcstate \in {"pause", "propagate"}
  <2>1. /\ sweepstr' = AllStrings /\ sweepgc' = AllOthers /\ gcstate' = "sweepstring"
        /\ gray' = {} /\ grayagain' = {} /\ weak' = {}
    BY <1>2 DEF luaC_fullgc
  <2>2. SweepingOK(alloc, color, open, tmudata, AllStrings, AllOthers)
    <3>1. AllStrings \subseteq {o \in alloc : kind[o] = "string"}
      BY DEF AllStrings, OfKind
    <3>2. AllOthers \subseteq {o \in alloc : kind[o] # "string" /\ open[o] = NotOpen /\ o \notin tmudata}
      BY DEF AllOthers, AllStrings, OfKind
    <3>3. ASSUME NEW o \in Obj \ tmudata, color[o] # "white"
          PROVE  Unswept(o, open, AllStrings, AllOthers)
      <4>1. o \in alloc
        BY <3>3 DEF GCInv, FreshOK
      <4>2. CASE open[o] = NotOpen
        BY <3>3, <4>1, <4>2 DEF Unswept, AllStrings, AllOthers, OfKind
      <4>3. CASE open[o] # NotOpen
        <5>1. open[o][1] \in alloc /\ kind[open[o][1]] = "thread" /\ open[o][1] \in Obj
          BY <4>3, Shapes
        <5>2. open[open[o][1]] = NotOpen
          BY <5>1, Shapes
        <5>3. open[o][1] \notin tmudata
          BY <5>1 DEF GCInv, ColorsOK
        <5> QED
          BY <4>3, <5>1, <5>2, <5>3 DEF Unswept, AllOthers, AllStrings, OfKind
      <4> QED
        BY <4>2, <4>3
    <3> QED
      BY <3>1, <3>2, <3>3 DEF SweepingOK
  <2>3. TypesOK'
    BY <1>1, <2>1 DEF GCInv, TypesOK
  <2>4. ListsOK(color, gray, grayagain, weak)'
    BY <2>1 DEF ListsOK
  <2> QED
    BY <1>1, <2>1, <2>2, <2>3, <2>4 DEF GCInv
<1>3. CASE gcstate \notin {"pause", "propagate"}
  <2>1. /\ sweepstr' = sweepstr /\ sweepgc' = sweepgc /\ gcstate' = gcstate
        /\ gray' = gray /\ grayagain' = grayagain /\ weak' = weak
    BY <1>3 DEF luaC_fullgc, lists
  <2>2. TypesOK'
    BY <1>1, <2>1 DEF GCInv, TypesOK
  <2> QED
    BY <1>1, <1>3, <2>1, <2>2 DEF GCInv
<1> QED
  BY <1>2, <1>3

-------------------------------------------------------------------------------
(* What scripts hold, and where they store it *)

\* What a script reads from an object, the object refers to.
LEMMA ReadableFacts ==
  ASSUME GCInv, NEW o \in Obj
  PROVE  /\ Readable(o) \subseteq Values
         /\ \A r \in Readable(o) : Points(o, r, tab, link, stk, open, val)
<1>0. Values \subseteq Obj /\ Keys \cap Obj \subseteq Values
  BY HeapAssumption DEF Values, Keys
<1>1. CASE kind[o] = "table"
  <2>1. Readable(o) = (link[o] \cup {k \in Keys \cap Obj : tab[o][k] \in Obj}
                               \cup ({tab[o][k] : k \in Keys} \cap Obj)) \ {Nil}
    BY <1>1 DEF Readable
  <2>2. link[o] \subseteq Values
    BY <1>1, Shapes
  <2>3. \A k \in Keys : tab[o][k] \in Obj => tab[o][k] \in Values
    BY Shapes, HeapAssumption
  <2> QED
    BY <1>0, <1>1, <2>1, <2>2, <2>3 DEF Points
<1>2. CASE kind[o] = "thread"
  <2>1. Readable(o) = {stk[o][s] : s \in Slots} \ {Nil}
    BY <1>2 DEF Readable
  <2> QED
    BY <1>2, <2>1, Shapes DEF Points
<1>3. CASE kind[o] = "func"
  <2>1. Readable(o) = {UpvalValue(u) : u \in {x \in link[o] : kind[x] = "upval"}} \ {Nil}
    BY <1>3 DEF Readable
  <2>2. \A u \in link[o] : UpvalValue(u) = ValueOf(u, stk, open, val) /\ UpvalValue(u) \in Values \cup {Nil}
    <3>1. link[o] \subseteq Obj
      BY Shapes
    <3> QED
      BY <3>1, UpvalueFacts
  <2> QED
    BY <1>3, <2>1, <2>2 DEF Points
<1>4. CASE kind[o] \notin {"table", "thread", "func"}
  <2>1. Readable(o) = link[o] \ {Nil}
    BY <1>4 DEF Readable
  <2> QED
    BY <1>4, <2>1, Shapes DEF Points
<1> QED
  BY <1>1, <1>2, <1>3, <1>4

\* What a script has at hand is alive.
LEMMA HeldFacts ==
  ASSUME GCInv
  PROVE  /\ Held \subseteq Values /\ Held \subseteq Alive(alloc, color)
         /\ Registry \in Alive(alloc, color) /\ Main \in Alive(alloc, color)
         /\ running \in Alive(alloc, color) /\ Nil \notin Held
         /\ alloc \subseteq Obj /\ Alive(alloc, color) \subseteq alloc /\ Values \subseteq Obj
<1>1. /\ running \in Obj /\ kind[running] = "thread" /\ alloc \subseteq Obj
      /\ Registry \in Obj /\ Main \in Obj /\ Nil \notin Obj
  BY HeapAssumption DEF GCInv, TypesOK
<1>2. {Main, Registry, running} \subseteq Alive(alloc, color)
  BY <1>1 DEF GCInv, RootsOK
<1>3. \A o \in Alive(alloc, color), r \in Obj : Points(o, r, tab, link, stk, open, val) => r \in Alive(alloc, color)
  BY DEF GCInv, Sound
<1>4. Alive(alloc, color) \subseteq alloc /\ Values \subseteq Obj
  BY DEF Alive, Values
<1>5. InStack \subseteq Values /\ InStack \subseteq Alive(alloc, color)
  <2>1. InStack \subseteq Values
    BY <1>1, Shapes DEF InStack
  <2>2. \A r \in InStack : Points(running, r, tab, link, stk, open, val)
    BY <1>1 DEF InStack, Points
  <2> QED
    BY <1>2, <1>3, <1>4, <2>1, <2>2
<1>6. ASSUME NEW o \in InStack \cup {Registry}
      PROVE  Readable(o) \subseteq Values /\ Readable(o) \subseteq Alive(alloc, color)
  <2>1. o \in Obj /\ o \in Alive(alloc, color)
    BY <1>1, <1>2, <1>4, <1>5
  <2> QED
    BY <1>3, <1>4, <2>1, ReadableFacts
<1>7. Held \subseteq Values /\ Held \subseteq Alive(alloc, color)
  BY <1>5, <1>6 DEF Held
<1> QED
  BY <1>1, <1>2, <1>4, <1>7

\* v is put into slot s of thread t.
Put(t, s, v) == stk' = [stk EXCEPT ![t][s] = v]

\* What that changes: no more than what the thread, and the upvalues open in it,
\* refer to.
PutOK(t, s, v) ==
  /\ stk' \in [Obj -> [Slots -> Values \cup {Nil}]]
  /\ \A o \in Obj, r \in Obj : Points(o, r, tab, link, stk', open, val)
                                 => Points(o, r, tab, link, stk, open, val) \/ r = v
  /\ \A o \in Obj, r \in Obj : open[o] = NotOpen /\ Holds(o, r, tab, link, stk', open, val)
                                 => Holds(o, r, tab, link, stk, open, val)
  /\ \A o \in Obj \ {t} : stk'[o] = stk[o]
  /\ \A r \in Slots : r # s => stk'[t][r] = stk[t][r]

\* A value is put into a stack.
LEMMA StackStored ==
  ASSUME GCInv, NEW t \in Obj, NEW s, NEW v \in Values \cup {Nil}, Put(t, s, v)
  PROVE  PutOK(t, s, v)
<1>1. stk \in [Obj -> [Slots -> Values \cup {Nil}]]
  BY DEF GCInv, TypesOK
<1>2. /\ stk' \in [Obj -> [Slots -> Values \cup {Nil}]]
      /\ \A o \in Obj \ {t} : stk'[o] = stk[o]
      /\ \A r \in Slots : r # s => stk'[t][r] = stk[t][r]
      /\ \A o \in Obj, r \in Slots : stk'[o][r] = stk[o][r] \/ stk'[o][r] = v
  BY <1>1 DEF Put
<1>3. \A u \in Obj : /\ ValueOf(u, stk', open, val) \in {ValueOf(u, stk, open, val), v}
                     /\ open[u] = NotOpen => ValueOf(u, stk', open, val) = ValueOf(u, stk, open, val)
  <2> SUFFICES ASSUME NEW u \in Obj
               PROVE  /\ ValueOf(u, stk', open, val) \in {ValueOf(u, stk, open, val), v}
                      /\ open[u] = NotOpen => ValueOf(u, stk', open, val) = ValueOf(u, stk, open, val)
    OBVIOUS
  <2>1. CASE open[u] = NotOpen
    BY <2>1 DEF ValueOf
  <2>2. CASE open[u] # NotOpen
    <3>1. open[u][1] \in Obj /\ open[u][2] \in Slots
      BY <2>2, Shapes
    <3> QED
      BY <1>2, <2>2, <3>1 DEF ValueOf
  <2> QED
    BY <2>1, <2>2
<1>4. ASSUME NEW o \in Obj, NEW r \in Obj, Points(o, r, tab, link, stk', open, val), r # v
      PROVE  Points(o, r, tab, link, stk, open, val)
  <2>1. link[o] \subseteq Obj
    BY Shapes
  <2>2. CASE kind[o] = "thread"
    BY <1>2, <1>4, <2>2 DEF Points
  <2>3. CASE kind[o] = "upval"
    BY <1>3, <1>4, <2>3 DEF Points
  <2>4. CASE kind[o] = "func"
    <3>1. CASE r \in link[o]
      BY <3>1 DEF Points
    <3>2. CASE r \notin link[o]
      <4>1. PICK u \in link[o] : kind[u] = "upval" /\ r = ValueOf(u, stk', open, val)
        BY <1>4, <2>4, <3>2 DEF Points
      <4>2. r = ValueOf(u, stk, open, val)
        BY <1>3, <1>4, <2>1, <4>1
      <4> QED
        BY <2>4, <4>1, <4>2 DEF Points
    <3> QED
      BY <3>1, <3>2
  <2>5. CASE kind[o] \notin {"thread", "upval", "func"}
    BY <1>4, <2>5 DEF Points
  <2> QED
    BY <2>2, <2>3, <2>4, <2>5
<1>5. ASSUME NEW o \in Obj, NEW r \in Obj, open[o] = NotOpen, Holds(o, r, tab, link, stk', open, val)
      PROVE  Holds(o, r, tab, link, stk, open, val)
  BY <1>3, <1>5 DEF Holds
<1> QED
  BY <1>2, <1>4, <1>5 DEF PutOK

\* A value that is alive, new, or a string that nothing has swept yet, is put into
\* a stack: the collector need not know, for stacks are never black.
LEMMA StackStep ==
  ASSUME GCInv, NEW t \in alloc, kind[t] = "thread", NEW s, NEW v \in Values \cup {Nil},
         stk' = [stk EXCEPT ![t][s] = v],
         v # Nil => \/ v \in Alive(alloc, color) \/ v \notin alloc \/ kind[v] = "string",
         alloc' = alloc \cup ({v} \ {Nil}),
         color' \in [Obj -> Colors], \A o \in Obj : color'[o] = color[o] \/ (o = v /\ color'[o] = "white"),
         v # Nil => color'[v] # "dead",
         tmudata' \subseteq tmudata, \A o \in tmudata \ tmudata' : color'[o] = "white",
         gcstate = "propagate" => tmudata' = tmudata /\ \A o \in alloc : color'[o] = color[o],
         UNCHANGED <<tab, mode, link, open, val, mt, running, gcstate, lists, sweepstr, sweepgc, full>>
  PROVE  GCInv'
<1>1. /\ tab' = tab /\ mode' = mode /\ link' = link /\ open' = open /\ val' = val
      /\ mt' = mt /\ running' = running /\ gray' = gray /\ grayagain' = grayagain /\ weak' = weak
      /\ gcstate' = gcstate /\ sweepstr' = sweepstr /\ sweepgc' = sweepgc /\ full' = full
  BY DEF lists
<1>2. /\ alloc \subseteq Obj /\ Values \subseteq Obj /\ Nil \notin Obj /\ t \in Obj
      /\ LinksOK(alloc, link, open)
      /\ FreshOK(alloc, color, tab, link, stk, open)
      /\ ColorsOK(alloc, color, open, tmudata)
      /\ RootsOK(alloc, color, mt, running)
      /\ Sound(alloc, color, tab, link, stk, open, val)
      /\ ListsOK(color, gray, grayagain, weak)
  BY HeapAssumption DEF GCInv, TypesOK, Values
<1>3. /\ stk' \in [Obj -> [Slots -> Values \cup {Nil}]]
      /\ \A o \in Obj, r \in Obj : Points(o, r, tab, link, stk', open, val)
                                     => Points(o, r, tab, link, stk, open, val) \/ r = v
      /\ \A o \in Obj, r \in Obj : open[o] = NotOpen /\ Holds(o, r, tab, link, stk', open, val)
                                     => Holds(o, r, tab, link, stk, open, val)
      /\ \A o \in Obj \ {t} : stk'[o] = stk[o]
  <2>1. Put(t, s, v)
    BY DEF Put
  <2>2. PutOK(t, s, v)
    BY <1>2, <2>1, StackStored
  <2> QED
    BY <2>2 DEF PutOK
<1>4. alloc' \subseteq Obj /\ alloc \subseteq alloc' /\ (v # Nil => v \in alloc' /\ v \in Obj)
  BY <1>2
<1>5. Alive(alloc, color) \subseteq Alive(alloc', color')
      /\ Alive(alloc', color') \subseteq Alive(alloc, color) \cup {v}
      /\ (v # Nil => v \in Alive(alloc', color'))
  BY <1>2, <1>4 DEF Alive
<1>6. TypesOK'
  BY <1>1, <1>3, <1>4 DEF GCInv, TypesOK
<1>7. LinksOK(alloc, link, open)'
  BY <1>1, <1>2, <1>4 DEF LinksOK
<1>8. FreshOK(alloc, color, tab, link, stk, open)'
  BY <1>1, <1>2, <1>3, <1>4 DEF FreshOK
<1>9. ColorsOK(alloc, color, open, tmudata)'
  BY <1>1, <1>2, <1>4 DEF ColorsOK
<1>10. RootsOK(alloc, color, mt, running)'
  BY <1>1, <1>2, <1>5 DEF RootsOK
<1>11. Sound(alloc, color, tab, link, stk, open, val)'
  <2> SUFFICES ASSUME NEW o \in Alive(alloc', color'), NEW r \in Obj, Points(o, r, tab, link, stk', open, val)
               PROVE  r \in Alive(alloc', color')
    BY <1>1 DEF Sound
  <2>1. CASE o \in Alive(alloc, color)
    <3>1. o \in Obj
      BY <1>2, <2>1 DEF Alive
    <3>2. r = v \/ r \in Alive(alloc, color)
      BY <1>2, <1>3, <2>1, <3>1 DEF Sound
    <3> QED
      BY <1>2, <1>5, <3>2
  <2>2. CASE o \notin Alive(alloc, color)
    <3>1. o = v /\ o \in Values /\ kind[o] # "upval" /\ (o \notin alloc \/ kind[o] = "string")
      BY <1>2, <1>4, <1>5, <2>2 DEF Alive, Values
    <3>2. CASE kind[o] = "string"
      BY <1>2, <3>1, <3>2, Shapes DEF Points
    <3>3. CASE o \notin alloc
      <4>1. tab[o] = EmptyTable /\ link[o] = {} /\ stk'[o] = EmptyStack
        BY <1>2, <1>3, <3>1, <3>3 DEF FreshOK
      <4>2. \A k \in Keys : tab[o][k] \notin Obj
        BY <4>1, HeapAssumption DEF EmptyTable
      <4>3. \A q \in Slots : stk'[o][q] = Nil
        BY <4>1 DEF EmptyStack
      <4>4. r = Registry
        BY <1>2, <3>1, <4>1, <4>2, <4>3 DEF Points
      <4> QED
        BY <1>5, <4>4, HeldFacts
    <3> QED
      BY <3>1, <3>2, <3>3
  <2> QED
    BY <2>1, <2>2
<1>12. ASSUME gcstate = "propagate"
       PROVE  /\ \A o \in Obj : color'[o] = color[o]
              /\ MarkingOK(color', tmudata', gray, grayagain, weak, tab, link, stk', open, val)
              /\ ListsOK(color', gray, grayagain, weak)
  <2>1. \A o \in Obj : color'[o] = color[o]
    BY <1>2, <1>12 DEF FreshOK
  <2>2. MarkingOK(color, tmudata, gray, grayagain, weak, tab, link, stk, open, val)
    BY <1>12 DEF GCInv
  <2>3. color \in [Obj -> Colors]
    BY DEF GCInv, TypesOK
  <2>4. color' = color /\ tmudata' = tmudata
    BY <1>12, <2>1, <2>3
  <2>5. Settled(color, tmudata, tab, link, stk', open, val)
    <3>1. Settled(color, tmudata, tab, link, stk, open, val)
      BY <2>2 DEF MarkingOK
    <3>2. \A o \in Obj : color[o] = "black" => open[o] = NotOpen
      BY <1>2 DEF ColorsOK
    <3> QED
      BY <1>3, <3>1, <3>2 DEF Settled
  <2> QED
    BY <1>2, <2>1, <2>2, <2>4, <2>5 DEF MarkingOK
<1>13. ASSUME gcstate # "propagate"
       PROVE  /\ SweepingOK(alloc', color', open, tmudata', sweepstr, sweepgc)
              /\ gray = {} /\ grayagain = {} /\ weak = {}
  <2>1. SweepingOK(alloc, color, open, tmudata, sweepstr, sweepgc) /\ gray = {} /\ grayagain = {} /\ weak = {}
    BY <1>13 DEF GCInv
  <2> QED
    BY <1>4, <2>1 DEF SweepingOK
<1>14. ListsOK(color, gray, grayagain, weak)'
  <2>1. CASE gcstate = "propagate"
    BY <1>1, <1>12, <2>1
  <2>2. CASE gcstate # "propagate"
    BY <1>1, <1>13, <2>2 DEF ListsOK
  <2> QED
    BY <2>1, <2>2
<1> QED
  BY <1>1, <1>6, <1>7, <1>8, <1>9, <1>10, <1>11, <1>12, <1>13, <1>14 DEF GCInv

\* GCTM hands a userdata to its finalizer.
LEMMA FinalizerCalled ==
  ASSUME GCInv, NEW u \in Obj, GCTM(u)
  PROVE  GCInv'
<1>1. /\ gcstate = "finalize" /\ u \in tmudata
      /\ tmudata' = tmudata \ {u} /\ color' = [color EXCEPT ![u] = "white"]
      /\ stk' = [stk EXCEPT ![running][Temp] = u] /\ alloc' = alloc
      /\ UNCHANGED <<tab, mode, link, open, val, mt, running, gcstate, lists, sweepstr, sweepgc, full>>
  BY DEF GCTM
<1>2. /\ u \in alloc /\ kind[u] = "udata" /\ color[u] # "dead" /\ u # Nil /\ u \in Values
      /\ color \in [Obj -> Colors] /\ kind[running] = "thread"
  BY <1>1, HeapAssumption DEF GCInv, ColorsOK, TypesOK, Values
<1>3. /\ color' \in [Obj -> Colors] /\ \A o \in Obj : color'[o] = color[o] \/ (o = u /\ color'[o] = "white")
      /\ color'[u] = "white"
  BY <1>1, <1>2 DEF Colors
<1>4. running \in alloc /\ u \in Alive(alloc, color) /\ alloc' = alloc \cup ({u} \ {Nil})
  BY <1>1, <1>2, HeldFacts DEF Alive
<1> QED
  BY <1>1, <1>2, <1>3, <1>4, StackStep

\* luaC_link: a new object is white and empty.
LEMMA Linked ==
  ASSUME GCInv, NEW o \in Obj, NEW s \in Slots, NEW gc, kind[o] \notin {"func", "upval"}, luaC_link(o, s, gc)
  PROVE  GCInv'
<1>1. /\ o \notin alloc /\ alloc' = alloc \cup {o} /\ color' = [color EXCEPT ![o] = "white"]
      /\ stk' = [stk EXCEPT ![running][s] = o] /\ tmudata' = tmudata
      /\ UNCHANGED <<tab, mode, link, open, val, mt, running, gcstate, lists, sweepstr, sweepgc, full>>
  BY DEF luaC_link, collector
<1>2. /\ o # Nil /\ o \in Values /\ color \in [Obj -> Colors] /\ kind[running] = "thread"
  BY HeapAssumption DEF GCInv, TypesOK, Values
<1>3. /\ color' \in [Obj -> Colors] /\ \A p \in Obj : color'[p] = color[p] \/ (p = o /\ color'[p] = "white")
      /\ color'[o] = "white" /\ \A p \in alloc : color'[p] = color[p]
  <2>1. alloc \subseteq Obj
    BY HeldFacts
  <2> QED
    BY <1>1, <1>2, <2>1 DEF Colors
<1>4. running \in alloc /\ alloc' = alloc \cup ({o} \ {Nil})
  BY <1>1, <1>2, HeldFacts
<1> QED
  BY <1>1, <1>2, <1>3, <1>4, StackStep

\* luaS_newlstr gives a string out again, and takes it from the dead if need be.
LEMMA StringReused ==
  ASSUME GCInv, NEW o \in AllStrings, NEW s \in Slots, luaS_newlstr(o, s)
  PROVE  GCInv'
<1>1. /\ color' = IF isdead(o) THEN [color EXCEPT ![o] = "white"] ELSE color
      /\ stk' = [stk EXCEPT ![running][s] = o] /\ alloc' = alloc /\ tmudata' = tmudata
      /\ UNCHANGED <<tab, mode, link, open, val, mt, running, gcstate, lists, sweepstr, sweepgc, full>>
  BY DEF luaS_newlstr, collector
<1>2. /\ o \in alloc /\ o \in Obj /\ kind[o] = "string" /\ o # Nil /\ o \in Values
      /\ color \in [Obj -> Colors] /\ kind[running] = "thread"
  BY HeapAssumption DEF GCInv, TypesOK, Values, AllStrings, OfKind
<1>3. /\ color' \in [Obj -> Colors] /\ \A p \in Obj : color'[p] = color[p] \/ (p = o /\ color'[p] = "white")
      /\ color'[o] # "dead"
  BY <1>1, <1>2 DEF Colors, isdead
<1>4. gcstate = "propagate" => \A p \in alloc : color'[p] = color[p]
  BY <1>1, <1>2 DEF GCInv, MarkingOK, isdead
<1>5. running \in alloc /\ alloc' = alloc \cup ({o} \ {Nil})
  BY <1>1, <1>2, HeldFacts
<1> QED
  BY <1>1, <1>2, <1>3, <1>4, <1>5, StackStep

\* A value at hand goes to a stack.
LEMMA ValueMoved ==
  ASSUME GCInv, NEW t \in alloc, kind[t] = "thread", NEW s, NEW v \in Held \cup {Nil},
         stk' = [stk EXCEPT ![t][s] = v],
         UNCHANGED <<alloc, tab, mode, link, open, val, mt, running, color, lists, collector>>
  PROVE  GCInv'
<1>1. /\ alloc' = alloc /\ color' = color /\ tmudata' = tmudata
      /\ UNCHANGED <<tab, mode, link, open, val, mt, running, gcstate, lists, sweepstr, sweepgc, full>>
  BY DEF collector
<1>2. color \in [Obj -> Colors]
  BY DEF GCInv, TypesOK
<1>3. v \in Values \cup {Nil} /\ (v # Nil => v \in Alive(alloc, color) /\ v \in alloc)
  BY HeldFacts
<1>4. color' \in [Obj -> Colors] /\ alloc' = alloc \cup ({v} \ {Nil}) /\ (v # Nil => color'[v] # "dead")
  BY <1>1, <1>2, <1>3 DEF Alive
<1> QED
  BY <1>1, <1>2, <1>3, <1>4, StackStep

\* A coroutine goes on, or its creator.
LEMMA Switched ==
  ASSUME GCInv, NEW t \in Obj, Switch(t, Held)
  PROVE  GCInv'
<1>1. /\ t = Main \/ (t \in Held /\ kind[t] = "thread")
      /\ running' = t /\ alloc' = alloc /\ color' = color /\ tab' = tab /\ mode' = mode /\ link' = link
      /\ open' = open /\ val' = val /\ stk' = stk /\ mt' = mt /\ tmudata' = tmudata
      /\ gray' = gray /\ grayagain' = grayagain /\ weak' = weak
      /\ gcstate' = gcstate /\ sweepstr' = sweepstr /\ sweepgc' = sweepgc /\ full' = full
  BY DEF Switch, lists, collector, OfKindIn
<1>2. kind[t] = "thread" /\ t \in Alive(alloc, color)
  BY <1>1, HeapAssumption, HeldFacts
<1>3. TypesOK'
  BY <1>1, <1>2 DEF GCInv, TypesOK
<1>4. RootsOK(alloc, color, mt, running)'
  BY <1>1, <1>2 DEF GCInv, RootsOK
<1> QED
  BY <1>1, <1>3, <1>4 DEF GCInv

\* The metatable of a basic type is a root at once.
LEMMA BasicSet ==
  ASSUME GCInv, NEW m \in Held \cup {Nil}, SetBasicMetatable(m)
  PROVE  GCInv'
<1>1. /\ mt' = m
      /\ running' = running /\ alloc' = alloc /\ color' = color /\ tab' = tab /\ mode' = mode /\ link' = link
      /\ open' = open /\ val' = val /\ stk' = stk /\ tmudata' = tmudata
      /\ gray' = gray /\ grayagain' = grayagain /\ weak' = weak
      /\ gcstate' = gcstate /\ sweepstr' = sweepstr /\ sweepgc' = sweepgc /\ full' = full
  BY DEF SetBasicMetatable, lists, collector
<1>2. m \in Values \cup {Nil} /\ (m # Nil => m \in Alive(alloc, color))
  BY HeldFacts
<1>3. TypesOK'
  BY <1>1, <1>2 DEF GCInv, TypesOK
<1>4. RootsOK(alloc, color, mt, running)'
  BY <1>1, <1>2 DEF GCInv, RootsOK
<1> QED
  BY <1>1, <1>3, <1>4 DEF GCInv

\* No colour depends on what is weak.
LEMMA ModeSet ==
  ASSUME GCInv, NEW t, NEW m \in Modes, SetMode(t, m)
  PROVE  GCInv'
<1>1. /\ mode' = [mode EXCEPT ![t] = m]
      /\ running' = running /\ alloc' = alloc /\ color' = color /\ tab' = tab /\ mt' = mt /\ link' = link
      /\ open' = open /\ val' = val /\ stk' = stk /\ tmudata' = tmudata
      /\ gray' = gray /\ grayagain' = grayagain /\ weak' = weak
      /\ gcstate' = gcstate /\ sweepstr' = sweepstr /\ sweepgc' = sweepgc /\ full' = full
  BY DEF SetMode, lists, collector
<1>2. mode' \in [Obj -> SUBSET {"k", "v"}]
  <2>1. m \in SUBSET {"k", "v"} /\ mode \in [Obj -> SUBSET {"k", "v"}]
    BY HeapAssumption DEF GCInv, TypesOK
  <2> QED
    BY <1>1, <2>1
<1>3. TypesOK'
  BY <1>1, <1>2 DEF GCInv, TypesOK
<1> QED
  BY <1>1, <1>3 DEF GCInv

\* A function captures a slot of the running thread.
LEMMA Captured ==
  ASSUME GCInv, NEW f \in Obj, NEW u \in Obj, NEW c \in Slots \ {Temp}, OP_CLOSURE(f, u, c)
  PROVE  GCInv'
<1> DEFINE found == {x \in OpenUpvals(running) : open[x][2] = c}
<1>1. /\ f \notin alloc /\ kind[f] = "func" /\ kind[u] = "upval"
      /\ (IF found # {} THEN u \in found ELSE u \notin alloc)
      /\ alloc' = alloc \cup {f, u}
      /\ color' = [color EXCEPT ![f] = "white",
                                ![u] = IF found = {} \/ isdead(u) THEN "white" ELSE @]
      /\ open' = [open EXCEPT ![u] = <<running, c>>]
      /\ link' = [link EXCEPT ![f] = {u}]
      /\ stk' = [stk EXCEPT ![running][Temp] = f]
      /\ tab' = tab /\ mode' = mode /\ val' = val /\ mt' = mt /\ running' = running
      /\ gcstate' = gcstate /\ sweepstr' = sweepstr /\ sweepgc' = sweepgc /\ tmudata' = tmudata /\ full' = full
      /\ gray' = gray /\ grayagain' = grayagain /\ weak' = weak
  BY DEF OP_CLOSURE, collector, lists
<1>2. /\ alloc \subseteq Obj /\ color \in [Obj -> Colors] /\ link \in [Obj -> SUBSET Obj]
      /\ open \in [Obj -> {NotOpen} \cup (Obj \X Slots)]
      /\ kind[running] = "thread" /\ running \in Obj /\ running \in Alive(alloc, color) /\ running \in alloc
      /\ LinksOK(alloc, link, open)
      /\ FreshOK(alloc, color, tab, link, stk, open)
      /\ ColorsOK(alloc, color, open, tmudata)
      /\ RootsOK(alloc, color, mt, running)
      /\ Sound(alloc, color, tab, link, stk, open, val)
      /\ ListsOK(color, gray, grayagain, weak)
  BY HeldFacts DEF GCInv, TypesOK
<1>3. /\ f \in Values /\ f # Nil /\ f # u /\ Put(running, Temp, f)
  BY <1>1, HeapAssumption DEF Values, Put
<1>4. u \in alloc => found # {} /\ open[u] # NotOpen /\ open[u] = <<running, c>>
  <2> SUFFICES ASSUME u \in alloc PROVE found # {} /\ open[u] # NotOpen /\ open[u] = <<running, c>>
    OBVIOUS
  <2>1. u \in found
    BY <1>1
  <2>2. open[u] # NotOpen /\ open[u][1] = running /\ open[u][2] = c
    BY <2>1 DEF OpenUpvals
  <2>3. open[u] \in Obj \X Slots
    BY <1>2, <2>2
  <2> QED
    BY <2>1, <2>2, <2>3
<1>5. u \notin alloc => found = {}
  <2>1. found \subseteq alloc
    BY DEF OpenUpvals, OfKind
  <2> QED
    BY <1>1, <2>1
<1> HIDE DEF found
<1>6. /\ stk' \in [Obj -> [Slots -> Values \cup {Nil}]]
      /\ \A o \in Obj, r \in Obj : Points(o, r, tab, link, stk', open, val)
                                     => Points(o, r, tab, link, stk, open, val) \/ r = f
      /\ \A o \in Obj, r \in Obj : open[o] = NotOpen /\ Holds(o, r, tab, link, stk', open, val)
                                     => Holds(o, r, tab, link, stk, open, val)
      /\ \A o \in Obj \ {running} : stk'[o] = stk[o]
      /\ stk'[running][c] = stk[running][c]
  <2>1. PutOK(running, Temp, f)
    BY <1>2, <1>3, StackStored
  <2> QED
    BY <2>1 DEF PutOK
<1>7. /\ open' \in [Obj -> {NotOpen} \cup (Obj \X Slots)]
      /\ open'[u] = <<running, c>> /\ open'[u] # NotOpen /\ open'[u][1] = running /\ open'[u][2] = c
      /\ \A o \in Obj \ {u} : open'[o] = open[o]
      /\ (u \in alloc => open' = open)
  <2>1. <<running, c>> \in Obj \X Slots /\ <<running, c>> # NotOpen
    BY <1>2 DEF NotOpen
  <2>2. open' \in [Obj -> {NotOpen} \cup (Obj \X Slots)] /\ open'[u] = <<running, c>>
        /\ \A o \in Obj \ {u} : open'[o] = open[o]
    BY <1>1, <1>2, <2>1
  <2>3. u \in alloc => open' = open
    BY <1>1, <1>2, <1>4
  <2> QED
    BY <2>1, <2>2, <2>3
<1>8. /\ link' \in [Obj -> SUBSET Obj] /\ link'[f] = {u} /\ \A o \in Obj \ {f} : link'[o] = link[o]
  BY <1>1, <1>2
<1>9. /\ color' \in [Obj -> Colors] /\ color'[f] = "white"
      /\ color'[u] = (IF u \notin alloc \/ isdead(u) THEN "white" ELSE color[u])
      /\ \A o \in Obj \ {f, u} : color'[o] = color[o]
  <2>1. found = {} <=> u \notin alloc
    BY <1>4, <1>5
  <2> QED
    BY <1>1, <1>2, <1>3, <2>1 DEF Colors
<1>10. Alive(alloc', color') = Alive(alloc, color) \cup {f, u}
  BY <1>1, <1>2, <1>9 DEF Alive, isdead
<1>11. TypesOK'
  <2>1. alloc' \subseteq Obj
    BY <1>1, <1>2
  <2>2. TypesOK
    BY DEF GCInv
  <2>3. /\ tab' = tab /\ mode' = mode /\ val' = val /\ mt' = mt /\ running' = running
        /\ gcstate' = gcstate /\ full' = full
    BY <1>1
  <2> QED
    BY <1>6, <1>7, <1>8, <1>9, <2>1, <2>2, <2>3 DEF TypesOK
<1>12. LinksOK(alloc, link, open)'
  <2> SUFFICES ASSUME NEW o \in Obj
               PROVE  /\ open'[o] # NotOpen => kind[o] = "upval" /\ kind[open'[o][1]] = "thread" /\ open'[o][1] \in alloc'
                      /\ kind[o] \notin {"table", "func", "udata"} => link'[o] = {}
                      /\ kind[o] # "func" => link'[o] \subseteq Values
    BY DEF LinksOK
  <2>1. open'[o] # NotOpen => kind[o] = "upval" /\ kind[open'[o][1]] = "thread" /\ open'[o][1] \in alloc'
    BY <1>1, <1>2, <1>7 DEF LinksOK
  <2> QED
    BY <1>1, <1>2, <1>8, <2>1 DEF LinksOK
<1>13. FreshOK(alloc, color, tab, link, stk, open)'
  BY <1>1, <1>2, <1>6, <1>7, <1>8, <1>9 DEF FreshOK
<1>14. ColorsOK(alloc, color, open, tmudata)'
  <2>1. color'[u] # "black"
    BY <1>2, <1>4, <1>9 DEF ColorsOK
  <2>2. tmudata \subseteq {o \in alloc' : kind[o] = "udata"} /\ \A o \in tmudata : o \in Obj \ {f, u}
    BY <1>1, <1>2 DEF ColorsOK
  <2> QED
    BY <1>1, <1>2, <1>7, <1>9, <2>1, <2>2 DEF ColorsOK
<1>15. RootsOK(alloc, color, mt, running)'
  BY <1>1, <1>2, <1>10 DEF RootsOK
<1>16. \A o \in Alive(alloc, color) : o # f /\ f \notin link[o] /\ \A x \in link[o] : x \in Obj /\ x \in Alive(alloc, color)
  <2> SUFFICES ASSUME NEW o \in Alive(alloc, color)
               PROVE  o # f /\ \A x \in link[o] : x \in Obj /\ x \in Alive(alloc, color) /\ x # f
    OBVIOUS
  <2>1. o \in Obj
    BY <1>2 DEF Alive
  <2>2. \A x \in link[o] : x \in Obj /\ Points(o, x, tab, link, stk, open, val)
    BY <2>1, Shapes DEF Points
  <2>3. \A x \in link[o] : x \in Alive(alloc, color)
    BY <1>2, <2>2 DEF Sound
  <2> QED
    BY <1>1, <2>2, <2>3 DEF Alive
<1>17. \A o \in Obj \ {u} : ValueOf(o, stk', open', val) = ValueOf(o, stk', open, val)
  BY <1>7 DEF ValueOf
<1>18. ValueOf(u, stk', open', val) = stk[running][c]
  BY <1>6, <1>7 DEF ValueOf
<1>19. stk[running][c] \in Obj => stk[running][c] \in Alive(alloc, color)
  <2>1. stk[running][c] \in Obj => Points(running, stk[running][c], tab, link, stk, open, val)
    BY <1>2 DEF Points
  <2> QED
    BY <1>2, <2>1 DEF Sound
<1>20. Sound(alloc, color, tab, link, stk, open, val)'
  <2> SUFFICES ASSUME NEW o \in Alive(alloc, color) \cup {f, u}, NEW r \in Obj, Points(o, r, tab, link', stk', open', val)
               PROVE  r \in Alive(alloc, color) \cup {f, u}
    BY <1>1, <1>10 DEF Sound
  <2>1. CASE o = f
    <3>1. r = u \/ r = ValueOf(u, stk', open', val)
      BY <1>1, <1>8, <2>1 DEF Points
    <3> QED
      BY <1>18, <1>19, <3>1
  <2>2. CASE o = u
    <3>1. link'[u] = {}
      BY <1>1, <1>2, <1>3, <1>8 DEF LinksOK
    <3>2. r = ValueOf(u, stk', open', val)
      BY <1>1, <2>2, <3>1 DEF Points
    <3> QED
      BY <1>18, <1>19, <3>2
  <2>3. CASE o # f /\ o # u
    <3>1. o \in Alive(alloc, color) /\ o \in Obj /\ link'[o] = link[o]
      BY <1>2, <1>8, <2>3 DEF Alive
    <3>2. CASE Points(o, r, tab, link, stk', open, val)
      BY <1>2, <1>6, <3>1, <3>2 DEF Sound
    <3>3. CASE ~Points(o, r, tab, link, stk', open, val)
      <4>1. kind[o] = "func" /\ \E x \in link[o] : kind[x] = "upval" /\ r = ValueOf(x, stk', open', val)
                                                   /\ r # ValueOf(x, stk', open, val)
        BY <1>17, <2>3, <3>1, <3>3 DEF Points
      <4>2. u \in link[o]
        BY <1>16, <1>17, <3>1, <4>1
      <4>3. u \in alloc
        BY <1>16, <3>1, <4>2 DEF Alive
      <4> QED
        BY <1>7, <4>1, <4>3
    <3> QED
      BY <3>2, <3>3
  <2> QED
    BY <2>1, <2>2, <2>3
<1>21. ASSUME gcstate = "propagate"
       PROVE  /\ \A o \in Obj : color'[o] = color[o]
              /\ MarkingOK(color', tmudata, gray, grayagain, weak, tab, link', stk', open', val)
  <2>1. MarkingOK(color, tmudata, gray, grayagain, weak, tab, link, stk, open, val)
    BY <1>21 DEF GCInv
  <2>2. \A o \in Obj : color'[o] = color[o]
    BY <1>1, <1>2, <1>9, <2>1 DEF MarkingOK, FreshOK, isdead
  <2>3. color' = color
    BY <1>2, <1>9, <2>2
  <2>4. Settled(color, tmudata, tab, link', stk', open', val)
    <3> SUFFICES ASSUME NEW o \in Obj \ tmudata, NEW r \in Obj, color[o] = "black",
                        Holds(o, r, tab, link', stk', open', val)
                 PROVE  color[r] \in {"gray", "black"}
      BY DEF Settled
    <3>1. o # f /\ o # u /\ open[o] = NotOpen
      BY <1>2, <1>4, <1>9, <2>2 DEF ColorsOK, FreshOK
    <3>2. Holds(o, r, tab, link, stk', open, val)
      BY <1>8, <1>17, <3>1 DEF Holds
    <3> QED
      BY <1>6, <2>1, <3>1, <3>2 DEF MarkingOK, Settled
  <2>5. WaitsOK(color, open', gray, grayagain, weak)
    BY <1>7, <2>1 DEF MarkingOK, WaitsOK
  <2> QED
    BY <2>1, <2>2, <2>3, <2>4, <2>5 DEF MarkingOK
<1>22. ASSUME gcstate # "propagate"
       PROVE  /\ SweepingOK(alloc', color', open', tmudata, sweepstr, sweepgc)
              /\ gray = {} /\ grayagain = {} /\ weak = {}
  <2>1. SweepingOK(alloc, color, open, tmudata, sweepstr, sweepgc) /\ gray = {} /\ grayagain = {} /\ weak = {}
    BY <1>22 DEF GCInv
  <2>2. sweepgc \subseteq {o \in alloc' : kind[o] # "string" /\ open'[o] = NotOpen /\ o \notin tmudata}
    <3>1. u \notin sweepgc
      BY <1>4, <2>1 DEF SweepingOK
    <3> QED
      BY <1>1, <1>2, <1>7, <2>1, <3>1 DEF SweepingOK
  <2>3. ASSUME NEW o \in Obj \ tmudata, color'[o] # "white"
        PROVE  Unswept(o, open', sweepstr, sweepgc)
    <3>1. o # f /\ color[o] # "white" /\ (o = u => u \in alloc)
      BY <1>9, <2>3
    <3>2. open'[o] = open[o]
      BY <1>7, <3>1
    <3> QED
      BY <2>1, <3>1, <3>2 DEF SweepingOK, Unswept
  <2> QED
    BY <1>1, <2>1, <2>2, <2>3 DEF SweepingOK
<1>23. ListsOK(color, gray, grayagain, weak)'
  <2>1. CASE gcstate = "propagate"
    <3>1. \A o \in gray \cup grayagain \cup weak : o \in Obj
      BY <1>2 DEF ListsOK, Traversable
    <3> QED
      BY <1>1, <1>2, <1>21, <2>1, <3>1 DEF ListsOK
  <2>2. CASE gcstate # "propagate"
    BY <1>1, <1>22, <2>2 DEF ListsOK
  <2> QED
    BY <2>1, <2>2
<1> QED
  BY <1>1, <1>11, <1>12, <1>13, <1>14, <1>15, <1>20, <1>21, <1>22, <1>23 DEF GCInv

\* luaF_close: captured slots leave the stack; what is still gray of them is marked
\* through, or forgotten in a sweep.
LEMMA SlotsClosed ==
  ASSUME GCInv, NEW c \in Slots, luaF_close(c)
  PROVE  GCInv'
<1> DEFINE A == {u \in OpenUpvals(running) : open[u][2] >= c}
           D == {u \in A : isdead(u)}
           G == {u \in A : color[u] = "gray"}
           V == {UpvalValue(u) : u \in G} \ {Nil}
           X == Marked(V)
           col == Recolor(X)
<1>1. /\ FreeAndClose(D, A \ D) /\ luaC_linkupval(G)
      /\ mt' = mt /\ running' = running /\ gcstate' = gcstate /\ grayagain' = grayagain /\ weak' = weak
      /\ sweepstr' = sweepstr /\ sweepgc' = sweepgc /\ tmudata' = tmudata /\ full' = full
  BY DEF luaF_close
<1>2. /\ alloc \subseteq Obj /\ color \in [Obj -> Colors]
      /\ FreshOK(alloc, color, tab, link, stk, open)
      /\ ColorsOK(alloc, color, open, tmudata)
      /\ RootsOK(alloc, color, mt, running)
      /\ Sound(alloc, color, tab, link, stk, open, val)
      /\ ListsOK(color, gray, grayagain, weak)
  BY DEF GCInv, TypesOK
<1>3. /\ A \subseteq alloc /\ \A u \in A : u \in Obj /\ kind[u] = "upval" /\ open[u] # NotOpen
      /\ D \subseteq A /\ (\A u \in A : u \in D <=> color[u] = "dead")
      /\ G \subseteq A /\ (\A u \in A : u \in G <=> color[u] = "gray")
  BY <1>2 DEF OpenUpvals, OfKind, isdead
<1>4. /\ gcstate = "propagate" =>
           /\ color' = [o \in Obj |-> IF o \in G THEN "black" ELSE col[o]]
           /\ gray' = gray \cup Listed(X)
      /\ gcstate # "propagate" =>
           /\ color' = [o \in Obj |-> IF o \in G \/ o \notin alloc' THEN "white" ELSE color[o]]
           /\ gray' = gray
  BY <1>1 DEF luaC_linkupval
<1>5. V = {UpvalValue(u) : u \in G} \ {Nil} /\ X = Marked(V) /\ col = Recolor(X)
  OBVIOUS
<1> HIDE DEF A, D, G, V, X, col
<1>6. Freeable(D, A \ D)
  <2>1. \A u \in Obj : open[u] # NotOpen /\ open[u][1] \in D => FALSE
    <3>1. \A u \in Obj : open[u] # NotOpen => kind[open[u][1]] = "thread"
      BY Shapes
    <3> QED
      BY <1>3, <3>1
  <2> QED
    BY <1>2, <1>3, <2>1 DEF Freeable, isdead
<1>7. Freed(D, A \ D)
  BY <1>1, <1>6, FreedFacts
<1>8. /\ alloc' \subseteq Obj /\ alloc' = alloc \ D
      /\ LinksOK(alloc', link', open')
      /\ \A o \in Obj : open'[o] = IF o \in A THEN NotOpen ELSE open[o]
      /\ \A o \in D : tab'[o] = EmptyTable /\ link'[o] = {} /\ stk'[o] = EmptyStack /\ open'[o] = NotOpen
      /\ \A o \in Obj \ D : tab'[o] = tab[o] /\ link'[o] = link[o] /\ stk'[o] = stk[o]
      /\ \A o \in Alive(alloc, color), r \in Obj :
            Points(o, r, tab', link', stk', open', val') => Points(o, r, tab, link, stk, open, val)
      /\ \A o \in Obj \ D, r \in Obj :
            Holds(o, r, tab', link', stk', open', val') => Holds(o, r, tab, link, stk, open, val)
  BY <1>3, <1>7 DEF Freed
<1>9. /\ tab' \in [Obj -> [Keys -> Values \cup {Nil, NoKey}]]
      /\ mode' \in [Obj -> SUBSET {"k", "v"}]
      /\ link' \in [Obj -> SUBSET Obj]
      /\ open' \in [Obj -> {NotOpen} \cup (Obj \X Slots)]
      /\ val' \in [Obj -> Values \cup {Nil}]
      /\ stk' \in [Obj -> [Slots -> Values \cup {Nil}]]
  BY <1>7 DEF Freed
<1>10. V \subseteq Values /\ V \subseteq Alive(alloc, color) /\ V \subseteq alloc
       /\ \A u \in G : UpvalValue(u) = Nil \/ UpvalValue(u) \in V
  <2> SUFFICES ASSUME NEW u \in G, UpvalValue(u) # Nil
               PROVE  UpvalValue(u) \in Values /\ UpvalValue(u) \in Alive(alloc, color)
    BY <1>5 DEF Alive
  <2>1. u \in Obj /\ u \in Alive(alloc, color) /\ kind[u] = "upval"
    BY <1>3 DEF Alive
  <2>2. UpvalValue(u) \in Values /\ UpvalValue(u) \in Edges(u)
    BY <2>1, UpvalueFacts, EdgesFacts
  <2> QED
    BY <2>1, <2>2, AliveEdges
<1>11. ASSUME gcstate = "propagate"
       PROVE  /\ D = {} /\ color' \in [Obj -> Colors] /\ \A o \in Obj : color'[o] # "dead"
              /\ FreshOK(alloc', color', tab', link', stk', open')
              /\ ColorsOK(alloc', color', open', tmudata)
              /\ ListsOK(color', gray', grayagain, weak)
              /\ MarkingOK(color', tmudata, gray', grayagain, weak, tab', link', stk', open', val')
  <2>1. /\ \A o \in Obj : color[o] # "dead"
        /\ Settled(color, tmudata, tab, link, stk, open, val)
        /\ WaitsOK(color, open, gray, grayagain, weak)
        /\ {color[Main], color[Registry]} \subseteq Marks
    BY <1>11 DEF GCInv, MarkingOK, Marks
  <2>2. D = {}
    BY <1>3, <2>1
  <2>3. /\ col \in [Obj -> Colors] /\ \A o \in Obj : col[o] # "dead"
        /\ \A o \in Obj : col[o] \in Marks <=> color[o] \in Marks \/ o \in X
        /\ \A o \in Obj \ X : col[o] = color[o]
        /\ \A o \in X : color[o] = "white" /\ o \in alloc
        /\ \A s \in V : col[s] \in Marks
        /\ ColorsOK(alloc, col, open, tmudata)
        /\ FreshOK(alloc, col, tab, link, stk, open)
        /\ \A o \in X, r \in Obj : col[o] = "black" /\ Holds(o, r, tab, link, stk, open, val) => col[r] \in Marks
        /\ \A o \in X : col[o] = "gray" => o \in Listed(X) \/ kind[o] = "string" \/ open[o] # NotOpen
        /\ Listed(X) \subseteq Traversable /\ \A o \in Listed(X) : col[o] = "gray"
    <3>1. Recolored(V, X, col)
      BY <1>5, <1>10, <2>1, RecolorFacts
    <3> QED
      BY <3>1 DEF Recolored
  <2>4. X \subseteq Values
    BY <1>5, <1>10, <2>1, MarkedFacts
  <2>5. \A o \in A : o \notin X
    BY <1>3, <2>4 DEF Values
  <2>6. /\ \A o \in Obj : color'[o] = IF o \in G THEN "black" ELSE col[o]
        /\ gray' = gray \cup Listed(X)
        /\ color' \in [Obj -> Colors] /\ \A o \in Obj : color'[o] # "dead"
        /\ \A o \in Obj : col[o] \in Marks => color'[o] \in Marks
    BY <1>4, <1>11, <2>3 DEF Colors, Marks
  <2>7. alloc' = alloc /\ \A o \in Obj : tab'[o] = tab[o] /\ link'[o] = link[o] /\ stk'[o] = stk[o]
    BY <1>8, <2>2
  <2>8. FreshOK(alloc', color', tab', link', stk', open')
    BY <1>3, <1>8, <2>3, <2>6, <2>7 DEF FreshOK
  <2>9. ColorsOK(alloc', color', open', tmudata)
    <3>1. \A o \in tmudata : o \in Obj /\ o \notin G
      BY <1>2, <1>3 DEF ColorsOK
    <3> QED
      BY <1>3, <1>8, <2>3, <2>6, <2>7, <3>1 DEF ColorsOK
  <2>10. ListsOK(color', gray', grayagain, weak)
    <3>1. \A o \in Listed(X) : o \in X
      BY DEF Listed
    <3>2. \A o \in gray \cup grayagain \cup weak : o \in Obj /\ o \notin X /\ o \notin G
      BY <1>2, <1>3, <2>3 DEF ListsOK, Traversable
    <3>3. \A o \in Listed(X) : o \in Obj /\ o \notin G
      BY <1>2, <1>3, <2>3, <2>5, <3>1
    <3>4. \A o \in gray' \cup grayagain \cup weak : o \in Traversable /\ color'[o] = "gray"
      BY <1>2, <2>3, <2>6, <3>2, <3>3 DEF ListsOK
    <3>5. gray' \cap grayagain = {} /\ gray' \cap weak = {} /\ grayagain \cap weak = {}
      BY <1>2, <2>6, <3>1, <3>2 DEF ListsOK
    <3> QED
      BY <3>4, <3>5 DEF ListsOK
  <2>11. Settled(color', tmudata, tab', link', stk', open', val')
    <3> SUFFICES ASSUME NEW o \in Obj \ tmudata, NEW r \in Obj, color'[o] = "black",
                        Holds(o, r, tab', link', stk', open', val')
                 PROVE  color'[r] \in Marks
      BY DEF Settled, Marks
    <3>1. Holds(o, r, tab, link, stk, open, val)
      BY <1>8, <2>2
    <3>2. CASE o \in G
      <4>1. r \in V
        <5>1. kind[o] = "upval" /\ link[o] = {}
          BY <1>3, <3>2, Shapes
        <5>2. r = UpvalValue(o) /\ r # Nil
          BY <3>1, <5>1, UpvalueFacts, HeapAssumption DEF Holds
        <5> QED
          BY <1>10, <3>2, <5>2
      <4> QED
        BY <2>3, <2>6, <4>1
    <3>3. CASE o \notin G /\ o \in X
      BY <2>3, <2>6, <3>1, <3>3
    <3>4. CASE o \notin G /\ o \notin X
      BY <2>1, <2>3, <2>6, <3>1, <3>4 DEF Settled, Marks
    <3> QED
      BY <3>2, <3>3, <3>4
  <2>12. WaitsOK(color', open', gray', grayagain, weak)
    <3> SUFFICES ASSUME NEW o \in Obj, color'[o] = "gray"
                 PROVE  o \in gray' \cup grayagain \cup weak \/ kind[o] = "string" \/ open'[o] # NotOpen
      BY DEF WaitsOK
    <3>1. o \notin G /\ col[o] = "gray"
      BY <2>6
    <3>2. CASE o \in X
      BY <1>8, <2>3, <2>5, <2>6, <3>1, <3>2
    <3>3. CASE o \notin X
      <4>1. color[o] = "gray"
        BY <2>3, <3>1, <3>3
      <4>2. o \notin A
        BY <1>3, <3>1, <4>1
      <4> QED
        BY <1>8, <2>1, <2>6, <4>1, <4>2 DEF WaitsOK
    <3> QED
      BY <3>2, <3>3
  <2>13. {color'[Main], color'[Registry]} \subseteq Marks
    BY <2>1, <2>3, <2>6, HeapAssumption
  <2> QED
    BY <2>2, <2>6, <2>8, <2>9, <2>10, <2>11, <2>12, <2>13 DEF MarkingOK, Marks
<1>12. ASSUME gcstate # "propagate"
       PROVE  /\ color' \in [Obj -> Colors]
              /\ FreshOK(alloc', color', tab', link', stk', open')
              /\ ColorsOK(alloc', color', open', tmudata)
              /\ SweepingOK(alloc', color', open', tmudata, sweepstr, sweepgc)
              /\ gray' = {} /\ grayagain = {} /\ weak = {}
  <2>1. SweepingOK(alloc, color, open, tmudata, sweepstr, sweepgc) /\ gray = {} /\ grayagain = {} /\ weak = {}
    BY <1>12 DEF GCInv
  <2>2. /\ \A o \in Obj : color'[o] = IF o \in G \/ o \notin alloc' THEN "white" ELSE color[o]
        /\ gray' = {} /\ color' \in [Obj -> Colors]
    BY <1>2, <1>4, <1>12, <2>1 DEF Colors
  <2>3. FreshOK(alloc', color', tab', link', stk', open')
    BY <1>2, <1>3, <1>8, <2>2 DEF FreshOK
  <2>4. tmudata \subseteq {o \in alloc' : kind[o] = "udata"}
    BY <1>2, <1>3, <1>8 DEF ColorsOK
  <2>5. ColorsOK(alloc', color', open', tmudata)
    BY <1>2, <1>8, <2>2, <2>4 DEF ColorsOK
  <2>6. sweepstr \subseteq {o \in alloc' : kind[o] = "string"}
    BY <1>3, <1>8, <2>1 DEF SweepingOK
  <2>7. sweepgc \subseteq {o \in alloc' : kind[o] # "string" /\ open'[o] = NotOpen /\ o \notin tmudata}
    <3>1. \A o \in sweepgc : o \in Obj /\ o \notin A /\ o \in alloc /\ kind[o] # "string" /\ open[o] = NotOpen /\ o \notin tmudata
      BY <1>2, <1>3, <2>1 DEF SweepingOK
    <3> QED
      BY <1>3, <1>8, <3>1
  <2>8. ASSUME NEW o \in Obj \ tmudata, color'[o] # "white"
        PROVE  Unswept(o, open', sweepstr, sweepgc)
    <3>1. o \notin G /\ o \in alloc' /\ color[o] # "white" /\ color[o] \in Colors
      BY <1>2, <2>2, <2>8
    <3>2. o \notin A
      BY <1>2, <1>3, <1>8, <3>1 DEF ColorsOK, Colors
    <3>3. open'[o] = open[o] /\ Unswept(o, open, sweepstr, sweepgc)
      BY <1>8, <2>1, <3>1, <3>2 DEF SweepingOK
    <3> QED
      BY <3>3 DEF Unswept
  <2> QED
    BY <2>1, <2>2, <2>3, <2>5, <2>6, <2>7, <2>8 DEF SweepingOK
<1>13. Alive(alloc', color') = Alive(alloc, color)
  <2>1. CASE gcstate = "propagate"
    <3>1. \A o \in Obj : color[o] # "dead"
      BY <2>1 DEF GCInv, MarkingOK
    <3> QED
      BY <1>2, <1>8, <1>11, <2>1, <3>1 DEF Alive
  <2>2. CASE gcstate # "propagate"
    <3>1. \A o \in Obj : color'[o] = IF o \in G \/ o \notin alloc' THEN "white" ELSE color[o]
      BY <1>4, <2>2
    <3> QED
      BY <1>2, <1>3, <1>8, <3>1 DEF Alive
  <2> QED
    BY <2>1, <2>2
<1>14. TypesOK'
  <2>1. color' \in [Obj -> Colors]
    BY <1>11, <1>12
  <2>2. TypesOK
    BY DEF GCInv
  <2> QED
    BY <1>1, <1>8, <1>9, <2>1, <2>2 DEF TypesOK
<1>15. RootsOK(alloc, color, mt, running)'
  BY <1>1, <1>2, <1>13 DEF RootsOK
<1>16. Sound(alloc, color, tab, link, stk, open, val)'
  BY <1>2, <1>8, <1>13 DEF Sound
<1>17. /\ FreshOK(alloc, color, tab, link, stk, open)'
       /\ ColorsOK(alloc, color, open, tmudata)'
       /\ ListsOK(color, gray, grayagain, weak)'
  <2>1. CASE gcstate = "propagate"
    BY <1>1, <1>11, <2>1
  <2>2. CASE gcstate # "propagate"
    BY <1>1, <1>12, <2>2 DEF ListsOK
  <2> QED
    BY <2>1, <2>2
<1>18. (gcstate \in {"pause", "finalize"} => sweepgc = {}) /\ (gcstate # "sweepstring" => sweepstr = {})
       /\ (gcstate = "propagate" => sweepstr = {} /\ sweepgc = {})
  BY DEF GCInv
<1> QED
  BY <1>1, <1>8, <1>11, <1>12, <1>14, <1>15, <1>16, <1>17, <1>18 DEF GCInv

\* The objects of S are put into table t, behind the barrier of tables.
LEMMA TableStored ==
  ASSUME GCInv, NEW t \in Obj, kind[t] = "table", t \in Alive(alloc, color),
         NEW S, luaC_barriert(t, S),
         tab' \in [Obj -> [Keys -> Values \cup {Nil, NoKey}]], link' \in [Obj -> SUBSET Obj],
         link'[t] \subseteq Values, \A o \in Obj \ {t} : tab'[o] = tab[o] /\ link'[o] = link[o],
         \A r \in Obj : Points(t, r, tab', link', stk, open, val)
                           => Points(t, r, tab, link, stk, open, val) \/ r \in Alive(alloc, color),
         \A r \in Obj : Holds(t, r, tab', link', stk, open, val) => Holds(t, r, tab, link, stk, open, val) \/ r \in S,
         UNCHANGED <<alloc, mode, open, val, stk, mt, running, collector>>
  PROVE  GCInv'
<1>1. /\ alloc' = alloc /\ mode' = mode /\ open' = open /\ val' = val /\ stk' = stk /\ mt' = mt
      /\ running' = running /\ gcstate' = gcstate /\ sweepstr' = sweepstr /\ sweepgc' = sweepgc
      /\ tmudata' = tmudata /\ full' = full
  BY DEF collector
<1>2. /\ alloc \subseteq Obj /\ color \in [Obj -> Colors] /\ t \in alloc
      /\ LinksOK(alloc, link, open)
      /\ FreshOK(alloc, color, tab, link, stk, open)
      /\ ColorsOK(alloc, color, open, tmudata)
      /\ RootsOK(alloc, color, mt, running)
      /\ Sound(alloc, color, tab, link, stk, open, val)
      /\ ListsOK(color, gray, grayagain, weak)
  BY DEF GCInv, TypesOK, Alive
<1>3. /\ gray' = gray /\ weak' = weak
      /\ \/ /\ color' = [color EXCEPT ![t] = "gray"] /\ color[t] = "black"
            /\ grayagain' = IF gcstate = "propagate" THEN grayagain \cup {t} ELSE grayagain
         \/ /\ color' = color /\ grayagain' = grayagain
            /\ color[t] = "black" => \A v \in S \cap Obj : ~iswhite(v)
  BY DEF luaC_barriert
<1>4. /\ color' \in [Obj -> Colors] /\ \A o \in Obj \ {t} : color'[o] = color[o]
      /\ (color'[t] = color[t] \/ (color[t] = "black" /\ color'[t] = "gray"))
      /\ \A o \in Obj : color'[o] \in Marks <=> color[o] \in Marks
      /\ \A o \in Obj : color'[o] = "dead" <=> color[o] = "dead"
      /\ \A o \in Obj : color'[o] = "white" <=> color[o] = "white"
  BY <1>2, <1>3 DEF Colors, Marks
<1>5. Alive(alloc', color') = Alive(alloc, color)
  BY <1>1, <1>2, <1>4 DEF Alive
<1>6. TypesOK'
  BY <1>1, <1>4 DEF GCInv, TypesOK
<1>7. LinksOK(alloc, link, open)'
  BY <1>1, <1>2 DEF LinksOK
<1>8. FreshOK(alloc, color, tab, link, stk, open)'
  BY <1>1, <1>2, <1>4 DEF FreshOK
<1>9. ColorsOK(alloc, color, open, tmudata)'
  BY <1>1, <1>2, <1>4 DEF ColorsOK
<1>10. RootsOK(alloc, color, mt, running)'
  BY <1>1, <1>2, <1>5 DEF RootsOK
<1>11. Sound(alloc, color, tab, link, stk, open, val)'
  <2> SUFFICES ASSUME NEW o \in Alive(alloc, color), NEW r \in Obj, Points(o, r, tab', link', stk, open, val)
               PROVE  r \in Alive(alloc, color)
    BY <1>1, <1>5 DEF Sound
  <2>1. CASE o = t
    BY <1>2, <2>1 DEF Sound
  <2>2. CASE o # t
    <3>1. o \in Obj \ {t}
      BY <1>2, <2>2 DEF Alive
    <3>2. Points(o, r, tab, link, stk, open, val)
      BY <3>1 DEF Points
    <3> QED
      BY <1>2, <3>2 DEF Sound
  <2> QED
    BY <2>1, <2>2
<1>12. ASSUME gcstate = "propagate"
       PROVE  /\ MarkingOK(color', tmudata, gray', grayagain', weak', tab', link', stk, open, val)
              /\ ListsOK(color', gray', grayagain', weak')
  <2>1. /\ \A o \in Obj : color[o] # "dead"
        /\ Settled(color, tmudata, tab, link, stk, open, val)
        /\ WaitsOK(color, open, gray, grayagain, weak)
        /\ {color[Main], color[Registry]} \subseteq Marks
    BY <1>12 DEF GCInv, MarkingOK, Marks
  <2>2. Settled(color', tmudata, tab', link', stk, open, val)
    <3> SUFFICES ASSUME NEW o \in Obj \ tmudata, NEW r \in Obj, color'[o] = "black",
                        Holds(o, r, tab', link', stk, open, val)
                 PROVE  color[r] \in Marks
      BY <1>4 DEF Settled, Marks
    <3>1. color[o] = "black"
      BY <1>4
    <3>2. CASE o = t
      <4>1. color' = color
        BY <1>2, <1>3, <3>2
      <4>2. \A v \in S \cap Obj : color[v] \in Marks
        BY <1>2, <1>3, <3>1, <3>2, <4>1 DEF iswhite, Marks, Colors
      <4> QED
        BY <2>1, <3>1, <3>2, <4>2 DEF Settled, Marks
    <3>3. CASE o # t
      <4>1. Holds(o, r, tab, link, stk, open, val)
        BY <3>3 DEF Holds
      <4> QED
        BY <2>1, <3>1, <4>1 DEF Settled, Marks
    <3> QED
      BY <3>2, <3>3
  <2>3. WaitsOK(color', open, gray', grayagain', weak')
    BY <1>2, <1>3, <1>12, <2>1 DEF WaitsOK
  <2>4. ListsOK(color', gray', grayagain', weak')
    <3>1. \A o \in gray \cup grayagain \cup weak : o \in Obj /\ o \in Traversable /\ color[o] = "gray"
      BY <1>2 DEF ListsOK, Traversable
    <3>2. t \in Traversable
      BY DEF Traversable
    <3>3. gray \cap grayagain = {} /\ gray \cap weak = {} /\ grayagain \cap weak = {}
      BY <1>2 DEF ListsOK
    <3>4. CASE color' = color /\ grayagain' = grayagain
      BY <1>2, <1>3, <3>4
    <3>5. CASE color' = [color EXCEPT ![t] = "gray"] /\ color[t] = "black" /\ grayagain' = grayagain \cup {t}
      <4>1. t \notin gray /\ t \notin weak /\ color'[t] = "gray"
        BY <1>2, <3>1, <3>5
      <4>2. \A o \in gray \cup grayagain \cup weak : color'[o] = "gray"
        BY <1>4, <3>1, <4>1
      <4> QED
        BY <1>3, <3>1, <3>2, <3>3, <3>5, <4>1, <4>2 DEF ListsOK
    <3> QED
      BY <1>3, <1>12, <3>4, <3>5
  <2>5. {color'[Main], color'[Registry]} \subseteq Marks
    BY <1>4, <2>1, HeapAssumption
  <2> QED
    BY <1>4, <2>1, <2>2, <2>3, <2>4, <2>5 DEF MarkingOK, Marks
<1>13. ASSUME gcstate # "propagate"
       PROVE  /\ SweepingOK(alloc, color', open, tmudata, sweepstr, sweepgc)
              /\ gray' = {} /\ grayagain' = {} /\ weak' = {}
  <2>1. SweepingOK(alloc, color, open, tmudata, sweepstr, sweepgc) /\ gray = {} /\ grayagain = {} /\ weak = {}
    BY <1>13 DEF GCInv
  <2> QED
    BY <1>3, <1>4, <1>13, <2>1 DEF SweepingOK
<1>14. ListsOK(color, gray, grayagain, weak)'
  <2>1. CASE gcstate = "propagate"
    BY <1>12, <2>1
  <2>2. CASE gcstate # "propagate"
    BY <1>13, <2>2 DEF ListsOK
  <2> QED
    BY <2>1, <2>2
<1>15. (gcstate \in {"pause", "finalize"} => sweepgc = {}) /\ (gcstate # "sweepstring" => sweepstr = {})
       /\ (gcstate = "propagate" => sweepstr = {} /\ sweepgc = {})
  BY DEF GCInv
<1> QED
  BY <1>1, <1>6, <1>7, <1>8, <1>9, <1>10, <1>11, <1>12, <1>13, <1>14, <1>15 DEF GCInv

\* v is put into a userdata, a function or an upvalue, behind the other barrier.
LEMMA ObjectStored ==
  ASSUME GCInv, NEW p \in Obj, NEW v \in Values \cup {Nil}, v # Nil => v \in Alive(alloc, color),
         luaC_barrier(p, v),
         link' \in [Obj -> SUBSET Obj], val' \in [Obj -> Values \cup {Nil}],
         stk' \in [Obj -> [Slots -> Values \cup {Nil}]],
         LinksOK(alloc, link', open), \A o \in Obj \ alloc : link'[o] = {} /\ stk'[o] = EmptyStack,
         \A o \in Alive(alloc, color), r \in Obj : Points(o, r, tab, link', stk', open, val')
                                    => Points(o, r, tab, link, stk, open, val) \/ r = v,
         \A o \in Obj, r \in Obj : open[o] = NotOpen /\ Holds(o, r, tab, link', stk', open, val')
                                    => Holds(o, r, tab, link, stk, open, val) \/ (o = p /\ r = v),
         UNCHANGED <<alloc, tab, mode, open, mt, running, collector>>
  PROVE  GCInv'
<1>1. /\ alloc' = alloc /\ mode' = mode /\ open' = open /\ tab' = tab /\ mt' = mt
      /\ running' = running /\ gcstate' = gcstate /\ sweepstr' = sweepstr /\ sweepgc' = sweepgc
      /\ tmudata' = tmudata /\ full' = full /\ grayagain' = grayagain /\ weak' = weak
  BY DEF collector, luaC_barrier
<1>2. /\ alloc \subseteq Obj /\ color \in [Obj -> Colors] /\ Values \subseteq Obj /\ Nil \notin Obj
      /\ FreshOK(alloc, color, tab, link, stk, open)
      /\ ColorsOK(alloc, color, open, tmudata)
      /\ RootsOK(alloc, color, mt, running)
      /\ Sound(alloc, color, tab, link, stk, open, val)
      /\ ListsOK(color, gray, grayagain, weak)
  BY HeapAssumption DEF GCInv, TypesOK, Values
<1> DEFINE barrier == v \in Obj /\ iswhite(v) /\ color[p] = "black"
           X == Marked({v})
           col == Recolor(X)
<1>3. /\ (barrier /\ gcstate = "propagate" => color' = col /\ gray' = gray \cup Listed(X))
      /\ (barrier /\ gcstate # "propagate" => color' = [color EXCEPT ![p] = "white"] /\ gray' = gray)
      /\ (~barrier => color' = color /\ gray' = gray)
  BY DEF luaC_barrier, luaC_barrierf
<1>4. barrier => v # Nil /\ v \in alloc /\ v \in Obj
  BY <1>2 DEF Alive
<1>5. barrier <=> v \in Obj /\ iswhite(v) /\ color[p] = "black"
  OBVIOUS
<1>6. X = Marked({v}) /\ col = Recolor(X)
  OBVIOUS
<1> HIDE DEF barrier, X, col
<1>7. ASSUME gcstate = "propagate"
      PROVE  /\ color' \in [Obj -> Colors] /\ \A o \in Obj : color'[o] # "dead"
             /\ FreshOK(alloc, color', tab, link', stk', open)
             /\ ColorsOK(alloc, color', open, tmudata)
             /\ ListsOK(color', gray', grayagain, weak)
             /\ MarkingOK(color', tmudata, gray', grayagain, weak, tab, link', stk', open, val')
  <2>1. /\ \A o \in Obj : color[o] # "dead"
        /\ Settled(color, tmudata, tab, link, stk, open, val)
        /\ WaitsOK(color, open, gray, grayagain, weak)
        /\ {color[Main], color[Registry]} \subseteq Marks
    BY <1>7 DEF GCInv, MarkingOK, Marks
  <2>2. \A o \in Obj : color[o] = "black" => open[o] = NotOpen
    BY <1>2 DEF ColorsOK
  <2>3. CASE ~barrier
    <3>1. color' = color /\ gray' = gray
      BY <1>3, <2>3
    <3>2. Settled(color, tmudata, tab, link', stk', open, val')
      <4> SUFFICES ASSUME NEW o \in Obj \ tmudata, NEW r \in Obj, color[o] = "black",
                          Holds(o, r, tab, link', stk', open, val')
                   PROVE  color[r] \in Marks
        BY DEF Settled, Marks
      <4>1. CASE Holds(o, r, tab, link, stk, open, val)
        BY <2>1, <4>1 DEF Settled, Marks
      <4>2. CASE o = p /\ r = v
        <5>1. ~iswhite(v)
          BY <1>5, <2>3, <4>2
        <5> QED
          BY <1>2, <4>2, <5>1 DEF iswhite, Marks, Colors
      <4> QED
        BY <2>2, <4>1, <4>2
    <3>3. FreshOK(alloc, color, tab, link', stk', open)
      BY <1>2 DEF FreshOK
    <3> QED
      BY <1>2, <2>1, <3>1, <3>2, <3>3 DEF MarkingOK, Marks
  <2>4. CASE barrier
    <3>1. color' = col /\ gray' = gray \cup Listed(X)
      BY <1>3, <1>7, <2>4
    <3>2. /\ col \in [Obj -> Colors] /\ \A o \in Obj : col[o] # "dead"
          /\ \A o \in Obj : col[o] \in Marks <=> color[o] \in Marks \/ o \in X
          /\ \A o \in Obj \ X : col[o] = color[o]
          /\ \A o \in X : color[o] = "white" /\ o \in alloc
          /\ \A s \in {v} : col[s] \in Marks
          /\ ColorsOK(alloc, col, open, tmudata)
          /\ FreshOK(alloc, col, tab, link, stk, open)
          /\ \A o \in X, r \in Obj : col[o] = "black" /\ Holds(o, r, tab, link, stk, open, val) => col[r] \in Marks
          /\ \A o \in X : col[o] = "gray" => o \in Listed(X) \/ kind[o] = "string" \/ open[o] # NotOpen
          /\ Listed(X) \subseteq Traversable /\ \A o \in Listed(X) : col[o] = "gray"
      <4>1. Recolored({v}, X, col)
        <5>1. {v} \in SUBSET alloc
          BY <1>4, <2>4
        <5> QED
          BY <1>6, <2>1, <5>1, RecolorFacts
      <4> QED
        BY <4>1 DEF Recolored
    <3>3. FreshOK(alloc, col, tab, link', stk', open)
      BY <3>2 DEF FreshOK
    <3>4. p \notin X
      BY <1>5, <2>4, <3>2
    <3>5. Settled(col, tmudata, tab, link', stk', open, val')
      <4> SUFFICES ASSUME NEW o \in Obj \ tmudata, NEW r \in Obj, col[o] = "black",
                          Holds(o, r, tab, link', stk', open, val')
                   PROVE  col[r] \in Marks
        BY DEF Settled, Marks
      <4>1. open[o] = NotOpen
        BY <3>2 DEF ColorsOK
      <4>2. CASE o = p /\ r = v
        BY <3>2, <4>2
      <4>3. CASE Holds(o, r, tab, link, stk, open, val) /\ o \in X
        BY <3>2, <4>3
      <4>4. CASE Holds(o, r, tab, link, stk, open, val) /\ o \notin X
        BY <2>1, <3>2, <4>4 DEF Settled, Marks
      <4> QED
        BY <4>1, <4>2, <4>3, <4>4
    <3>6. WaitsOK(col, open, gray', grayagain, weak)
      <4> SUFFICES ASSUME NEW o \in Obj, col[o] = "gray"
                   PROVE  o \in gray' \cup grayagain \cup weak \/ kind[o] = "string" \/ open[o] # NotOpen
        BY DEF WaitsOK
      <4>1. CASE o \in X
        BY <3>1, <3>2, <4>1
      <4>2. CASE o \notin X
        BY <2>1, <3>1, <3>2, <4>2 DEF WaitsOK
      <4> QED
        BY <4>1, <4>2
    <3>7. ListsOK(col, gray', grayagain, weak)
      <4>1. \A o \in Listed(X) : o \in X
        BY DEF Listed
      <4>2. \A o \in gray \cup grayagain \cup weak : o \in Obj /\ o \notin X /\ o \in Traversable /\ color[o] = "gray"
        BY <1>2, <3>2 DEF ListsOK, Traversable
      <4>3. gray \cap grayagain = {} /\ gray \cap weak = {} /\ grayagain \cap weak = {}
        BY <1>2 DEF ListsOK
      <4>4. \A o \in gray' \cup grayagain \cup weak : o \in Traversable /\ col[o] = "gray"
        BY <3>1, <3>2, <4>2
      <4>5. gray' \cap grayagain = {} /\ gray' \cap weak = {} /\ grayagain \cap weak = {}
        BY <3>1, <4>1, <4>2, <4>3
      <4> QED
        BY <4>4, <4>5 DEF ListsOK
    <3>8. {col[Main], col[Registry]} \subseteq Marks
      BY <2>1, <3>2, HeapAssumption
    <3> QED
      BY <3>1, <3>2, <3>3, <3>5, <3>6, <3>7, <3>8 DEF MarkingOK, Marks
  <2> QED
    BY <2>3, <2>4
<1>8. ASSUME gcstate # "propagate"
      PROVE  /\ color' \in [Obj -> Colors] /\ \A o \in Obj : color'[o] = color[o] \/ (o = p /\ color[o] = "black" /\ color'[o] = "white")
             /\ FreshOK(alloc, color', tab, link', stk', open)
             /\ ColorsOK(alloc, color', open, tmudata)
             /\ SweepingOK(alloc, color', open, tmudata, sweepstr, sweepgc)
             /\ gray' = {} /\ grayagain = {} /\ weak = {}
  <2>1. SweepingOK(alloc, color, open, tmudata, sweepstr, sweepgc) /\ gray = {} /\ grayagain = {} /\ weak = {}
    BY <1>8 DEF GCInv
  <2>2. /\ color' \in [Obj -> Colors] /\ \A o \in Obj : color'[o] = color[o] \/ (o = p /\ color[o] = "black" /\ color'[o] = "white")
        /\ gray' = {}
    BY <1>2, <1>3, <1>5, <1>8, <2>1 DEF Colors
  <2>3. FreshOK(alloc, color', tab, link', stk', open)
    BY <1>2, <2>2 DEF FreshOK
  <2>4. ColorsOK(alloc, color', open, tmudata)
    BY <1>2, <2>2 DEF ColorsOK
  <2>5. SweepingOK(alloc, color', open, tmudata, sweepstr, sweepgc)
    BY <2>1, <2>2 DEF SweepingOK
  <2> QED
    BY <2>1, <2>2, <2>3, <2>4, <2>5
<1>9. Alive(alloc, color') = Alive(alloc, color)
  <2>1. CASE gcstate = "propagate"
    <3>1. \A o \in Obj : color[o] # "dead"
      BY <2>1 DEF GCInv, MarkingOK
    <3> QED
      BY <1>2, <1>7, <2>1, <3>1 DEF Alive
  <2>2. CASE gcstate # "propagate"
    BY <1>2, <1>8, <2>2 DEF Alive
  <2> QED
    BY <2>1, <2>2
<1>10. TypesOK'
  <2>1. color' \in [Obj -> Colors]
    BY <1>7, <1>8
  <2>2. TypesOK
    BY DEF GCInv
  <2> QED
    BY <1>1, <2>1, <2>2 DEF TypesOK
<1>11. LinksOK(alloc, link, open)'
  BY <1>1
<1>12. RootsOK(alloc, color, mt, running)'
  BY <1>1, <1>2, <1>9 DEF RootsOK
<1>13. Sound(alloc, color, tab, link, stk, open, val)'
  <2> SUFFICES ASSUME NEW o \in Alive(alloc, color), NEW r \in Obj, Points(o, r, tab, link', stk', open, val')
               PROVE  r \in Alive(alloc, color)
    BY <1>1, <1>9 DEF Sound
  <2> QED
    BY <1>2 DEF Sound
<1>14. /\ FreshOK(alloc, color, tab, link, stk, open)'
       /\ ColorsOK(alloc, color, open, tmudata)'
       /\ ListsOK(color, gray, grayagain, weak)'
  <2>1. CASE gcstate = "propagate"
    BY <1>1, <1>7, <2>1
  <2>2. CASE gcstate # "propagate"
    BY <1>1, <1>8, <2>2 DEF ListsOK
  <2> QED
    BY <2>1, <2>2
<1>15. (gcstate \in {"pause", "finalize"} => sweepgc = {}) /\ (gcstate # "sweepstring" => sweepstr = {})
       /\ (gcstate = "propagate" => sweepstr = {} /\ sweepgc = {})
  BY DEF GCInv
<1> QED
  BY <1>1, <1>7, <1>8, <1>10, <1>11, <1>12, <1>13, <1>14, <1>15 DEF GCInv

\* lua_rawset: the entry may be new, or have kept the key of one that is gone.
LEMMA EntrySet ==
  ASSUME GCInv, NEW t \in OfKindIn(Held, "table") \cup {Registry}, NEW k \in (Held \cap Keys) \cup {Array},
         NEW v \in Held \cup {Nil}, lua_rawset(t, k, v)
  PROVE  GCInv'
<1> DEFINE S == {v} \cup (IF tab[t][k] = NoKey THEN {k} ELSE {})
<1>1. /\ tab' = [tab EXCEPT ![t][k] = v] /\ luaC_barriert(t, S) /\ link' = link
      /\ UNCHANGED <<alloc, mode, open, val, stk, mt, running, collector>>
  BY DEF lua_rawset
<1>2. /\ t \in Obj /\ kind[t] = "table" /\ t \in Alive(alloc, color)
      /\ tab \in [Obj -> [Keys -> Values \cup {Nil, NoKey}]] /\ link \in [Obj -> SUBSET Obj]
      /\ k \in Keys /\ v \in Values \cup {Nil}
      /\ (v # Nil => v \in Alive(alloc, color)) /\ (k \in Obj => k \in Alive(alloc, color))
      /\ Nil \notin Obj /\ v # NoKey
  <2>1. Array \in Keys
    BY DEF Keys
  <2>2. tab \in [Obj -> [Keys -> Values \cup {Nil, NoKey}]] /\ link \in [Obj -> SUBSET Obj]
    BY DEF GCInv, TypesOK
  <2> QED
    BY <2>1, <2>2, HeldFacts, HeapAssumption DEF OfKindIn
<1> HIDE DEF S
<1>3. /\ tab' \in [Obj -> [Keys -> Values \cup {Nil, NoKey}]] /\ link' \in [Obj -> SUBSET Obj]
      /\ \A o \in Obj \ {t} : tab'[o] = tab[o] /\ link'[o] = link[o]
      /\ tab'[t][k] = v /\ \A x \in Keys \ {k} : tab'[t][x] = tab[t][x]
  BY <1>1, <1>2
<1>4. link'[t] \subseteq Values
  BY <1>1, <1>2, Shapes
<1>5. ASSUME NEW r \in Obj, Points(t, r, tab', link', stk, open, val)
      PROVE  Points(t, r, tab, link, stk, open, val) \/ r \in Alive(alloc, color)
  BY <1>1, <1>2, <1>3, <1>5 DEF Points
<1>6. ASSUME NEW r \in Obj, Holds(t, r, tab', link', stk, open, val)
      PROVE  Holds(t, r, tab, link, stk, open, val) \/ r \in S
  BY <1>1, <1>2, <1>3, <1>6 DEF Holds, S
<1> QED
  BY <1>1, <1>2, <1>3, <1>4, <1>5, <1>6, TableStored

\* lua_setmetatable on a table.
LEMMA MetatableSet ==
  ASSUME GCInv, NEW t \in OfKindIn(Held, "table") \cup {Registry}, NEW m \in OfKindIn(Held, "table") \cup {Nil},
         lua_setmetatable(t, m)
  PROVE  GCInv'
<1>1. /\ link' = [link EXCEPT ![t] = {m} \ {Nil}] /\ luaC_barriert(t, {m}) /\ tab' = tab
      /\ UNCHANGED <<alloc, mode, open, val, stk, mt, running, collector>>
  BY DEF lua_setmetatable
<1>2. /\ t \in Obj /\ kind[t] = "table" /\ t \in Alive(alloc, color)
      /\ tab \in [Obj -> [Keys -> Values \cup {Nil, NoKey}]] /\ link \in [Obj -> SUBSET Obj]
      /\ (m # Nil => m \in Alive(alloc, color) /\ m \in Values /\ m \in Obj)
  <2>1. tab \in [Obj -> [Keys -> Values \cup {Nil, NoKey}]] /\ link \in [Obj -> SUBSET Obj]
    BY DEF GCInv, TypesOK
  <2> QED
    BY <2>1, HeldFacts, HeapAssumption DEF OfKindIn
<1>3. /\ tab' \in [Obj -> [Keys -> Values \cup {Nil, NoKey}]] /\ link' \in [Obj -> SUBSET Obj]
      /\ \A o \in Obj \ {t} : tab'[o] = tab[o] /\ link'[o] = link[o]
      /\ link'[t] = {m} \ {Nil} /\ link'[t] \subseteq Values
  BY <1>1, <1>2
<1>4. ASSUME NEW r \in Obj, Points(t, r, tab', link', stk, open, val)
      PROVE  Points(t, r, tab, link, stk, open, val) \/ r \in Alive(alloc, color)
  BY <1>1, <1>2, <1>3, <1>4 DEF Points
<1>5. ASSUME NEW r \in Obj, Holds(t, r, tab', link', stk, open, val)
      PROVE  Holds(t, r, tab, link, stk, open, val) \/ r \in {m}
  BY <1>1, <1>2, <1>3, <1>5 DEF Holds
<1> QED
  BY <1>1, <1>2, <1>3, <1>4, <1>5, TableStored

\* lua_setfenv, and lua_setmetatable on a userdata.
LEMMA EnvironmentSet ==
  ASSUME GCInv, NEW o \in OfKindIn(Held, "udata") \cup OfKindIn(Held, "func"),
         NEW m \in OfKindIn(Held, "table"), lua_setfenv(o, m)
  PROVE  GCInv'
<1>1. /\ link' = [link EXCEPT ![o] = {x \in link[o] : kind[x] = "upval"} \cup {m}] /\ luaC_barrier(o, m)
      /\ val' = val /\ stk' = stk
      /\ UNCHANGED <<alloc, tab, mode, open, mt, running, collector>>
  BY DEF lua_setfenv
<1>2. /\ o \in Obj /\ kind[o] \in {"udata", "func"} /\ o \in Alive(alloc, color) /\ o \in alloc
      /\ link \in [Obj -> SUBSET Obj] /\ val \in [Obj -> Values \cup {Nil}]
      /\ stk \in [Obj -> [Slots -> Values \cup {Nil}]]
      /\ m \in Alive(alloc, color) /\ m \in Values /\ m \in Obj
      /\ LinksOK(alloc, link, open) /\ FreshOK(alloc, color, tab, link, stk, open)
      /\ Values \subseteq Obj
  <2>1. /\ link \in [Obj -> SUBSET Obj] /\ val \in [Obj -> Values \cup {Nil}]
        /\ stk \in [Obj -> [Slots -> Values \cup {Nil}]]
        /\ LinksOK(alloc, link, open) /\ FreshOK(alloc, color, tab, link, stk, open)
    BY DEF GCInv, TypesOK
  <2> QED
    BY <2>1, HeldFacts DEF OfKindIn
<1>3. /\ link' \in [Obj -> SUBSET Obj] /\ \A x \in Obj \ {o} : link'[x] = link[x]
      /\ \A x \in link'[o] : x = m \/ (x \in link[o] /\ kind[x] = "upval")
  BY <1>1, <1>2
<1>4. link[o] \subseteq Obj /\ (kind[o] # "func" => link[o] \subseteq Values)
  BY <1>2, Shapes
<1>5. LinksOK(alloc, link', open)
  <2>1. link'[o] \subseteq Obj /\ (kind[o] # "func" => link'[o] \subseteq Values)
    BY <1>2, <1>3, <1>4
  <2> QED
    BY <1>2, <1>3, <2>1 DEF LinksOK
<1>6. \A x \in Obj \ alloc : link'[x] = {} /\ stk'[x] = EmptyStack
  BY <1>1, <1>2, <1>3 DEF FreshOK
<1>7. ASSUME NEW x \in Alive(alloc, color), NEW r \in Obj, Points(x, r, tab, link', stk', open, val')
      PROVE  Points(x, r, tab, link, stk, open, val) \/ r = m
  <2>1. x \in Obj
    BY HeldFacts
  <2>2. m \notin {u \in Obj : kind[u] = "upval"}
    BY <1>2 DEF Values
  <2>3. \A u \in link'[x] : u \in link[x] \/ u = m
    BY <1>3, <2>1
  <2> QED
    BY <1>1, <1>2, <1>7, <2>1, <2>2, <2>3 DEF Points
<1>8. ASSUME NEW x \in Obj, NEW r \in Obj, Holds(x, r, tab, link', stk', open, val')
      PROVE  Holds(x, r, tab, link, stk, open, val) \/ (x = o /\ r = m)
  BY <1>1, <1>3, <1>8 DEF Holds
<1>9. val' \in [Obj -> Values \cup {Nil}] /\ stk' \in [Obj -> [Slots -> Values \cup {Nil}]]
  BY <1>1, <1>2
<1>10. UNCHANGED <<alloc, tab, mode, open, mt, running, collector>> /\ luaC_barrier(o, m) /\ link' \in [Obj -> SUBSET Obj]
       /\ m \in Values \cup {Nil} /\ m \in Alive(alloc, color) /\ o \in Obj
  BY <1>1, <1>2, <1>3
<1> QED
  BY <1>5, <1>6, <1>7, <1>8, <1>9, <1>10, ObjectStored

\* OP_SETUPVAL, on an upvalue that is open in some thread or closed.
LEMMA UpvalueSet ==
  ASSUME GCInv, NEW f \in OfKindIn(Held, "func"), NEW u \in link[f], NEW v \in Held \cup {Nil},
         OP_SETUPVAL(f, u, v)
  PROVE  GCInv'
<1>1. /\ kind[u] = "upval" /\ StoreUpval(u, v) /\ luaC_barrier(u, v) /\ link' = link
      /\ UNCHANGED <<alloc, tab, mode, open, mt, running, collector>>
  BY DEF OP_SETUPVAL
<1>2. /\ f \in Obj /\ u \in Obj /\ v \in Values \cup {Nil} /\ (v # Nil => v \in Alive(alloc, color))
      /\ link \in [Obj -> SUBSET Obj] /\ val \in [Obj -> Values \cup {Nil}]
      /\ stk \in [Obj -> [Slots -> Values \cup {Nil}]]
      /\ LinksOK(alloc, link, open) /\ FreshOK(alloc, color, tab, link, stk, open)
  <2>1. /\ link \in [Obj -> SUBSET Obj] /\ val \in [Obj -> Values \cup {Nil}]
        /\ stk \in [Obj -> [Slots -> Values \cup {Nil}]]
        /\ LinksOK(alloc, link, open) /\ FreshOK(alloc, color, tab, link, stk, open)
    BY DEF GCInv, TypesOK
  <2>2. f \in Obj /\ v \in Values \cup {Nil} /\ (v # Nil => v \in Alive(alloc, color))
    BY HeldFacts DEF OfKindIn
  <2> QED
    BY <2>1, <2>2
<1>3. CASE open[u] = NotOpen
  <2>1. val' = [val EXCEPT ![u] = v] /\ stk' = stk
    BY <1>1, <1>3 DEF StoreUpval
  <2>2. /\ val' \in [Obj -> Values \cup {Nil}] /\ val'[u] = v /\ \A x \in Obj \ {u} : val'[x] = val[x]
    BY <1>2, <2>1
  <2>3. \A x \in Obj : ValueOf(x, stk', open, val') = IF x = u THEN v ELSE ValueOf(x, stk, open, val)
    BY <1>3, <2>1, <2>2 DEF ValueOf
  <2>4. ASSUME NEW x \in Alive(alloc, color), NEW r \in Obj, Points(x, r, tab, link', stk', open, val')
        PROVE  Points(x, r, tab, link, stk, open, val) \/ r = v
    <3>1. x \in Obj
      BY HeldFacts
    <3>2. link[x] \subseteq Obj
      BY <3>1, Shapes
    <3> QED
      BY <1>1, <2>1, <2>3, <2>4, <3>1, <3>2 DEF Points
  <2>5. ASSUME NEW x \in Obj, NEW r \in Obj, Holds(x, r, tab, link', stk', open, val')
        PROVE  Holds(x, r, tab, link, stk, open, val) \/ (x = u /\ r = v)
    BY <1>1, <2>3, <2>5 DEF Holds
  <2>6. \A x \in Obj \ alloc : link'[x] = {} /\ stk'[x] = EmptyStack
    BY <1>1, <1>2, <2>1 DEF FreshOK
  <2>7. /\ stk' \in [Obj -> [Slots -> Values \cup {Nil}]] /\ link' \in [Obj -> SUBSET Obj]
        /\ LinksOK(alloc, link', open)
    BY <1>1, <1>2, <2>1
  <2> QED
    BY <1>1, <1>2, <2>2, <2>4, <2>5, <2>6, <2>7, ObjectStored
<1>4. CASE open[u] # NotOpen
  <2>1. /\ open[u][1] \in Obj /\ open[u][1] \in alloc
    BY <1>2, <1>4, Shapes
  <2>2. Put(open[u][1], open[u][2], v) /\ val' = val
    BY <1>1, <1>4 DEF StoreUpval, Put
  <2>3. PutOK(open[u][1], open[u][2], v)
    BY <1>2, <2>1, <2>2, StackStored
  <2>4. /\ stk' \in [Obj -> [Slots -> Values \cup {Nil}]]
        /\ \A o \in Obj, r \in Obj : Points(o, r, tab, link, stk', open, val)
                                       => Points(o, r, tab, link, stk, open, val) \/ r = v
        /\ \A o \in Obj, r \in Obj : open[o] = NotOpen /\ Holds(o, r, tab, link, stk', open, val)
                                       => Holds(o, r, tab, link, stk, open, val)
        /\ \A o \in Obj \ {open[u][1]} : stk'[o] = stk[o]
    BY <2>3 DEF PutOK
  <2>5. \A x \in Obj \ alloc : link'[x] = {} /\ stk'[x] = EmptyStack
    BY <1>1, <1>2, <2>1, <2>4 DEF FreshOK
  <2>6. Alive(alloc, color) \subseteq Obj
    BY HeldFacts
  <2>7. \A o \in Alive(alloc, color), r \in Obj : Points(o, r, tab, link', stk', open, val')
                                       => Points(o, r, tab, link, stk, open, val) \/ r = v
    BY <1>1, <2>2, <2>4, <2>6
  <2> QED
    BY <1>1, <1>2, <2>2, <2>4, <2>5, <2>7, ObjectStored
<1> QED
  BY <1>3, <1>4

-------------------------------------------------------------------------------
(* The invariant holds *)

\* The heap of a new state: the main thread, the registry, and nothing marked.
LEMMA GCInvInit == Init => GCInv
<1> SUFFICES ASSUME Init PROVE GCInv
  OBVIOUS
<1>1. /\ alloc = {Main, Registry}
      /\ color = [o \in Obj |-> "white"]
      /\ tab = [o \in Obj |-> EmptyTable]
      /\ mode = [o \in Obj |-> {}] /\ link = [o \in Obj |-> {}]
      /\ open = [o \in Obj |-> NotOpen] /\ val = [o \in Obj |-> Nil]
      /\ stk = [o \in Obj |-> EmptyStack]
      /\ mt = Nil /\ running = Main /\ gcstate = "pause"
      /\ gray = {} /\ grayagain = {} /\ weak = {}
      /\ sweepstr = {} /\ sweepgc = {} /\ tmudata = {} /\ full = "no"
  BY DEF Init
<1>2. EmptyTable \in [Keys -> Values \cup {Nil, NoKey}] /\ EmptyStack \in [Slots -> Values \cup {Nil}]
  BY DEF EmptyTable, EmptyStack
<1>3. /\ Main \in Obj /\ kind[Main] = "thread" /\ Registry \in Obj /\ Nil \notin Obj /\ NoKey \notin Obj
  BY HeapAssumption
<1>4. TypesOK
  BY <1>1, <1>2, <1>3 DEF TypesOK, Colors, NotOpen
<1>5. LinksOK(alloc, link, open) /\ FreshOK(alloc, color, tab, link, stk, open)
      /\ ColorsOK(alloc, color, open, tmudata)
  BY <1>1 DEF LinksOK, FreshOK, ColorsOK
<1>6. Alive(alloc, color) = alloc
  BY <1>1, <1>3 DEF Alive
<1>7. RootsOK(alloc, color, mt, running)
  BY <1>1, <1>3, <1>6 DEF RootsOK
<1>8. Sound(alloc, color, tab, link, stk, open, val)
  <2> SUFFICES ASSUME NEW o \in {Main, Registry}, NEW r \in Obj, Points(o, r, tab, link, stk, open, val)
               PROVE  r \in {Main, Registry}
    BY <1>1, <1>6 DEF Sound
  <2>1. o \in Obj /\ tab[o] = EmptyTable /\ link[o] = {} /\ stk[o] = EmptyStack /\ kind[o] \in {"thread", "table"}
    BY <1>1, <1>3, HeapAssumption
  <2>2. \A k \in Keys : tab[o][k] \notin Obj
    BY <1>3, <2>1 DEF EmptyTable
  <2>3. \A s \in Slots : stk[o][s] = Nil
    BY <2>1 DEF EmptyStack
  <2> QED
    BY <1>3, <2>1, <2>2, <2>3 DEF Points
<1>9. ListsOK(color, gray, grayagain, weak)
  BY <1>1 DEF ListsOK
<1>10. SweepingOK(alloc, color, open, tmudata, sweepstr, sweepgc)
  BY <1>1 DEF SweepingOK
<1> QED
  BY <1>1, <1>4, <1>5, <1>7, <1>8, <1>9, <1>10 DEF GCInv

\* Steps of the collector keep it.
LEMMA CollectorKeeps ==
  ASSUME GCInv, singlestep
  PROVE  GCInv'
<1>1. CASE markroot
  <2>1. /\ gcstate \in {"pause", "finalize"} /\ StartMarking /\ full' \in {"no", "sweeping", "marking"}
        /\ UNCHANGED <<heap, sweepstr, sweepgc, tmudata, fin>>
    BY <1>1 DEF markroot
  <2> QED
    BY <2>1, MarkingStarts
<1>2. CASE FullMark
  <2>1. /\ gcstate \in {"pause", "finalize"} /\ StartMarking /\ full' \in {"no", "sweeping", "marking"}
        /\ UNCHANGED <<heap, sweepstr, sweepgc, tmudata, fin>>
    BY <1>2 DEF FullMark
  <2> QED
    BY <2>1, MarkingStarts
<1>3. ASSUME NEW o \in Obj, propagatemark(o) PROVE GCInv'
  BY <1>3, Propagated
<1>4. CASE atomic
  BY <1>4, AtomicDone
<1>5. ASSUME NEW o \in Obj, sweepstring(o) PROVE GCInv'
  <2>1. /\ gcstate = "sweepstring" /\ o \in sweepstr /\ sweeplist(o)
        /\ sweepstr' = sweepstr \ {o} /\ sweepgc' = sweepgc
        /\ UNCHANGED <<mt, running, gcstate, lists, tmudata, full>>
    BY <1>5 DEF sweepstring
  <2>2. o \notin sweepgc
    BY <2>1 DEF GCInv, SweepingOK
  <2>3. sweepgc' = sweepgc \ {o}
    BY <2>1, <2>2
  <2> QED
    BY <2>1, <2>3, Swept
<1>6. ASSUME NEW o \in Obj, sweep(o) PROVE GCInv'
  <2>1. /\ gcstate = "sweep" /\ o \in sweepgc /\ sweeplist(o)
        /\ sweepgc' = sweepgc \ {o} /\ sweepstr' = sweepstr
        /\ UNCHANGED <<mt, running, gcstate, lists, tmudata, full>>
    BY <1>6 DEF sweep
  <2>2. sweepstr' = sweepstr \ {o}
    BY <2>1 DEF GCInv
  <2> QED
    BY <2>1, <2>2, Swept
<1>7. CASE NextPhase
  BY <1>7, PhaseEnds
<1>8. ASSUME NEW o \in Obj, GCTM(o) PROVE GCInv'
  BY <1>8, FinalizerCalled
<1> QED
  BY <1>1, <1>2, <1>3, <1>4, <1>5, <1>6, <1>7, <1>8 DEF singlestep

\* So does whatever a script does.
LEMMA ScriptKeeps ==
  ASSUME GCInv, Script
  PROVE  GCInv'
<1>1. ScriptWith(Held)
  BY DEF Script
<1>2. ASSUME NEW o \in Obj, NEW s \in Slots, NEW gc \in BOOLEAN, kind[o] \notin {"func", "upval"}, luaC_link(o, s, gc)
      PROVE  GCInv'
  BY <1>2, Linked
<1>3. ASSUME NEW o \in AllStrings, NEW s \in Slots, luaS_newlstr(o, s)
      PROVE  GCInv'
  BY <1>3, StringReused
<1>4. ASSUME NEW f \in Obj, NEW u \in Obj, NEW c \in Slots \ {Temp}, OP_CLOSURE(f, u, c)
      PROVE  GCInv'
  BY <1>4, Captured
<1>5. ASSUME NEW c \in Slots, luaF_close(c)
      PROVE  GCInv'
  BY <1>5, SlotsClosed
<1>6. ASSUME NEW s \in Slots, Load(s, Held)
      PROVE  GCInv'
  <2>1. PICK v \in Held \cup {Nil} : stk' = [stk EXCEPT ![running][s] = v]
    BY <1>6 DEF Load
  <2>2. UNCHANGED <<alloc, tab, mode, link, open, val, mt, running, color, lists, collector>>
    BY <1>6 DEF Load
  <2>3. running \in alloc /\ kind[running] = "thread"
    BY HeldFacts DEF GCInv, TypesOK
  <2> QED
    BY <2>1, <2>2, <2>3, ValueMoved
<1>7. ASSUME NEW t \in OfKindIn(Held, "table") \cup {Registry}, NEW k \in (Held \cap Keys) \cup {Array},
             NEW v \in Held \cup {Nil}, lua_rawset(t, k, v)
      PROVE  GCInv'
  BY <1>7, EntrySet
<1>8. ASSUME NEW t \in OfKindIn(Held, "table") \cup {Registry}, NEW m \in OfKindIn(Held, "table") \cup {Nil},
             lua_setmetatable(t, m)
      PROVE  GCInv'
  BY <1>8, MetatableSet
<1>9. ASSUME NEW o \in OfKindIn(Held, "udata") \cup OfKindIn(Held, "func"), NEW m \in OfKindIn(Held, "table"),
             lua_setfenv(o, m)
      PROVE  GCInv'
  BY <1>9, EnvironmentSet
<1>10. ASSUME NEW m \in OfKindIn(Held, "table") \cup {Nil}, SetBasicMetatable(m)
       PROVE  GCInv'
  <2>1. m \in Held \cup {Nil}
    BY DEF OfKindIn
  <2> QED
    BY <1>10, <2>1, BasicSet
<1>11. ASSUME NEW t \in OfKindIn(Held, "table"), NEW m \in Modes, SetMode(t, m)
       PROVE  GCInv'
  BY <1>11, ModeSet
<1>12. ASSUME NEW f \in OfKindIn(Held, "func"), NEW v \in Held \cup {Nil}, NEW u \in link[f], OP_SETUPVAL(f, u, v)
       PROVE  GCInv'
  BY <1>12, UpvalueSet
<1>13. ASSUME NEW t \in OfKindIn(Held, "thread"), NEW v \in Held, lua_xmove(t, Temp, v)
       PROVE  GCInv'
  <2>1. /\ stk' = [stk EXCEPT ![t][Temp] = v]
        /\ UNCHANGED <<alloc, tab, mode, link, open, val, mt, running, color, lists, collector>>
    BY <1>13 DEF lua_xmove, collector
  <2>2. t \in alloc /\ kind[t] = "thread"
    BY HeldFacts DEF OfKindIn
  <2> QED
    BY <2>1, <2>2, ValueMoved
<1>14. ASSUME NEW t \in Obj, Switch(t, Held)
       PROVE  GCInv'
  BY <1>14, Switched
<1>15. CASE luaC_fullgc
  BY <1>15, FullStarts
<1> QED
  BY <1>1, <1>2, <1>3, <1>4, <1>5, <1>6, <1>7, <1>8, <1>9, <1>10, <1>11, <1>12, <1>13, <1>14, <1>15 DEF ScriptWith

\* A step that changes nothing keeps it.
LEMMA StutterKeeps ==
  ASSUME GCInv, UNCHANGED vars
  PROVE  GCInv'
<1>1. /\ alloc' = alloc /\ color' = color /\ tab' = tab /\ mode' = mode /\ link' = link /\ open' = open
      /\ val' = val /\ stk' = stk /\ mt' = mt /\ running' = running /\ gcstate' = gcstate
      /\ gray' = gray /\ grayagain' = grayagain /\ weak' = weak
      /\ sweepstr' = sweepstr /\ sweepgc' = sweepgc /\ tmudata' = tmudata /\ full' = full
  BY DEF vars
<1>2. TypesOK'
  BY <1>1 DEF GCInv, TypesOK
<1> QED
  BY <1>1, <1>2 DEF GCInv

\* The heap is consistent in every state: what lives refers to what lives, and the
\* colours and the lists are such that it stays so.
THEOREM HeapIsConsistent == Spec => []GCInv
<1>1. GCInv /\ [Next]_vars => GCInv'
  BY CollectorKeeps, ScriptKeeps, StutterKeeps DEF Next
<1> QED
  BY <1>1, GCInvInit, PTL DEF Spec

\* What the invariant says of the state a run checks.
LEMMA ConsistentSuffices ==
  ASSUME GCInv
  PROVE  NothingDangles
<1>1. alloc \subseteq Obj /\ color \in [Obj -> Colors] /\ \A o \in Obj : Live(o) <=> o \in Alive(alloc, color)
  BY DEF GCInv, TypesOK, Live, isdead, Alive
<1>2. \A o \in Roots \cup {running} : Live(o)
  <2>1. {Main, Registry, mt, running} \ {Nil} \subseteq Alive(alloc, color) /\ running \in Alive(alloc, color)
    BY HeldFacts DEF GCInv, RootsOK
  <2> QED
    BY <1>1, <2>1 DEF Roots, Alive
<1>3. ASSUME NEW o \in Obj, Live(o), NEW r \in Refs(o)
      PROVE  Live(r)
  <2>1. o \in Alive(alloc, color)
    BY <1>1, <1>3
  <2>2. r \in Obj /\ Points(o, r, tab, link, stk, open, val)
    <3>1. CASE r \in Edges(o)
      BY <3>1, EdgesFacts
    <3>2. CASE r \in Readable(o)
      BY <3>2, ReadableFacts DEF Values
    <3>3. CASE r \in link[o]
      BY <3>3, Shapes DEF Points
    <3> QED
      BY <1>3, <3>1, <3>2, <3>3 DEF Refs
  <2>3. r \in Alive(alloc, color)
    BY <2>1, <2>2 DEF GCInv, Sound
  <2> QED
    BY <1>1, <2>2, <2>3
<1>4. TriColor
  <2> SUFFICES ASSUME gcstate = "propagate", NEW o \in Obj \ tmudata, color[o] = "black", NEW r \in Edges(o)
               PROVE  ~iswhite(r)
    BY DEF TriColor
  <2>1. kind[o] # "thread"
    BY DEF GCInv, ColorsOK
  <2>2. r \in Obj /\ Holds(o, r, tab, link, stk, open, val)
    BY <2>1, EdgesFacts
  <2> QED
    BY <2>2 DEF GCInv, MarkingOK, Settled, iswhite
<1>5. ListsAndMarks
  <2>1. /\ gray \cap grayagain = {} /\ gray \cap weak = {} /\ grayagain \cap weak = {}
        /\ \A o \in gray \cup grayagain \cup weak : color[o] = "gray"
    BY DEF GCInv, ListsOK
  <2>2. ASSUME gcstate \in {"pause", "finalize"}, NEW o \in Obj \ tmudata
        PROVE  color[o] = "white"
    BY <2>2 DEF GCInv, SweepingOK, Unswept
  <2> QED
    BY <2>1, <2>2 DEF ListsAndMarks
<1> QED
  BY <1>2, <1>3, <1>4, <1>5 DEF NothingDangles

\* Nothing alive refers to what the collector has freed or is about to free.
THEOREM NothingAliveDangles == Spec => []NothingDangles
<1>1. GCInv => NothingDangles
  BY ConsistentSuffices
<1> QED
  BY <1>1, HeapIsConsistent, PTL

-------------------------------------------------------------------------------
(* Finalizers *)

\* What is reachable past the waiting userdata is marked when atomic separates
\* the userdata.
LEMMA ReachableMarked ==
  ASSUME GCInv, gcstate = "propagate"
  PROVE  ReachPastWaiting \subseteq AllMarked
<1> DEFINE S == Roots \cup {running}
           E == [o \in Obj |-> IF o \in tmudata THEN {} ELSE Edges(o)]
<1>1. /\ AllMarked \subseteq Obj /\ S \subseteq AllMarked
      /\ \A o \in AllMarked \ tmudata : Edges(o) \subseteq AllMarked
  <2>1. alloc \subseteq Obj
    BY DEF GCInv, TypesOK
  <2>2. AllMarked = AtomicMarks \cup {o \in Obj : ~iswhite(o)}
    BY DEF AllMarked
  <2>3. /\ AllMarked \subseteq alloc
        /\ {Main, Registry, running} \cup ({mt} \ {Nil}) \subseteq AllMarked
        /\ \A o \in AllMarked \ tmudata : Edges(o) \subseteq AllMarked
    BY <2>2, AtomicClosed
  <2> QED
    BY <2>1, <2>3 DEF Roots
<1>2. S \in SUBSET Obj
  BY <1>1
<1>3. E \in [Obj -> SUBSET Obj]
  BY EdgesFacts
<1>4. \A p \in AllMarked : E[p] \subseteq AllMarked
  BY <1>1
<1> HIDE DEF S, E
<1>5. Closure(S, E) \subseteq AllMarked
  BY <1>1, <1>2, <1>3, <1>4, ClosureFacts
<1> QED
  BY <1>5 DEF ReachPastWaiting, S, E

\* Only atomic puts userdata among those that wait for their finalizers.
LEMMA OnlyAtomicSchedules ==
  ASSUME [Next]_vars, ~atomic
  PROVE  tmudata' \subseteq tmudata
<1>1. CASE UNCHANGED vars
  BY <1>1 DEF vars
<1>2. CASE singlestep
  BY <1>2 DEF singlestep, markroot, propagatemark, sweepstring, sweep, GCTM, NextPhase, FullMark
<1>3. CASE Script
  <2>1. PICK H : ScriptWith(H)
    BY <1>3 DEF Script
  <2> QED
    BY <2>1 DEF ScriptWith, collector, luaC_link, luaS_newlstr, OP_CLOSURE, luaF_close, Load, lua_rawset,
       lua_setmetatable, lua_setfenv, SetBasicMetatable, SetMode, OP_SETUPVAL, lua_xmove, Switch, luaC_fullgc
<1> QED
  BY <1>1, <1>2, <1>3 DEF Next

\* A finalizer is scheduled only for a userdata that nothing reaches, unless
\* through userdata that wait for theirs.
THEOREM FinalizersForGarbageOnly == Spec => FinalizesOnlyGarbage
<1>1. ASSUME GCInv, [Next]_vars
      PROVE  [\A u \in tmudata' \ tmudata : u \notin ReachPastWaiting]_vars
  <2>1. CASE atomic
    <3>1. gcstate = "propagate" /\ tmudata' = tmudata \cup luaC_separateudata(AllMarked)
      BY <2>1 DEF atomic, AllMarked
    <3>2. \A u \in luaC_separateudata(AllMarked) : u \notin AllMarked
      BY DEF luaC_separateudata, DeadUdata
    <3> QED
      BY <1>1, <3>1, <3>2, ReachableMarked
  <2>2. CASE ~atomic
    BY <1>1, <2>2, OnlyAtomicSchedules
  <2> QED
    BY <2>1, <2>2
<1> QED
  BY <1>1, HeapIsConsistent, PTL DEF Spec, FinalizesOnlyGarbage

===============================================================================
