---------------------------- MODULE LuaMatches ------------------------------
(***************************************************************************)
(* What a Lua pattern matches.  A pattern is a sequence of items:          *)
(*   [k |-> "one", set, rep]   one character of a set, or a repetition of  *)
(*                             them, rep one of "", "?", "*", "+", "-"     *)
(*   [k |-> "group", n, items] the capture number n                        *)
(*   [k |-> "here", n]         the position as capture number n            *)
(*   [k |-> "same", n]         what capture n has captured                 *)
(*   [k |-> "balance", b, e]   b up to the e that balances it              *)
(*   [k |-> "frontier", set]   between a character outside and one inside  *)
(*   [k |-> "end"]             the end of the subject                      *)
(*   [k |-> "start"]           first in a pattern: where the search begins *)
(* The matches of an item at a position are a sequence, the preferred one  *)
(* first; those of a pattern are those of its first item, each continued   *)
(* by those of the rest.                                                   *)
(***************************************************************************)
LOCAL INSTANCE Integers
LOCAL INSTANCE SequencesExt
LOCAL INSTANCE FiniteSetsExt

Anchored(items) == items # <<>> /\ items[1].k = "start"
Body(items) == IF Anchored(items) THEN Tail(items) ELSE items

AtOrEnd(t, i) == IF i \in DOMAIN t THEN t[i] ELSE "NUL"

\* The ends of a run of characters of set from i, shortest first.
Ends(t, i, set) ==
    LET far == Max({j \in i .. Len(t) + 1 : \A k \in i .. j - 1 : t[k] \in set})
    IN  [j \in 1 .. far - i + 1 |-> i + j - 1]

Balanced(t, i, j, b, e) ==
    LET Depth(m) == Cardinality({k \in i .. m : t[k] = b}) - Cardinality({k \in i .. m : t[k] = e})
    IN  Depth(j) = 0 /\ \A m \in i .. j - 1 : Depth(m) > 0

\* caps maps the numbers of captures to what they hold.
RECURSIVE Matches(_, _, _, _)
Each(it, t, i, caps) ==
    CASE it.k = "one" ->
            LET ends == Ends(t, i, it.set)
                which == CASE it.rep = "" -> IF Len(ends) > 1 THEN <<i + 1>> ELSE <<>>
                           [] it.rep = "?" -> IF Len(ends) > 1 THEN <<i + 1, i>> ELSE <<i>>
                           [] it.rep = "*" -> Reverse(ends)
                           [] it.rep = "+" -> Reverse(Tail(ends))
                           [] it.rep = "-" -> ends
            IN  [k \in DOMAIN which |-> [e |-> which[k], caps |-> caps]]
      [] it.k = "group" ->
            LET inner == Matches(it.items, t, i, caps)
            IN  [k \in DOMAIN inner |->
                    [inner[k] EXCEPT !.caps = [@ EXCEPT ![it.n] = <<"text", SubSeq(t, i, inner[k].e - 1)>>]]]
      [] it.k = "here" -> <<[e |-> i, caps |-> [caps EXCEPT ![it.n] = <<"pos", i>>]]>>
      [] it.k = "same" ->
            IF /\ caps[it.n][1] = "text"
               /\ i + Len(caps[it.n][2]) <= Len(t) + 1
               /\ SubSeq(t, i, i + Len(caps[it.n][2]) - 1) = caps[it.n][2]
            THEN <<[e |-> i + Len(caps[it.n][2]), caps |-> caps]>> ELSE <<>>
      [] it.k = "balance" ->
            LET js == {j \in i + 1 .. Len(t) : t[i] = it.b /\ t[j] = it.e /\ Balanced(t, i, j, it.b, it.e)}
            IN  IF js = {} THEN <<>> ELSE <<[e |-> Min(js) + 1, caps |-> caps]>>
      [] it.k = "frontier" ->
            IF AtOrEnd(t, i - 1) \notin it.set /\ AtOrEnd(t, i) \in it.set
            THEN <<[e |-> i, caps |-> caps]>> ELSE <<>>
      [] it.k = "end" -> IF i = Len(t) + 1 THEN <<[e |-> i, caps |-> caps]>> ELSE <<>>

Matches(items, t, i, caps) ==
    IF items = <<>> THEN <<[e |-> i, caps |-> caps]>>
    ELSE LET first == Each(Head(items), t, i, caps)
         IN  FlattenSeq([k \in DOMAIN first |-> Matches(Tail(items), t, first[k].e, first[k].caps)])

RECURSIVE Captures(_)
Captures(items) ==
    IF items = <<>> THEN 0
    ELSE LET it == Head(items)
         IN  (CASE it.k = "group" -> 1 + Captures(it.items) [] it.k = "here" -> 1 [] OTHER -> 0)
             + Captures(Tail(items))

\* The preferred match at i with its captures, as a sequence of one, or none.
Preferred(all, t, i, captures) ==
    IF all = <<>> THEN <<>>
    ELSE <<[e |-> all[1].e,
            caps |-> IF captures = 0 THEN <<<<"text", SubSeq(t, i, all[1].e - 1)>>>> ELSE all[1].caps]>>
FirstWith(items, t, i, captures) ==
    Preferred(Matches(items, t, i, [n \in 1 .. captures |-> <<"none">>]), t, i, captures)
First(items, t, i) == FirstWith(items, t, i, Captures(items))

\* The matches from begin on, one after the other; only the first if it is anchored.
RECURSIVE All(_, _, _, _)
Onwards(m, items, t, i, anchor) ==
    CASE m = <<>> -> IF anchor THEN <<>> ELSE All(items, t, i + 1, anchor)
      [] OTHER -> <<[s |-> i, e |-> m[1].e, caps |-> m[1].caps]>>
                  \o (IF anchor THEN <<>> ELSE All(items, t, IF m[1].e = i THEN i + 1 ELSE m[1].e, anchor))
All(items, t, i, anchor) ==
    IF i > Len(t) + 1 THEN <<>> ELSE Onwards(First(items, t, i), items, t, i, anchor)
============================================================================
