------------------------------ MODULE LuaSort -------------------------------
(***************************************************************************)
(* table.sort (ltablib.c): the quicksort of auxsort, one step for each     *)
(* call of the order function.  A script's function may answer anything;   *)
(* what auxsort has read for a comparison is on the stack until it writes  *)
(* it back.                                                                *)
(***************************************************************************)
EXTENDS Integers, Sequences, FiniteSets

CONSTANTS Inputs,   \* sets of calls: records of sets of arrays and of orders
          Values, Nil

\* An order is the set of pairs its function answers true for, or ANY for a
\* function whose answers follow no rule.
ANY == {"any"}

VARIABLES array,    \* the elements the script passed
          order,    \* its order function
          t,        \* the table, with the slots before and after the elements
          frames,   \* the calls of auxsort, innermost first: their l and u
          i, j, st, \* the variables and the stack of the innermost one
          pc
vars == <<array, order, t, frames, i, j, st, pc>>

n == Len(array)
l == frames[1].l
u == frames[1].u
Top(k) == st[Len(st) + 1 - k]
Below(k) == SubSeq(st, 1, Len(st) - k)

\* set2: the top of the stack goes to p, what is under it to q.
set2(p, q) == [t EXCEPT ![p] = Top(1), ![q] = Top(2)]
Swap(tab, p, q) == [tab EXCEPT ![p] = tab[q], ![q] = tab[p]]

sort_comp(a, b) == IF order = ANY THEN BOOLEAN ELSE {(<<a, b>> \in order)}

----------------------------------------------------------------------------
(* auxsort. *)

\* The innermost call returns, or goes on with what is left of its range.
Returned == /\ frames' = Tail(frames)
            /\ pc' = IF Len(frames) = 1 THEN "done" ELSE "while"

While ==
    /\ pc = "while"
    /\ IF l < u
       THEN st' = <<t[l], t[u]>> /\ pc' = "ends" /\ UNCHANGED frames
       ELSE Returned /\ UNCHANGED st
    /\ UNCHANGED <<array, order, t, i, j>>

\* a[u] < a[l]?
Ends ==
    /\ pc = "ends"
    /\ \E res \in sort_comp(Top(1), Top(2)) :
         LET mid == (l + u) \div 2
         IN  /\ t' = IF res THEN set2(l, u) ELSE t
             /\ IF u - l = 1
                THEN Returned /\ st' = <<>> /\ UNCHANGED i
                ELSE i' = mid /\ st' = <<t'[mid], t'[l]>> /\ pc' = "low" /\ UNCHANGED frames
    /\ UNCHANGED <<array, order, j>>

\* Mutant: the pivot is not put aside.
M_Partition(tab) ==
    IF u - l = 2
    THEN Returned /\ t' = tab /\ st' = <<>> /\ UNCHANGED <<i, j>>
    ELSE /\ t' = tab
         /\ st' = <<tab[i], t'[l + 1]>>
         /\ i' = l + 1 /\ j' = u - 1
         /\ pc' = "up"
         /\ UNCHANGED frames

\* The median of three is in place: it becomes the pivot.
Partition(tab) ==
    IF u - l = 2
    THEN Returned /\ t' = tab /\ st' = <<>> /\ UNCHANGED <<i, j>>
    ELSE /\ t' = Swap(tab, i, u - 1)
         /\ st' = <<tab[i], t'[l + 1]>>
         /\ i' = l + 1 /\ j' = u - 1
         /\ pc' = "up"
         /\ UNCHANGED frames

\* a[i] < a[l]?
Low ==
    /\ pc = "low"
    /\ \E res \in sort_comp(Top(2), Top(1)) :
         IF res THEN Partition(set2(i, l))
         ELSE st' = Append(Below(1), t[u]) /\ pc' = "high" /\ UNCHANGED <<t, frames, i, j>>
    /\ UNCHANGED <<array, order>>

\* a[u] < a[i]?
High ==
    /\ pc = "high"
    /\ \E res \in sort_comp(Top(1), Top(2)) : Partition(IF res THEN set2(i, u) ELSE t)
    /\ UNCHANGED <<array, order>>

\* ++i until a[i] >= P.
Up ==
    /\ pc = "up"
    /\ \E res \in sort_comp(Top(1), Top(2)) :
         CASE res /\ i > u -> pc' = "error" /\ UNCHANGED <<i, j, st>>
           [] res /\ i <= u -> i' = i + 1 /\ st' = Append(Below(1), t[i + 1]) /\ UNCHANGED <<j, pc>>
           [] ~res -> j' = j - 1 /\ st' = Append(st, t[j - 1]) /\ pc' = "down" /\ UNCHANGED i
    /\ UNCHANGED <<array, order, t, frames>>

\* Mutant: the first half always gets the call.
M_Halves ==
    /\ t' = Swap(t, u - 1, i)
    /\ frames' = <<[l |-> l, u |-> i - 1], [l |-> i + 1, u |-> u]>> \o Tail(frames)
    /\ pc' = "while"

\* The pivot goes between the halves; the smaller one is sorted by a call of its
\* own, the larger one by the next turn of this call.
Halves ==
    /\ t' = Swap(t, u - 1, i)
    /\ frames' = (IF i - l < u - i
                  THEN <<[l |-> l, u |-> i - 1], [l |-> i + 1, u |-> u]>>
                  ELSE <<[l |-> i + 1, u |-> u], [l |-> l, u |-> i - 1]>>) \o Tail(frames)
    /\ pc' = "while"

\* --j until a[j] <= P; then a[i] and a[j] change places or the partition ends.
Down ==
    /\ pc = "down"
    /\ \E res \in sort_comp(Top(3), Top(1)) :
         CASE res /\ j < l -> pc' = "error" /\ UNCHANGED <<t, frames, i, j, st>>
           [] res /\ j >= l -> j' = j - 1 /\ st' = Append(Below(1), t[j - 1]) /\ UNCHANGED <<t, frames, i, pc>>
           [] ~res /\ j < i -> Halves /\ st' = <<>> /\ UNCHANGED <<i, j>>
           [] ~res /\ j >= i -> /\ t' = set2(i, j)
                                /\ i' = i + 1 /\ st' = Append(Below(2), t'[i + 1])
                                /\ pc' = "up" /\ UNCHANGED <<j, frames>>
    /\ UNCHANGED <<array, order>>

\* sort: the whole array.
Init ==
    /\ \E q \in Inputs : array \in q.arrays /\ order \in q.orders
    /\ t = [k \in 0 .. n + 1 |-> IF k \in 1 .. n THEN array[k] ELSE Nil]
    /\ frames = <<[l |-> 1, u |-> n]>>
    /\ i = 0 /\ j = 0 /\ st = <<>> /\ pc = "while"

Next == While \/ Ends \/ Low \/ High \/ Up \/ Down
Spec == Init /\ [][Next]_vars

----------------------------------------------------------------------------
(* Properties. *)

\* A strict weak order, which is what the sort asks for.
Valid ==
    /\ order # ANY
    /\ \A a \in Values : <<a, a>> \notin order
    /\ \A a, b, c \in Values :
         /\ (<<a, b>> \in order /\ <<b, c>> \in order => <<a, c>> \in order)
         /\ (<<a, b>> \in order => <<a, c>> \in order \/ <<c, b>> \in order)

\* While the halves are sorted, the parts a partition has separated stay so:
\* elements to be sorted by different calls are in order already.
Separated ==
    pc = "while" =>
        \A f, g \in DOMAIN frames : \A p \in frames[f].l .. frames[f].u, q \in frames[g].l .. frames[g].u :
            f # g /\ p < q => <<t[q], t[p]>> \notin order

\* A valid order function sees elements of the array only and gets no error
\* about itself (the loops on i and j, which have no other bound).
ElementsOnly == pc # "error" /\ \A k \in DOMAIN st : st[k] \in Values

\* Under a valid order a finished sort has no element after one it is less than
\* (auxsort, the remark on a[l..i-1] <= a[i] <= a[i+1..u] at the end of its
\* loop), and no read has left the array on the way.
Sorted ==
    Valid => /\ Separated /\ ElementsOnly
             /\ pc = "done" => \A p, q \in 1 .. n : p < q => <<t[q], t[p]>> \notin order

\* The calls of auxsort nest no deeper than the logarithm of the array's
\* length, for any function (the choice of the smaller half).
ShallowRecursion == Len(frames) > 1 => 2 ^ Len(frames) <= n

\* Whatever the function answers, and wherever it raises an error, the table
\* holds the elements it held, each as often as before, and the recursion
\* stays shallow (set2, auxsort).
Times(v, f) == Cardinality({k \in DOMAIN f : f[k] = v})
NothingLost == ShallowRecursion /\ \A v \in Values : Times(v, t) = Times(v, array)
=============================================================================
