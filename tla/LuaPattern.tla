----------------------------- MODULE LuaPattern -----------------------------
(***************************************************************************)
(* Pattern matching of the string library (lstrlib.c): match and its       *)
(* helpers, string.find, string.match, string.gmatch and string.gsub.      *)
(*                                                                         *)
(* subj and pat are sequences of characters; position i of the model is    *)
(* the pointer s + i - 1 of the code, and the position after the last is   *)
(* the terminator NUL.  Reading further is OVERRUN, which the code would   *)
(* do without noticing.  A result has e = NULL (no match), ERR (an error   *)
(* was raised), OVERRUN or the end of the match, and the captures.         *)
(*                                                                         *)
(* LuaMatches says what a pattern matches, from its structure.             *)
(***************************************************************************)
EXTENDS Integers, SequencesExt

CONSTANTS LUA_MAXCAPTURES,
          Queries,      \* sets of calls: records of sets of functions, subjects, patterns, arguments
          Values        \* what replacement functions return

VARIABLES call,     \* what the script calls: function, subject, pattern, arguments
          pc,       \* "call", "loop", "done" or "error"
          src,      \* where gmatch or gsub goes on
          found,    \* the matches delivered so far
          out, n    \* gsub: its buffer and its count
vars == <<call, pc, src, found, out, n>>

NULL == 0
ERR == -1
OVERRUN == -2
CAP_UNFINISHED == -1
CAP_POSITION == -2
L_ESC == "%"

subj == call.subj
pat == call.pat.text

Char(t, i) == IF i \in DOMAIN t THEN t[i] ELSE IF i = Len(t) + 1 THEN "NUL" ELSE "OUT"
S(i) == Char(subj, i)
P(i) == Char(pat, i)
src_end == Len(subj) + 1

Code(c) == CASE c = "NUL" -> 0 [] c = "%" -> 37 [] c = "-" -> 45 [] c = "1" -> 49 [] c = "5" -> 53
             [] c = "9" -> 57 [] c = "]" -> 93 [] c = "^" -> 94 [] c = "a" -> 97 [] c = "b" -> 98
             [] OTHER -> 127
isalpha(c) == c \in {"a", "b"}
isdigit(c) == c \in {"1", "5", "9"}

Res(ms, e) == [ms |-> ms, e |-> e]
None(ms) == Res(ms, NULL)
Raise(ms) == Res(ms, ERR)

----------------------------------------------------------------------------
(* Single characters. *)

\* The position after a class, or ERR for a pattern that ends inside it.
RECURSIVE BracketEnd(_)
BracketEnd(p) ==
    IF P(p) = "NUL" THEN ERR
    ELSE LET q == IF P(p) = L_ESC /\ P(p + 1) # "NUL" THEN p + 2 ELSE p + 1
         IN  IF P(q) = "]" THEN q + 1 ELSE BracketEnd(q)

\* Mutant: an escape at the end of the pattern is skipped over.
M_classend(p) ==
    CASE P(p) = L_ESC -> p + 2
      [] P(p) = "[" -> BracketEnd(p + 1)
      [] OTHER -> p + 1

classend(p) ==
    CASE P(p) = L_ESC -> IF P(p + 1) = "NUL" THEN ERR ELSE p + 2
      [] P(p) = "[" -> BracketEnd(IF P(p + 1) = "^" THEN p + 2 ELSE p + 1)
      [] OTHER -> p + 1

\* The classes the patterns use; a capital letter is the complement.
match_class(c, class) ==
    CASE class = "a" -> isalpha(c)
      [] class = "A" -> ~isalpha(c)
      [] class = "d" -> isdigit(c)
      [] class = "D" -> ~isdigit(c)
      [] class = "z" -> c = "NUL"
      [] OTHER -> class = c

\* Whether c is in the set whose members are at p .. ec - 1.
RECURSIVE InBracket(_, _, _)
InBracket(c, p, ec) ==
    /\ p < ec
    /\ CASE P(p) = L_ESC -> match_class(c, P(p + 1)) \/ InBracket(c, p + 2, ec)
         [] P(p) # L_ESC /\ P(p + 1) = "-" /\ p + 2 < ec ->
              (Code(P(p)) <= Code(c) /\ Code(c) <= Code(P(p + 2))) \/ InBracket(c, p + 3, ec)
         [] OTHER -> P(p) = c \/ InBracket(c, p + 1, ec)
matchbracketclass(c, p, ec) ==
    IF P(p + 1) = "^" THEN ~InBracket(c, p + 2, ec) ELSE InBracket(c, p + 1, ec)

singlematch(c, p, ep) ==
    CASE P(p) = "." -> TRUE
      [] P(p) = L_ESC -> match_class(c, P(p + 1))
      [] P(p) = "[" -> matchbracketclass(c, p, ep - 1)
      [] OTHER -> P(p) = c

----------------------------------------------------------------------------
(* Captures. *)

RECURSIVE match(_, _, _)

\* Mutant: the capture is not undone, nor the limit checked.
M_start_capture(ms, s, p, what) == match(Append(ms, [init |-> s, len |-> what]), s, p)

start_capture(ms, s, p, what) ==
    IF Len(ms) >= LUA_MAXCAPTURES THEN Raise(ms)
    ELSE LET r == match(Append(ms, [init |-> s, len |-> what]), s, p)
         IN  IF r.e = NULL THEN Res(Front(r.ms), NULL) ELSE r

Open(ms) == {l \in DOMAIN ms : ms[l].len = CAP_UNFINISHED}
capture_to_close(ms) == CHOOSE l \in Open(ms) : \A k \in Open(ms) : k <= l

end_capture(ms, s, p) ==
    IF Open(ms) = {} THEN Raise(ms)
    ELSE LET l == capture_to_close(ms)
             r == match([ms EXCEPT ![l].len = s - ms[l].init], s, p)
         IN  IF r.e = NULL THEN Res([r.ms EXCEPT ![l].len = CAP_UNFINISHED], NULL) ELSE r

Digit(c) == CASE c = "1" -> 1 [] c = "5" -> 5 [] c = "9" -> 9
Usable(ms, l) == l <= Len(ms) /\ ms[l].len # CAP_UNFINISHED

\* The end of a copy of capture l at s; a position has a length no string has.
match_capture(ms, s, l) ==
    IF /\ ms[l].len # CAP_POSITION /\ src_end - s >= ms[l].len
       /\ SubSeq(subj, ms[l].init, ms[l].init + ms[l].len - 1) = SubSeq(subj, s, s + ms[l].len - 1)
    THEN s + ms[l].len ELSE NULL

RECURSIVE Balance(_, _, _, _)
Balance(s, b, e, cont) ==
    IF s >= src_end THEN NULL
    ELSE CASE S(s) = e /\ cont = 1 -> s + 1
           [] S(s) = e /\ cont > 1 -> Balance(s + 1, b, e, cont - 1)
           [] S(s) # e /\ S(s) = b -> Balance(s + 1, b, e, cont + 1)
           [] OTHER -> Balance(s + 1, b, e, cont)
matchbalance(s, p) == IF S(s) # P(p) THEN NULL ELSE Balance(s + 1, P(p), P(p + 1), 1)

----------------------------------------------------------------------------
(* Repetitions and match. *)

RECURSIVE MaxTry(_, _, _, _)
MaxTry(ms, s, i, ep) ==
    LET r == match(ms, s + i, ep + 1)
    IN  IF r.e # NULL \/ i = 0 THEN r ELSE MaxTry(r.ms, s, i - 1, ep)

RECURSIVE Run(_, _, _)
Run(s, p, ep) == IF s < src_end /\ singlematch(S(s), p, ep) THEN 1 + Run(s + 1, p, ep) ELSE 0

max_expand(ms, s, p, ep) == MaxTry(ms, s, Run(s, p, ep), ep)

RECURSIVE min_expand(_, _, _, _)
min_expand(ms, s, p, ep) ==
    LET r == match(ms, s, ep + 1)
    IN  CASE r.e # NULL -> r
          [] r.e = NULL /\ s < src_end /\ singlematch(S(s), p, ep) -> min_expand(r.ms, s + 1, p, ep)
          [] OTHER -> None(r.ms)

\* The default case: a class that ends at ep, and what may follow it.
optional(ms, s, r, ep) == IF r.e # NULL THEN r ELSE match(ms, s, ep + 1)
repeated(ms, s, p, ep, m) ==
    CASE P(ep) = "?" -> IF m THEN optional(ms, s, match(ms, s + 1, ep + 1), ep) ELSE match(ms, s, ep + 1)
      [] P(ep) = "*" -> max_expand(ms, s, p, ep)
      [] P(ep) = "+" -> IF m THEN max_expand(ms, s + 1, p, ep) ELSE None(ms)
      [] P(ep) = "-" -> min_expand(ms, s, p, ep)
      [] OTHER -> IF m THEN match(ms, s + 1, ep) ELSE None(ms)
item(ms, s, p, ep) ==
    IF ep = ERR THEN Raise(ms) ELSE repeated(ms, s, p, ep, s < src_end /\ singlematch(S(s), p, ep))

\* A frontier: the set at p ends at ep.
frontier(ms, s, p, ep) ==
    IF P(p) # "[" \/ ep = ERR THEN Raise(ms)
    ELSE IF \/ matchbracketclass(IF s = 1 THEN "NUL" ELSE S(s - 1), p, ep - 1)
            \/ ~matchbracketclass(S(s), p, ep - 1)
    THEN None(ms) ELSE match(ms, s, ep)

\* match goes on at p with a new position, if there is one.
Then(ms, s, p) == IF s = NULL THEN None(ms) ELSE match(ms, s, p)

match(ms, s, p) ==
    CASE P(p) = "(" ->
            IF P(p + 1) = ")" THEN start_capture(ms, s, p + 2, CAP_POSITION)
            ELSE start_capture(ms, s, p + 1, CAP_UNFINISHED)
      [] P(p) = ")" -> end_capture(ms, s, p + 1)
      [] P(p) = L_ESC /\ P(p + 1) = "b" ->
            IF P(p + 2) = "NUL" \/ P(p + 3) = "NUL" THEN Raise(ms)
            ELSE Then(ms, matchbalance(s, p + 2), p + 4)
      [] P(p) = L_ESC /\ P(p + 1) = "f" ->
            frontier(ms, s, p + 2, classend(p + 2))
      [] P(p) = L_ESC /\ isdigit(P(p + 1)) ->
            LET l == Digit(P(p + 1))
            IN  IF Usable(ms, l) THEN Then(ms, match_capture(ms, s, l), p + 2) ELSE Raise(ms)
      [] P(p) = "NUL" -> Res(ms, s)
      [] P(p) = "OUT" -> Res(ms, OVERRUN)
      [] P(p) = "$" /\ P(p + 1) = "NUL" -> IF s = src_end THEN Res(ms, s) ELSE None(ms)
      [] OTHER -> item(ms, s, p, classend(p))

----------------------------------------------------------------------------
(* The library functions. *)

\* push_onecapture: a position, a text, or what is an error to ask for.
OpenCapture == <<"open">>
Capture(c) ==
    CASE c.len = CAP_POSITION -> <<"pos", c.init>>
      [] c.len = CAP_UNFINISHED -> OpenCapture
      [] OTHER -> <<"text", SubSeq(subj, c.init, c.init + c.len - 1)>>

\* push_captures: the captures, or the whole match when there are none.
\* string.find, which returns the two ends, leaves the whole match out.
Whole(s, e) == <<"text", SubSeq(subj, s, e - 1)>>
push_captures(ms, s, e) == IF ms = <<>> THEN <<Whole(s, e)>> ELSE [l \in DOMAIN ms |-> Capture(ms[l])]
Hit(ms, s, e) == [s |-> s, e |-> e, caps |-> push_captures(ms, s, e)]

posrelat(pos) == IF pos >= 0 THEN pos ELSE IF -pos > Len(subj) THEN 0 ELSE Len(subj) + 1 + pos
Start(pos) == LET init == posrelat(pos) - 1
              IN  IF init < 0 THEN 0 ELSE IF init > Len(subj) THEN Len(subj) ELSE init

anchored == P(1) = "^"
noSpecials == ToSet(pat) \intersect {"^", "$", "*", "+", "?", ".", "(", "[", "%", "-"} = {}

\* The first position from s on at which the plain text is, or NULL.
lmemfind(s) ==
    LET at == {i \in s .. src_end - Len(pat) : SubSeq(subj, i, i + Len(pat) - 1) = pat}
    IN  IF at = {} THEN NULL ELSE CHOOSE i \in at : \A j \in at : i <= j

RECURSIVE Search(_, _)
Searched(r, s, p) ==
    IF r.e = NULL /\ s < src_end /\ p = 1 THEN Search(s + 1, p) ELSE [s |-> s, e |-> r.e, ms |-> r.ms]
Search(s, p) == Searched(match(<<>>, s, p), s, p)

\* find, match and gmatch push all captures: an error of the pattern, or a
\* capture that is still open at the end.
Failed(r) == r.e < 0 \/ (r.e > 0 /\ Open(r.ms) # {})
Failing(r) == pc' = IF r.e = OVERRUN THEN "overrun" ELSE "error"

\* How a call ends: with these matches, or with an error of the pattern.
Deliver(r) ==
    IF Failed(r) THEN Failing(r) /\ UNCHANGED found
    ELSE pc' = "done" /\ found' = IF r.e = NULL THEN found ELSE Append(found, Hit(r.ms, r.s, r.e))

str_find_aux ==
    /\ pc = "call" /\ call.fn \in {"find", "match", "plain"}
    /\ LET s == Start(call.init) + 1
           at == lmemfind(s)
       IN  IF call.fn = "plain" \/ (call.fn = "find" /\ noSpecials)
           THEN /\ pc' = "done"
                /\ found' = IF at = NULL THEN <<>> ELSE <<Hit(<<>>, at, at + Len(pat))>>
           ELSE Deliver(Search(s, IF anchored THEN 2 ELSE 1))
    /\ UNCHANGED <<call, src, out, n>>

\* One call of the iterator: the next match, and where to go on after it.
Iterate(r) ==
    CASE r.e = NULL -> pc' = "done" /\ UNCHANGED <<src, found>>
      [] Failed(r) -> Failing(r) /\ UNCHANGED <<src, found>>
      [] OTHER -> /\ found' = Append(found, Hit(r.ms, r.s, r.e))
                  /\ src' = IF r.e = r.s THEN r.e + 1 ELSE r.e
                  /\ UNCHANGED pc
gmatch_aux ==
    /\ pc = "loop" /\ call.fn = "gmatch"
    /\ Iterate(IF src <= src_end THEN Search(src, 1) ELSE [s |-> src, e |-> NULL, ms |-> <<>>])
    /\ UNCHANGED <<call, out, n>>

gmatch ==
    /\ pc = "call" /\ call.fn = "gmatch"
    /\ pc' = "loop"
    /\ UNCHANGED <<call, src, found, out, n>>

\* add_s: the replacement text, a sequence of characters and of captures, whose
\* numbers stand for the whole match (0) or a capture; "bad" is an error.  Only a
\* capture that is named is looked at.
Text(c) == CASE c[1] = "pos" -> <<"#">> [] c = OpenCapture -> <<"bad">> [] OTHER -> c[2]
Named(h, c) ==
    CASE c = 0 -> Text(Whole(h.s, h.e))
      [] c > 0 /\ c <= Len(h.caps) -> Text(h.caps[c])
      [] OTHER -> <<"bad">>
add_s(h) ==
    FlattenSeq([k \in DOMAIN call.repl |->
        IF call.repl[k][1] = "capture" THEN Named(h, call.repl[k][2]) ELSE <<call.repl[k][2]>>])

FUN == <<<<"function">>>>
TAB == <<<<"table">>>>

\* What a replacement function is called with, or a table indexed with.
Given(h) == IF call.repl = FUN THEN ToSet(h.caps) ELSE {h.caps[1]}

\* add_value: what a replacement function or table may give for a match; nil and
\* false keep the text, other values are refused.
add_value(h, v) ==
    CASE call.repl \notin {FUN, TAB} -> add_s(h)
      [] call.repl \in {FUN, TAB} /\ OpenCapture \notin Given(h) /\ v = "keep" -> Text(Whole(h.s, h.e))
      [] call.repl \in {FUN, TAB} /\ OpenCapture \notin Given(h) /\ v = "text" -> <<"x">>
      [] OTHER -> <<"bad">>

str_gsub ==
    /\ pc = "call" /\ call.fn = "gsub"
    /\ pc' = "loop"
    /\ UNCHANGED <<call, src, found, out, n>>

\* src is copied up to where the next round begins, or to the end.
Copy(from, to) == SubSeq(subj, from, to - 1)

\* Where a round goes on after a match that ended at e, or after none.
Onward(e) == IF e > src THEN e ELSE IF src < src_end THEN src + 1 ELSE src

\* Mutant: the text between two matches is dropped.
M_Replace(r, add) ==
    /\ found' = IF r.e > 0 THEN Append(found, Hit(r.ms, src, r.e)) ELSE found
    /\ n' = IF r.e > 0 THEN n + 1 ELSE n
    /\ src' = Onward(r.e)
    /\ out' = out \o add
    /\ pc' = IF "bad" \in ToSet(add) THEN "error"
             ELSE IF anchored \/ Onward(r.e) = src THEN "tail" ELSE "loop"

Replace(r, add) ==
    /\ found' = IF r.e > 0 THEN Append(found, Hit(r.ms, src, r.e)) ELSE found
    /\ n' = IF r.e > 0 THEN n + 1 ELSE n
    /\ src' = Onward(r.e)
    /\ out' = out \o add \o (IF r.e > src THEN <<>> ELSE Copy(src, Onward(r.e)))
    /\ pc' = IF "bad" \in ToSet(add) THEN "error"
             ELSE IF anchored \/ Onward(r.e) = src THEN "tail" ELSE "loop"

\* One turn of the loop of str_gsub, after the attempt to match.  A capture that is
\* still open is an error only if add_value looks at it.
Round(r) ==
    IF r.e < 0 THEN Failing(r) /\ UNCHANGED <<src, found, out, n>>
    ELSE \E v \in Values : Replace(r, IF r.e > 0 THEN add_value(Hit(r.ms, src, r.e), v) ELSE <<>>)
GsubRound ==
    /\ pc = "loop" /\ call.fn = "gsub" /\ n < call.max
    /\ Round(match(<<>>, src, IF anchored THEN 2 ELSE 1))
    /\ UNCHANGED call

GsubEnds ==
    /\ call.fn = "gsub" /\ (pc = "tail" \/ (pc = "loop" /\ n >= call.max))
    /\ out' = out \o Copy(src, src_end)
    /\ pc' = "done"
    /\ UNCHANGED <<call, src, found, n>>

Init ==
    /\ \E q \in Queries : \E f \in q.fn, s \in q.subj, p \in q.pat, i \in q.init, r \in q.repl, m \in q.max :
            call = [fn |-> f, subj |-> s, pat |-> p, init |-> i, repl |-> r, max |-> m]
    /\ pc = "call" /\ src = 1 /\ found = <<>> /\ out = <<>> /\ n = 0

Next == str_find_aux \/ gmatch \/ gmatch_aux \/ str_gsub \/ GsubRound \/ GsubEnds
Spec == Init /\ [][Next]_vars

----------------------------------------------------------------------------
(* Properties. *)

Lang == INSTANCE LuaMatches

Anchor == call.fn # "plain" /\ Lang!Anchored(call.pat.items)
Itself(c) == [k |-> "one", set |-> {c}, rep |-> ""]
\* In a plain search every character stands for itself; gmatch knows no anchor.
Items == IF call.fn = "plain" THEN [k \in DOMAIN pat |-> Itself(pat[k])] ELSE
         (IF Anchor /\ call.fn = "gmatch" THEN <<Itself("^")>> ELSE <<>>)
         \o Lang!Body(call.pat.items)
WellFormed == \A k \in DOMAIN call.pat.items : call.pat.items[k].k # "malformed"
Expected(s) == Lang!First(Items, subj, s)

\* The first of the positions at which there is a match, and the match there.
FirstOf(m) ==
    LET at == {i \in DOMAIN m : m[i] # <<>>}
    IN  {[s |-> i, e |-> m[i][1].e, caps |-> m[i][1].caps] : i \in {i \in at : \A j \in at : i <= j}}
Begin == Start(call.init) + 1

\* string.find and string.match give the first match there is from where they
\* begin, and of the matches there the one the repetitions prefer, with its
\* captures (match, max_expand, min_expand, start_capture, end_capture); with the
\* plain option they look for the pattern's own text.
FindsTheFirst ==
    pc = "done" /\ WellFormed /\ call.fn \in {"find", "match", "plain"} =>
        ToSet(found) = FirstOf([i \in Begin .. (IF Anchor THEN Begin ELSE src_end) |-> Expected(i)])

Visited(all) ==
    /\ IsPrefix(found, all)
    /\ (pc = "done" => Len(found) = IF call.fn = "gmatch" \/ Len(all) <= call.max THEN Len(all) ELSE call.max)

\* gmatch and gsub go through the matches of the subject from left to right
\* without overlaps and without missing or repeating one, empty ones included;
\* and what gsub does not replace it keeps: with the matches put back the
\* subject is as it was (gmatch_aux, str_gsub, add_value).
GoesThroughAll ==
    /\ (WellFormed /\ call.fn \in {"gmatch", "gsub"} =>
            Visited(Lang!All(Items, subj, 1, Anchor /\ call.fn = "gsub")))
    /\ (pc = "done" /\ call.fn = "gsub" /\ call.repl = <<<<"capture", 0>>>> => out = subj)

\* The replacement of gsub can be refused: a function or a table may give a wrong
\* value, a text may name a capture that the pattern does not have.
MayBeRefused ==
    \/ call.repl \in {FUN, TAB}
    \/ \E k \in DOMAIN call.repl : /\ call.repl[k][1] = "capture"
                                   /\ call.repl[k][2] > Max({1, Lang!Captures(Items)})

\* No pattern, however malformed, makes the matcher read past its terminator or
\* past that of the subject, and a well-formed pattern raises no error of its own
\* (classend, matchbracketclass, matchbalance, end_capture, push_onecapture).
StaysInside ==
    /\ pc # "overrun"
    /\ \A k \in DOMAIN found : found[k].e <= src_end
    /\ src <= src_end + 1
    /\ (WellFormed /\ pc = "error" => call.fn = "gsub" /\ MayBeRefused)
============================================================================
