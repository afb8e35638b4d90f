---------------------------- MODULE MCHttpHandler -----------------------------
(* Instances of HttpHandler for TLC.                                        *)
EXTENDS HttpHandler

R(kinds) == [error |-> FALSE, kinds |-> kinds]

(* No value, one, two and three; true, false and nil first; text, a format  *)
(* and a table second; an error.                                            *)
MCResults == {NoResult, R(<<>>), R(<<"true">>), R(<<"true", "text">>),
              R(<<"false", "text">>), R(<<"nil", "text">>), R(<<"true", "format">>),
              R(<<"true", "table">>), R(<<"true", "text", "text">>)}

E(entry, required, field) ==
  [module |-> "named", func |-> "named", entry |-> entry, required |-> required,
   field |-> field, global |-> "function"]

MCLookups == {E("table", "nil", "function"), E("nil", "true", "nil"),
              E("nil", "error", "nil"), E("table", "nil", "nil")}

OneResult == {R(<<"true", "text">>)}
===============================================================================
