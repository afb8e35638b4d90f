------------------------------- MODULE MCHttpd --------------------------------
(* Instance of Httpd for TLC.                                               *)
EXTENDS Httpd

CONSTANTS o1, o2

MCOut == {o1, o2}

Complete == <<"addr", "str", "str", "str", "str">>

MCArgLists == {Complete, <<"addr", "str", "str">>}

MCFaults == {"copy", "connect", "sync", "async"}

R(kinds) == [error |-> FALSE, kinds |-> kinds]

MCResults == {[error |-> TRUE, kinds |-> <<>>], R(<<"true", "text">>),
              R(<<"false", "text">>), R(<<"true", "table">>)}

E(entry, required, field) ==
  [module |-> "named", func |-> "named", entry |-> entry, required |-> required,
   field |-> field, global |-> "function"]

MCLookups == {E("table", "nil", "function"), E("nil", "error", "nil")}

GoodResult == {R(<<"true", "text">>)}
===============================================================================
