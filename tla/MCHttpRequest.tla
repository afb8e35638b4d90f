---------------------------- MODULE MCHttpRequest -----------------------------
(* Instances of HttpRequest for TLC.                                        *)
EXTENDS HttpRequest

CONSTANTS o1, o2, o3

MCOut == {o1, o2, o3}

(* One list for every early return of lua_http_request_get, and two whose   *)
(* request is attempted: with a uri and with a NULL one.                    *)
Complete == <<"addr", "str", "str", "str", "str">>
NullUri == <<"addr", "str", "null", "str", "str">>

MCArgLists == {<<"addr", "str">>, <<"str", "str", "str">>, <<"null", "str", "str">>,
               <<"addr", "str", "str">>, <<"addr", "str", "str", "str">>,
               Complete, NullUri}

MCUsableArgs == {Complete, <<"addr", "str", "str">>}

MCFaults == Outcomes
===============================================================================
