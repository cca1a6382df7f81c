------------------------------- MODULE MCPhase5 -------------------------------
(* Phase5 for TLC: two clients, so that what the first leaves behind meets  *)
(* the second.                                                             *)
EXTENDS Phase5

CONSTANTS index, page

MCPaths == {index, page}

Line(m, t) == [kind |-> "line", method |-> m, target |-> t]
Cut(kind) == [kind |-> kind, method |-> "GET", target |-> ""]

MCArrivals ==
    {Line("GET", page), Line("GET", ".."), Line("other", page),
     Cut("fragment"), Cut("reset")}

=============================================================================
