------------------------------- MODULE MCPhases -------------------------------
(* Phases for TLC: two clients, so that what the first leaves behind meets *)
(* the second, and one of each kind the early servers tell apart.          *)
EXTENDS Phases

CONSTANTS page

MCPaths == {page}

Line(m) == [kind |-> "line", method |-> m, target |-> page]
Cut(kind) == [kind |-> kind, method |-> "GET", target |-> ""]

MCArrivals == {Line("GET"), Line("other"), Cut("fragment"), Cut("reset")}

=============================================================================
