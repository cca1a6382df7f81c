------------------------------- MODULE MCHandler -------------------------------
(* KsHandler for TLC.  Clients send one request line of each kind the code *)
(* tells apart, or stop short of one in each place they can.               *)
EXTENDS KsHandler

CONSTANTS index, page

MCPaths == {index, page}

Line(m, t) == [kind |-> "line", method |-> m, target |-> t]
Cut(kind, m) == [kind |-> kind, method |-> m, target |-> ""]

WholeLines ==
    {Line("GET", t) : t \in Targets} \cup {Line("other", page), Line("", page)}

CutLines ==
    {Cut("method", "GET"), Cut("method", "other"), Cut("fragment", "GET"),
     Cut("eof", ""), Cut("reset", "")}

AllArrivals == WholeLines \cup CutLines

=============================================================================
