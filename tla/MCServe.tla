------------------------------- MODULE MCServe -------------------------------
(* KernServe for TLC: two clients, one page, and a client of each kind that *)
(* the lifecycle tells apart: answered, rejected, cut short, gone, silent.  *)
EXTENDS KernServe

CONSTANT page

MCPaths == {page}

FewArrivals ==
    {[kind |-> "line", method |-> "GET", target |-> page],
     [kind |-> "line", method |-> "other", target |-> page],
     [kind |-> "fragment", method |-> "GET", target |-> ""],
     [kind |-> "reset", method |-> "", target |-> ""]}

=============================================================================
