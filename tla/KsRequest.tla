------------------------------ MODULE KsRequest ------------------------------
(***************************************************************************)
(* What a client can make one kernel_recvmsg deliver, what strsep makes of *)
(* it, and which file a request target names: the part of kern-serve.c and *)
(* phase5.c that only looks at strings.                                    *)
(***************************************************************************)

CONSTANTS
    NULL,       \* the null pointer
    Paths,      \* file names under SERVE_DIR
    Index       \* SERVE_DIR/index.html

\* The contents of the two strings, as far as the code tells them apart:
\* a target is "/", contains "..", is empty, or names a file.
Methods == {"GET", "other", ""}
Targets == Paths \cup {"/", "..", ""}

ASSUME RequestAssumption ==
    /\ Index \in Paths
    /\ NULL \notin Targets

\* What a connection has to read.  The message may stop anywhere: "line" has
\* both separators, "method" only the first one, "fragment" none; at "eof"
\* the client closed without sending.
Arrival ==
    [kind : {"silent", "line", "method", "fragment", "eof", "reset"},
     method : Methods, target : Targets]

Silent == [kind |-> "silent", method |-> "", target |-> ""]

\* The first two tokens of buff, NULL for no token.  buff is not initialised
\* and nothing ends the received bytes, so strsep runs on into whatever the
\* block held before when the message has fewer than two separators.
Tokens(a) ==
    CASE a.kind = "line"     -> {[method |-> a.method, target |-> a.target]}
      [] a.kind = "method"   -> [method : {a.method}, target : Targets]
      [] a.kind = "fragment" -> [method : Methods \ {""},
                                 target : Targets \cup {NULL}]
      [] OTHER               -> [method : Methods, target : Targets \cup {NULL}]

\* "/" is the index page, and so is every target with ".." in it.
PathOf(t) == IF t \in {"/", ".."} THEN Index ELSE t

\* How filp_open and kernel_read may find a path.
DiskStates == {"file", "missing", "denied", "directory"}

=============================================================================
