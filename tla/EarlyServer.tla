------------------------------ MODULE EarlyServer ------------------------------
(***************************************************************************)
(* What phase4.c, phase4.5.c and phase5.c have in common, as phase4.5.c    *)
(* writes it.  Their processes and their loop are KsListener's but for two *)
(* places that matter to the ownership of sockets: the loop releases       *)
(* conn_from_client without clearing it, and ks_exit releases it too.  The *)
(* loop calls handle_http_request and then handle_http_response, whatever  *)
(* the first returned, and request_target lives from one connection to the *)
(* next.                                                                   *)
(*                                                                         *)
(* heap holds the transient blocks, named by their variables, and one      *)
(* block per connection whose message had a second token: the string       *)
(* request_target was set to.                                              *)
(***************************************************************************)
EXTENDS Naturals, Sequences, KsRequest

CONSTANTS Conns, LISTENER, Backlog, Arrivals

ASSUME EarlyAssumption ==
    /\ Arrivals \subseteq Arrival
    /\ Backlog \in Nat
    /\ NULL \notin Conns \cup {LISTENER}
    /\ LISTENER \notin Conns

VARIABLES
    conn_from_client,
    loader, thread, listen_thread, should_stop, ks_sock, socks, backlog,
    client, late,
    handler,            \* where the thread is in the two handlers
    rx, heap,
    request_target,     \* NULL, or the connection whose block it points at
    target,             \* the string it points at
    reply,              \* history: what this connection was sent
    fault               \* the first thing that broke the kernel, "none" before

listener == <<conn_from_client, loader, thread, listen_thread, should_stop,
              ks_sock, socks, backlog, client, late>>

work == <<handler, rx, heap, request_target, target, reply, fault>>

L == INSTANCE KsListener

Buffers == {"message", "vec", "buff"}

\* What a connection was sent: phase5.c sends a header and a body.
Replies == [status : {0, 200, 404}, path : Paths \cup {NULL},
            sent : {"nothing", "header", "part", "whole"}]

NoReply == [status |-> 0, path |-> NULL, sent |-> "nothing"]

ServerInit ==
    /\ L!Init
    /\ handler = "idle"
    /\ rx = [c \in Conns |-> Silent]
    /\ heap = {}
    /\ request_target = NULL
    /\ target = NULL
    /\ reply = NoReply
    /\ fault = "none"

\* kfree of each of blocks where held is what is allocated; kfree(NULL) is a
\* no-op, and of anything else that is not held it breaks the allocator.
Free(blocks, held) ==
    /\ heap' = held \ blocks
    /\ fault' = IF blocks \ {NULL} \subseteq held THEN fault ELSE "bad free"

-----------------------------------------------------------------------------
(* ks_init and ks_exit                                                     *)

\* A fresh module: its static pointers are null again.
Insmod ==
    /\ L!SockCreate
    /\ request_target' = NULL
    /\ UNCHANGED <<handler, rx, heap, target, reply, fault>>

Load ==
    /\ L!Bind \/ L!Listen \/ L!SpawnThread \/ L!SpawnFails
    /\ UNCHANGED work

StopThread ==
    /\ L!StopThread \/ L!ThreadJoined
    /\ UNCHANGED work

\* After the thread: both sockets, and the string if the version frees it.
ExitReleases(string) ==
    /\ loader = "stopped"
    /\ loader' = "absent"
    /\ ks_sock' = NULL
    /\ conn_from_client' = NULL
    /\ socks' = socks \ {ks_sock, conn_from_client}
    /\ backlog' = <<>>
    /\ client' = [c \in Conns |-> IF client[c] = "queued" THEN "reset"
                                                          ELSE client[c]]
    /\ heap' = heap \ {string}
    /\ fault' = IF conn_from_client \notin socks \cup {NULL}
                THEN "double release"
                ELSE IF string \notin heap \cup {NULL} THEN "bad free"
                ELSE "none"
    /\ UNCHANGED <<thread, listen_thread, should_stop, late, handler, rx,
                   request_target, target, reply>>

-----------------------------------------------------------------------------
(* listen_loop                                                             *)

Loop == (L!Check \/ L!AcceptInterrupted) /\ UNCHANGED work

AcceptError == L!AcceptFails /\ UNCHANGED work

Accept ==
    /\ L!Accept
    /\ handler' = "request"
    /\ reply' = NoReply
    /\ UNCHANGED <<rx, heap, request_target, target, fault>>

\* Mutant: sock_release is forgotten.
ReleaseForgotten ==
    /\ handler = "return"
    /\ handler' = "idle"
    /\ thread' = "check"
    /\ client' = [client EXCEPT ![conn_from_client] = "released"]
    /\ UNCHANGED <<conn_from_client, socks, loader, listen_thread, should_stop,
                   ks_sock, backlog, late, rx, heap, request_target, target,
                   reply, fault>>

\* Mutant: the loop goes on to the next connection without the stop test.
ReleaseWithoutCheck ==
    /\ handler = "return"
    /\ handler' = "idle"
    /\ thread' = "accept"
    /\ socks' = socks \ {conn_from_client}
    /\ client' = [client EXCEPT ![conn_from_client] = "released"]
    /\ UNCHANGED <<conn_from_client, loader, listen_thread, should_stop,
                   ks_sock, backlog, late, rx, heap, request_target, target,
                   reply, fault>>

\* sock_release, and back to the top of the loop with the pointer as it was.
Release ==
    /\ handler = "return"
    /\ handler' = "idle"
    /\ thread' = "check"
    /\ socks' = socks \ {conn_from_client}
    /\ client' = [client EXCEPT ![conn_from_client] = "released"]
    /\ UNCHANGED <<conn_from_client, loader, listen_thread, should_stop,
                   ks_sock, backlog, late, rx, heap, request_target, target,
                   reply, fault>>

-----------------------------------------------------------------------------
(* handle_http_request and parse_http_request                              *)

\* Mutant: no return where there is no memory.
RequestAllocGoesOn ==
    /\ handler = "request"
    /\ handler' = "recv"
    /\ \/ heap' = heap \cup Buffers /\ UNCHANGED fault
       \/ \E got \in {{}, {"message"}, {"message", "vec"}} :
             Free(got \cup {NULL}, heap \cup got)
    /\ UNCHANGED <<listener, rx, request_target, target, reply>>

\* Out of memory here, and the response is built all the same.
RequestAlloc ==
    /\ handler = "request"
    /\ \/ /\ heap' = heap \cup Buffers
          /\ handler' = "recv"
          /\ UNCHANGED fault
       \/ /\ \E got \in {{}, {"message"}, {"message", "vec"}} :
                Free(got \cup {NULL}, heap \cup got)
          /\ handler' = "respond"
    /\ UNCHANGED <<listener, rx, request_target, target, reply>>

\* parse_http_request returns to nobody who cares: what it leaves behind is
\* request_target.  Its two kmallocs are not checked before the strcpy, and
\* without a second token strlen reads whatever request_target points at.
Parse(token) ==
    \/ /\ token.target # NULL
       /\ request_target' = conn_from_client
       /\ target' = token.target
       /\ Free(Buffers, heap \cup {conn_from_client})
    \/ /\ token.target = NULL
       /\ token.method = "" \/ request_target # NULL
       /\ Free(Buffers, heap)
       /\ UNCHANGED <<request_target, target>>
    \/ /\ fault' = "null dereference"
       /\ UNCHANGED <<heap, request_target, target>>

\* kernel_recvmsg is called again and again while the client is silent.  What
\* it delivers at last is parsed, and the three buffers are freed.
Recv ==
    /\ handler = "recv"
    /\ rx[conn_from_client].kind \notin {"silent", "reset"}
    /\ \E token \in Tokens(rx[conn_from_client]) : Parse(token)
    /\ handler' = "respond"
    /\ UNCHANGED <<listener, rx, reply>>

\* Mutant: the error path frees two of the three.
RecvFailsLeaking ==
    /\ handler = "recv"
    /\ rx[conn_from_client].kind = "reset"
    /\ Free({"vec", "message"}, heap)
    /\ handler' = "respond"
    /\ UNCHANGED <<listener, rx, request_target, target, reply>>

RecvFails ==
    /\ handler = "recv"
    /\ rx[conn_from_client].kind = "reset"
    /\ Free(Buffers, heap)
    /\ handler' = "respond"
    /\ UNCHANGED <<listener, rx, request_target, target, reply>>

-----------------------------------------------------------------------------
(* Clients                                                                 *)

Connect(c) == L!Connect(c) /\ UNCHANGED work

Transmit(c, a) ==
    /\ client[c] \in {"queued", "accepted"}
    /\ rx[c] = Silent
    /\ rx' = [rx EXCEPT ![c] = a]
    /\ UNCHANGED <<listener, handler, heap, request_target, target, reply,
                   fault>>

-----------------------------------------------------------------------------
(* Properties of every such server                                         *)

\* While a connection is handled its socket exists; between two of them, and
\* once the module is out, no connection's socket does: the loop releases
\* exactly what it accepted, on every return path of the two handlers.
ThreadReleasesWhatItAccepts ==
    fault = "none" =>
        socks \ {LISTENER} = IF thread = "serve" THEN {conn_from_client} ELSE {}

\* Of the blocks a connection allocates only its request target survives it.
OnlyTargetsSurvive ==
    handler \in {"idle", "return"} => heap \subseteq Conns

\* How many steps away from its end the thread is once it was told to stop,
\* not counting the polls of a connection that has nothing to read.
StepsToStop ==
    CASE thread \in {"none", "exited"} -> 0
      [] thread = "check"  -> 1
      [] thread = "accept" -> 11
      [] thread = "serve"  ->
           CASE handler = "idle"               -> 2
             [] handler = "return"             -> 3
             [] handler = "send_body"          -> 4
             [] handler = "send_header"        -> 5
             [] handler \in {"send", "message"} -> 6
             [] handler = "header"             -> 7
             [] handler = "respond"            -> 8
             [] handler = "recv"               -> 9
             [] handler = "request"            -> 10

\* While rmmod waits in kthread_stop each step of the thread but a poll brings
\* it nearer to its end and nothing else takes it away from there.
StopComesNearer ==
    [][loader = "stopping" /\ loader' = "stopping" =>
         StepsToStop' < StepsToStop]_<<loader, thread, handler>>

\* The thread polls a connection whose client has not sent anything.
Spinning == handler = "recv" /\ rx[conn_from_client] = Silent

\* rmmod comes to its end unless the thread serves, for ever, a client that
\* never says anything (or the kernel is broken).
StopCompletesOrSpins ==
    [](loader = "stopping" =>
        <>(loader = "absent" \/ fault # "none" \/ []Spinning))

-----------------------------------------------------------------------------
(* What clients see.  Between two connections conn_from_client may dangle. *)

Service == INSTANCE HttpService WITH
    up <- loader \in {"listening", "loaded", "stopping", "stopped"},
    queue <- backlog,
    serving <- IF thread = "serve" THEN conn_from_client ELSE NULL,
    code <- IF handler = "idle" THEN 0 ELSE reply.status,
    stage <- [c \in Conns |->
        CASE client[c] = "idle"     -> "away"
          [] client[c] = "queued"   -> "waiting"
          [] client[c] = "accepted" -> "served"
          [] client[c] = "released" -> "closed"
          [] client[c] = "reset"    -> "turned away"
          [] client[c] = "stranded" -> "stranded"]

\* The accept queue holds exactly the clients that wait, each once, and the
\* connection in the thread's hands is the only one that is.
ClientsInOrder == Service!Orderly

=============================================================================
