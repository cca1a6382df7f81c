------------------------------ MODULE KsListener ------------------------------
(***************************************************************************)
(* The life of the kernel module and of its listen thread (kern-serve.c):  *)
(* ks_init and ks_exit run in the insmod/rmmod process, listen_loop runs   *)
(* in a kernel thread, and clients fill the accept queue of the listening  *)
(* socket.  What is done with an accepted connection is KsHandler's; here  *)
(* the thread just stays at "serve" until the handler returns.             *)
(*                                                                         *)
(* Sockets are kernel objects the module owns: socks is the set of those   *)
(* that exist, ks_sock and conn_from_client are the two C pointers to them.*)
(***************************************************************************)
EXTENDS Naturals, Sequences

CONSTANTS
    Conns,       \* client connections; each is made at most once
    NULL,        \* the null pointer
    LISTENER,    \* the socket object ks_init creates
    Backlog      \* pending connections kernel_listen is asked to keep

ASSUME ListenerAssumption ==
    /\ Backlog \in Nat
    /\ NULL \notin Conns \cup {LISTENER}
    /\ LISTENER \notin Conns

VARIABLES
    loader,            \* where the insmod/rmmod process is
    thread,            \* where listen_loop is
    listen_thread,     \* what kthread_run returned
    should_stop,       \* kthread_stop was called on the thread
    ks_sock,
    conn_from_client,
    socks,             \* socket objects the module has and has not released
    backlog,           \* accept queue of the listening socket
    client,            \* the life of each connection
    late               \* history: connections accepted after kthread_stop

lvars == <<loader, thread, listen_thread, should_stop, ks_sock,
           conn_from_client, socks, backlog, client, late>>

LoaderStates == {"absent", "created", "bound", "listening", "loaded",
                 "stopping", "stopped"}
ThreadStates == {"none", "check", "accept", "serve", "exited"}

\* The static pointers of a module that is not loaded: no socket, no thread.
Init ==
    /\ loader = "absent"
    /\ thread = "none"
    /\ listen_thread = "null"
    /\ should_stop = FALSE
    /\ ks_sock = NULL
    /\ conn_from_client = NULL
    /\ socks = {}
    /\ backlog = <<>>
    /\ client = [c \in Conns |-> "idle"]
    /\ late = 0

-----------------------------------------------------------------------------
(* ks_init, ks_exit and close_socket: the insmod/rmmod process.            *)

\* Releasing the listening socket resets the connections nobody accepted.
close_socket ==
    /\ socks' = socks \ {ks_sock}
    /\ ks_sock' = NULL
    /\ backlog' = <<>>
    /\ client' = [c \in Conns |-> IF client[c] = "queued" THEN "reset"
                                                          ELSE client[c]]

\* insmod: the statics start zeroed and sock_create_kern succeeds or fails.
SockCreate ==
    /\ loader = "absent"
    /\ listen_thread' = "null"
    /\ conn_from_client' = NULL
    /\ \/ /\ ks_sock' = LISTENER
          /\ socks' = socks \cup {LISTENER}
          /\ loader' = "created"
       \/ /\ ks_sock' = NULL
          /\ UNCHANGED <<socks, loader>>
    /\ UNCHANGED <<thread, should_stop, backlog, client, late>>

Bind ==
    /\ loader = "created"
    /\ \/ /\ loader' = "bound"
          /\ UNCHANGED <<ks_sock, socks, backlog, client>>
       \/ /\ loader' = "absent"
          /\ close_socket
    /\ UNCHANGED <<thread, listen_thread, should_stop, conn_from_client, late>>

Listen ==
    /\ loader = "bound"
    /\ \/ /\ loader' = "listening"
          /\ UNCHANGED <<ks_sock, socks, backlog, client>>
       \/ /\ loader' = "absent"
          /\ close_socket
    /\ UNCHANGED <<thread, listen_thread, should_stop, conn_from_client, late>>

\* kthread_run: a new thread at the top of listen_loop, or an error pointer.
SpawnThread ==
    /\ loader = "listening"
    /\ loader' = "loaded"
    /\ thread' = "check"
    /\ listen_thread' = "task"
    /\ should_stop' = FALSE
    /\ late' = 0
    /\ UNCHANGED <<ks_sock, conn_from_client, socks, backlog, client>>

\* Mutant: the error path of phase4.c:376, which forgot the socket.
SpawnFailsLeaking ==
    /\ loader = "listening"
    /\ loader' = "absent"
    /\ listen_thread' = "err"
    /\ UNCHANGED <<thread, should_stop, ks_sock, conn_from_client, socks,
                   backlog, client, late>>

SpawnFails ==
    /\ loader = "listening"
    /\ loader' = "absent"
    /\ listen_thread' = "err"
    /\ close_socket
    /\ UNCHANGED <<thread, should_stop, conn_from_client, late>>

\* Mutant: rmmod takes the connection away to get the thread out of it.
StopThreadDropsConnection ==
    /\ loader = "loaded"
    /\ listen_thread = "task"
    /\ should_stop' = TRUE
    /\ loader' = "stopping"
    /\ socks' = socks \ {conn_from_client}
    /\ UNCHANGED <<thread, listen_thread, ks_sock, conn_from_client, backlog,
                   client, late>>

\* rmmod: kthread_stop sets the flag, wakes the thread and waits for it.
StopThread ==
    /\ loader = "loaded"
    /\ listen_thread = "task"
    /\ should_stop' = TRUE
    /\ loader' = "stopping"
    /\ UNCHANGED <<thread, listen_thread, ks_sock, conn_from_client, socks,
                   backlog, client, late>>

\* Mutant: ks_exit does not wait for the thread to end.
ThreadJoinedEarly ==
    /\ loader = "stopping"
    /\ thread' = thread
    /\ listen_thread' = "null"
    /\ loader' = "stopped"
    /\ UNCHANGED <<should_stop, ks_sock, conn_from_client, socks, backlog,
                   client, late>>

\* kthread_stop returns once the thread function has returned.
ThreadJoined ==
    /\ loader = "stopping"
    /\ thread = "exited"
    /\ thread' = "none"
    /\ listen_thread' = "null"
    /\ loader' = "stopped"
    /\ UNCHANGED <<should_stop, ks_sock, conn_from_client, socks, backlog,
                   client, late>>

\* The rest of ks_exit: the listening socket goes after the thread.
ReleaseListener ==
    /\ loader = "stopped"
    /\ close_socket
    /\ loader' = "absent"
    /\ UNCHANGED <<thread, listen_thread, should_stop, conn_from_client, late>>

-----------------------------------------------------------------------------
(* listen_loop                                                             *)

\* while (!kthread_should_stop()) { conn_from_client = NULL; ... }
Check ==
    /\ thread = "check"
    /\ IF should_stop
       THEN /\ thread' = "exited"
            /\ UNCHANGED conn_from_client
       ELSE /\ thread' = "accept"
            /\ conn_from_client' = NULL
    /\ UNCHANGED <<loader, listen_thread, should_stop, ks_sock, socks,
                   backlog, client, late>>

\* Mutant: the new socket is stored through the wrong pointer.
AcceptIntoListener ==
    /\ thread = "accept"
    /\ backlog # <<>>
    /\ ks_sock' = Head(backlog)
    /\ socks' = socks \cup {Head(backlog)}
    /\ client' = [client EXCEPT ![Head(backlog)] = "accepted"]
    /\ backlog' = Tail(backlog)
    /\ thread' = "serve"
    /\ UNCHANGED <<loader, listen_thread, should_stop, conn_from_client, late>>

\* kernel_accept hands over the oldest pending connection.  It looks at the
\* queue before it looks at signals, so a stop request does not prevent it.
Accept ==
    /\ thread = "accept"
    /\ backlog # <<>>
    /\ LET c == Head(backlog) IN
         /\ conn_from_client' = c
         /\ socks' = socks \cup {c}
         /\ client' = [client EXCEPT ![c] = "accepted"]
    /\ backlog' = Tail(backlog)
    /\ late' = IF should_stop THEN late + 1 ELSE late
    /\ thread' = "serve"
    /\ UNCHANGED <<loader, listen_thread, should_stop, ks_sock>>

\* Mutant: kernel_accept is called again without the stop test.
AcceptInterruptedRetries ==
    /\ thread = "accept"
    /\ backlog = <<>>
    /\ should_stop
    /\ UNCHANGED lvars

\* -ERESTARTSYS: kthread_stop's wake-up, seen with an empty queue.
AcceptInterrupted ==
    /\ thread = "accept"
    /\ backlog = <<>>
    /\ should_stop
    /\ thread' = "check"
    /\ UNCHANGED <<loader, listen_thread, should_stop, ks_sock,
                   conn_from_client, socks, backlog, client, late>>

\* Mutant: the error path loses the connection at the head of the queue.
AcceptFailsDropping ==
    /\ thread = "accept"
    /\ thread' = "check"
    /\ backlog' = IF backlog = <<>> THEN backlog ELSE Tail(backlog)
    /\ UNCHANGED <<loader, listen_thread, should_stop, ks_sock,
                   conn_from_client, socks, client, late>>

\* Any other error: kernel_accept could not allocate the new socket.
AcceptFails ==
    /\ thread = "accept"
    /\ thread' = "check"
    /\ UNCHANGED <<loader, listen_thread, should_stop, ks_sock,
                   conn_from_client, socks, backlog, client, late>>

\* Mutant: the loop goes on to the next connection without the stop test.
ReleaseWithoutCheck ==
    /\ thread = "serve"
    /\ socks' = socks \ {conn_from_client}
    /\ client' = [client EXCEPT ![conn_from_client] = "released"]
    /\ conn_from_client' = NULL
    /\ thread' = "accept"
    /\ UNCHANGED <<loader, listen_thread, should_stop, ks_sock, backlog, late>>

\* Mutant: phase5.c:347, where the pointer outlives the socket.
ReleaseDangling ==
    /\ thread = "serve"
    /\ socks' = socks \ {conn_from_client}
    /\ client' = [client EXCEPT ![conn_from_client] = "released"]
    /\ thread' = "check"
    /\ UNCHANGED <<loader, listen_thread, should_stop, ks_sock,
                   conn_from_client, backlog, late>>

\* handle_http_request has returned: sock_release, then the pointer is cleared.
Release ==
    /\ thread = "serve"
    /\ socks' = socks \ {conn_from_client}
    /\ client' = [client EXCEPT ![conn_from_client] = "released"]
    /\ conn_from_client' = NULL
    /\ thread' = "check"
    /\ UNCHANGED <<loader, listen_thread, should_stop, ks_sock, backlog, late>>

-----------------------------------------------------------------------------
(* Clients, and the kernel's accept queue.                                 *)

Connect(c) ==
    /\ client[c] = "idle"
    /\ loader \in {"listening", "loaded", "stopping", "stopped"}
    /\ Len(backlog) < Backlog
    /\ backlog' = Append(backlog, c)
    /\ client' = [client EXCEPT ![c] = "queued"]
    /\ UNCHANGED <<loader, thread, listen_thread, should_stop, ks_sock,
                   conn_from_client, socks, late>>

-----------------------------------------------------------------------------

Loader == SockCreate \/ Bind \/ Listen \/ SpawnThread \/ SpawnFails
          \/ StopThread \/ ThreadJoined \/ ReleaseListener

Thread == Check \/ Accept \/ AcceptInterrupted \/ AcceptFails \/ Release

Next == Loader \/ Thread \/ \E c \in Conns : Connect(c)

Spec == Init /\ [][Next]_lvars

-----------------------------------------------------------------------------
(* Properties                                                              *)

\* Every variable holds a value of its type.
TypeOK ==
    /\ loader \in LoaderStates
    /\ thread \in ThreadStates
    /\ listen_thread \in {"null", "task", "err"}
    /\ should_stop \in BOOLEAN
    /\ ks_sock \in {NULL, LISTENER}
    /\ conn_from_client \in Conns \cup {NULL}
    /\ socks \subseteq Conns \cup {LISTENER}
    /\ backlog \in Seq(Conns)
    /\ client \in [Conns -> {"idle", "queued", "accepted", "released", "reset"}]
    /\ late \in Nat

\* The two pointers are exactly the sockets that exist: none of them dangles,
\* so no sock_release hits a released socket, and none is leaked.
SocketOwnership ==
    socks = {ks_sock, conn_from_client} \ {NULL}

\* "We do the sockets after the thread, since the thread uses the sockets":
\* as long as listen_loop runs, the socket it accepts on is there.
ListenerOutlivesThread ==
    thread \in {"check", "accept", "serve"} =>
        /\ ks_sock = LISTENER
        /\ LISTENER \in socks
        /\ loader \in {"loaded", "stopping"}

\* Whichever way ks_init failed or ks_exit finished, an absent module has no
\* socket, no thread, and no client that still waits for an answer.
UnloadedIsClean ==
    loader = "absent" =>
        /\ socks = {}
        /\ thread = "none"
        /\ \A c \in Conns : client[c] \notin {"queued", "accepted"}

\* The stop request races with kernel_accept, but it lets at most one more
\* connection through however many are queued.
StopLetsOneThrough == late <= 1

=============================================================================
