-------------------------------- MODULE Phases --------------------------------
(***************************************************************************)
(* The steps the server was built in, phase2.c to phase4.5.c: five kernel  *)
(* modules for one machine, of which a user loads one at a time, in any    *)
(* order and as often as wanted.                                           *)
(*   phase2.c    listens on port 8080, and has no thread                   *)
(*   phase3.c    has a thread that only waits to be stopped                *)
(*   phase3.5.c  accepts connections and closes them                       *)
(*   phase4.c    receives, parses and answers, trusting kmalloc            *)
(*   phase4.5.c  the same, checked                                         *)
(* A listening socket that a version loses stays in the kernel; who        *)
(* connects to it afterwards is not modelled.                              *)
(***************************************************************************)
EXTENDS EarlyServer

ASSUME PhasesAssumption == Buffers \cap Conns = {}

VARIABLES
    version,    \* the file that is, or will be, loaded
    orphan      \* a socket nobody can release any more listens on port 80

vars == <<listener, work, version, orphan>>

Versions == {"phase2", "phase3", "phase3.5", "phase4", "phase4.5"}

Init ==
    /\ ServerInit
    /\ version \in Versions
    /\ orphan = FALSE

Pick(v) ==
    /\ loader = "absent"
    /\ version' = v
    /\ UNCHANGED <<listener, work, orphan>>

-----------------------------------------------------------------------------
(* ks_init                                                                 *)

\* Mutant: sock_set_reuseaddr lets two sockets listen on one port.
PortShared == TRUE

\* Binding to port 80 fails while another socket listens on it.
PortTaken == orphan /\ loader = "created" => loader' = "absent"

\* phase2.c goes as far as kernel_listen.
ks_init2 ==
    /\ version = "phase2"
    /\ Insmod \/ ((L!Bind \/ L!Listen) /\ UNCHANGED work)
    /\ UNCHANGED <<version, orphan>>

\* kthread_run fails and the socket is not released.  With the module gone
\* nobody has a pointer to it, and whoever is in its queue waits for ever.
SpawnLeaks ==
    /\ loader = "listening"
    /\ loader' = "absent"
    /\ listen_thread' = "err"
    /\ ks_sock' = NULL
    /\ socks' = socks \ {LISTENER}
    /\ orphan' = TRUE
    /\ backlog' = <<>>
    /\ client' = [c \in Conns |-> IF client[c] = "queued" THEN "stranded"
                                                          ELSE client[c]]
    /\ UNCHANGED <<thread, should_stop, conn_from_client, late, work, version>>

LoadOrLeak ==
    \/ /\ Insmod \/ ((L!Bind \/ L!Listen \/ L!SpawnThread) /\ UNCHANGED work)
       /\ PortTaken
       /\ UNCHANGED <<version, orphan>>
    \/ SpawnLeaks

ks_init3 == version = "phase3" /\ LoadOrLeak

ks_init35 == version = "phase3.5" /\ LoadOrLeak

ks_init4 == version = "phase4" /\ LoadOrLeak

ks_init45 ==
    /\ version = "phase4.5"
    /\ Insmod \/ Load
    /\ PortTaken
    /\ UNCHANGED <<version, orphan>>

-----------------------------------------------------------------------------
(* ks_exit                                                                 *)

ks_exit2 ==
    /\ version = "phase2"
    /\ loader = "listening"
    /\ loader' = "absent"
    /\ L!close_socket
    /\ UNCHANGED <<thread, listen_thread, should_stop, conn_from_client, late,
                   work>>

StopAndRelease == StopThread \/ (L!ReleaseListener /\ UNCHANGED work)

ks_exit3 == version = "phase3" /\ StopAndRelease

ks_exit35 == version = "phase3.5" /\ StopAndRelease

\* kfree(conn_from_client) comes after the pointer was set to NULL.
ks_exit4 == version = "phase4" /\ (StopThread \/ ExitReleases(NULL))

ks_exit45 ==
    version = "phase4.5" /\ (StopThread \/ ExitReleases(request_target))

-----------------------------------------------------------------------------
(* listen_loop, and handle_http_request of phase4.c                        *)

\* schedule() until the thread is told to stop.
listen_loop3 == version = "phase3" /\ should_stop /\ Loop

\* A connection is released as soon as it is accepted.
listen_loop35 ==
    /\ version = "phase3.5"
    /\ Loop \/ ((L!Accept \/ L!Release) /\ UNCHANGED work)

listen_loop4 == version = "phase4" /\ (Loop \/ Accept \/ Release)

listen_loop45 == version = "phase4.5" /\ (Loop \/ Accept \/ Release)

\* Only buff is looked at before it is used.
RequestAlloc4 ==
    /\ handler = "request"
    /\ \/ /\ heap' = heap \cup Buffers
          /\ handler' = "recv"
          /\ UNCHANGED fault
       \/ /\ Free({"message", "vec", NULL}, heap \cup {"message", "vec"})
          /\ handler' = "respond"
       \/ /\ fault' = "null dereference"
          /\ UNCHANGED <<heap, handler>>
    /\ UNCHANGED <<listener, rx, request_target, target, reply>>

handle_http_request4 ==
    version = "phase4" /\ (RequestAlloc4 \/ Recv \/ RecvFails)

handle_http_request45 ==
    version = "phase4.5" /\ (RequestAlloc \/ Recv \/ RecvFails)

-----------------------------------------------------------------------------
(* handle_http_response: always the same page                              *)

ResponseAlloc4 ==
    /\ version = "phase4"
    /\ handler = "respond"
    /\ \/ /\ heap' = heap \cup {"message", "vec"}
          /\ handler' = "send"
          /\ UNCHANGED fault
       \/ /\ fault' = "null dereference"
          /\ UNCHANGED <<heap, handler>>
    /\ UNCHANGED <<listener, rx, request_target, target, reply>>

ResponseAlloc45 ==
    /\ version = "phase4.5"
    /\ handler = "respond"
    /\ \/ /\ heap' = heap \cup {"message", "vec"}
          /\ handler' = "send"
          /\ UNCHANGED fault
       \/ /\ \E got \in {{}, {"message"}} :
                Free(got \cup {NULL}, heap \cup got)
          /\ handler' = "return"
    /\ UNCHANGED <<listener, rx, request_target, target, reply>>

\* Mutant: the target is freed with the rest, as kern-serve.c does.
SendFreeingTarget ==
    /\ handler = "send"
    /\ \/ reply' = [status |-> 200, path |-> NULL, sent |-> "whole"]
       \/ UNCHANGED reply
    /\ Free({"message", "vec", request_target}, heap)
    /\ handler' = "return"
    /\ UNCHANGED <<listener, rx, request_target, target>>

\* kernel_sendmsg is repeated on -EAGAIN; then it took the text or failed.
Send ==
    /\ handler = "send"
    /\ \/ reply' = [status |-> 200, path |-> NULL, sent |-> "whole"]
       \/ UNCHANGED reply
    /\ Free({"message", "vec"}, heap)
    /\ handler' = "return"
    /\ UNCHANGED <<listener, rx, request_target, target>>

Send4 == version = "phase4" /\ Send

Send45 == version = "phase4.5" /\ Send

-----------------------------------------------------------------------------

ks_init == ks_init2 \/ ks_init3 \/ ks_init35 \/ ks_init4 \/ ks_init45

ks_exit ==
    /\ ks_exit2 \/ ks_exit3 \/ ks_exit35 \/ ks_exit4 \/ ks_exit45
    /\ UNCHANGED <<version, orphan>>

listen_loop ==
    /\ \/ listen_loop3 \/ listen_loop35 \/ listen_loop4 \/ listen_loop45
       \/ handle_http_request4 \/ handle_http_request45
       \/ ResponseAlloc4 \/ ResponseAlloc45 \/ Send4 \/ Send45
    /\ UNCHANGED <<version, orphan>>

Environment ==
    /\ \/ AcceptError /\ version # "phase3"
       \/ \E c \in Conns : Connect(c) \/ \E a \in Arrivals : Transmit(c, a)
    /\ UNCHANGED <<version, orphan>>

\* Nothing is modelled after the first fault.
Next ==
    /\ fault = "none"
    /\ ks_init \/ ks_exit \/ listen_loop \/ Environment
       \/ \E v \in Versions : Pick(v)

\* insmod and rmmod come to their end once they were called.
Loading ==
    /\ fault = "none"
    /\ loader \notin {"absent", "loaded"}
    /\ ~(version = "phase2" /\ loader = "listening")
    /\ ks_init \/ ks_exit

Fairness ==
    /\ WF_vars(fault = "none" /\ listen_loop)
    /\ SF_vars(fault = "none" /\ listen_loop /\ L!Accept)
    /\ WF_vars(Loading)

Spec == Init /\ [][Next]_vars /\ Fairness

-----------------------------------------------------------------------------
(* Properties                                                              *)

\* Every variable holds a value of its type.
TypeOK ==
    /\ version \in Versions
    /\ orphan \in BOOLEAN
    /\ loader \in L!LoaderStates
    /\ thread \in L!ThreadStates
    /\ listen_thread \in {"null", "task", "err"}
    /\ should_stop \in BOOLEAN
    /\ ks_sock \in {NULL, LISTENER}
    /\ conn_from_client \in Conns \cup {NULL}
    /\ socks \subseteq Conns \cup {LISTENER}
    /\ backlog \in Seq(Conns)
    /\ client \in [Conns -> {"idle", "queued", "accepted", "released",
                            "reset", "stranded"}]
    /\ late \in Nat
    /\ handler \in {"idle", "request", "recv", "respond", "send", "return"}
    /\ rx \in [Conns -> Arrival]
    /\ heap \subseteq Buffers \cup Conns
    /\ request_target \in {NULL} \cup Conns
    /\ target \in Targets \cup {NULL}
    /\ reply \in Replies
    /\ fault \in {"none", "null dereference", "double release", "bad free"}

\* kfree only ever gets what is allocated: on every return path of both
\* handlers, after whichever kmalloc failed, and in ks_exit, which frees the
\* target of a connection that may have ended long before.
NoBadFree == fault # "bad free"

\* A message without a second token is handled with the target of an earlier
\* one: as the string is never freed before rmmod, that is allocated memory.
StaleTargetIsAllocated ==
    loader # "absent" => request_target \in heap \cup {NULL}

\* A module that is out, whichever version it was, left no thread and no
\* socket, and no client waits for it but at a socket that was lost.
UnloadedIsClean ==
    loader = "absent" /\ fault = "none" =>
        /\ socks = {}
        /\ thread = "none"
        /\ \A c \in Conns : client[c] \notin {"queued", "accepted"}

\* One failed kthread_run of phase 3, 3.5 or 4 ends the service on port 80
\* for good: no version loaded afterwards gets a client.
LostPortIsNotServed ==
    orphan /\ version # "phase2" =>
        \A c \in Conns : client[c] \notin {"queued", "accepted"}

\* The versions that accept do not leave a client waiting for ever, unless
\* their thread spins, the kernel is broken or the socket was lost.
WaitingEnds ==
    \A c \in Conns :
        [](client[c] = "queued" /\ version \notin {"phase2", "phase3"} =>
            <>(\/ client[c] \in {"released", "reset", "stranded"}
               \/ fault # "none"
               \/ []Spinning))

\* But for the step that loses the listening socket, every version, and any
\* sequence of them, is the service of HttpService: clients wait in order, one
\* at a time is served and answered at most once, none is cut off by rmmod,
\* and those that were stranded stay so and disturb no later service.
ServesUnlessLost ==
    Service!Init /\ [][Service!Next \/ orphan' # orphan]_(Service!svars)

\* "We should only accept GET requests" (phase4.5.c:330): a request that was
\* parsed and has another method gets no page.
OnlyGetIsServed ==
    /\ version = "phase4.5"
    /\ handler # "idle" /\ request_target = conn_from_client
    /\ rx[conn_from_client].kind = "line"
    /\ rx[conn_from_client].method = "other"
    => reply.status # 200

=============================================================================
