------------------------------ MODULE KernServe ------------------------------
(***************************************************************************)
(* kern-serve.c whole: KsListener's processes and clients together with    *)
(* KsHandler's functions, which the listen thread runs on the connection   *)
(* it accepted.  They share conn_from_client; accepting a connection is    *)
(* calling the handler, and the handler's return is the release.           *)
(***************************************************************************)
EXTENDS Naturals, Sequences

CONSTANTS Conns, NULL, LISTENER, Backlog, Paths, Index, Arrivals

VARIABLES
    conn_from_client,
    loader, thread, listen_thread, should_stop, ks_sock, socks, backlog,
    client, late,
    handler, rx, disk, heap, http_method, request_target, method, target,
    response, owed, reply

L == INSTANCE KsListener
H == INSTANCE KsHandler

\* What KsListener and KsHandler assume of their constants.
ASSUME KernServeAssumption ==
    /\ Backlog \in Nat
    /\ LISTENER \notin Conns
    /\ Index \in Paths
    /\ Arrivals \subseteq H!Arrival
    /\ NULL \notin Conns \cup {LISTENER} \cup H!HeapObjects \cup H!Targets

listener == <<conn_from_client, loader, thread, listen_thread, should_stop,
              ks_sock, socks, backlog, client, late>>

ownHandler == <<handler, rx, disk, heap, http_method, request_target, method,
                target, response, owed, reply>>

vars == <<listener, ownHandler>>

Init == L!Init /\ H!HInit

-----------------------------------------------------------------------------
(* The insmod/rmmod process                                                *)

\* A fresh module: its statics are null again.
Insmod == L!SockCreate /\ H!Reload

\* The rest of ks_init and ks_exit does not touch the handler's data.
InitOrExit ==
    /\ \/ L!Bind \/ L!Listen \/ L!SpawnThread \/ L!SpawnFails
       \/ L!StopThread \/ L!ThreadJoined \/ L!ReleaseListener
    /\ UNCHANGED ownHandler

-----------------------------------------------------------------------------
(* The listen thread                                                       *)

\* The loop's own steps, between two connections.
Loop ==
    /\ L!Check \/ L!AcceptInterrupted
    /\ UNCHANGED ownHandler

AcceptError == L!AcceptFails /\ UNCHANGED ownHandler

AcceptAndHandle == L!Accept /\ H!Begin(Head(backlog))

Handle == H!Work /\ UNCHANGED listener

Spin == H!RecvAgain /\ UNCHANGED listener

ReturnAndRelease == L!Release /\ H!Return

-----------------------------------------------------------------------------
(* Clients                                                                 *)

Connect(c) == L!Connect(c) /\ UNCHANGED ownHandler

\* A client sends, closes or resets once it is connected.
Transmit(c, a) ==
    /\ client[c] \in {"queued", "accepted"}
    /\ H!Arrive(c, a)
    /\ UNCHANGED listener

-----------------------------------------------------------------------------

Thread == Loop \/ AcceptAndHandle \/ Handle \/ ReturnAndRelease

Next ==
    \/ Insmod \/ InitOrExit
    \/ Thread \/ AcceptError \/ Spin
    \/ \E c \in Conns : Connect(c) \/ \E a \in Arrivals : Transmit(c, a)

(***************************************************************************)
(* The scheduler runs the listen thread and, once insmod or rmmod started, *)
(* the loading process.  kernel_accept does not fail for ever while there  *)
(* is a connection to take.  Nobody has to load or unload the module, and  *)
(* a client never has to connect, or to send anything once it did.         *)
(***************************************************************************)
Fairness ==
    /\ WF_vars(Thread)
    /\ SF_vars(AcceptAndHandle)
    /\ WF_vars(InitOrExit /\ loader # "loaded")

Spec == Init /\ [][Next]_vars /\ Fairness

-----------------------------------------------------------------------------
(* Properties                                                              *)

\* The handler works on a socket that exists, so that its two checks for a
\* null conn_from_client (kern-serve.c:249 and 404) never fire.
HandlerHoldsSocket ==
    handler # "idle" => conn_from_client \in socks

\* Once the module is out, whatever the clients did and whatever failed, it
\* holds no socket, no memory and no file, and its thread is not in a handler.
UnloadedHoldsNothing ==
    loader = "absent" => socks = {} /\ heap = {} /\ handler = "idle"

\* The thread polls a connection whose client has not sent anything.
Spinning == handler = "recv" /\ rx[conn_from_client] = H!Silent

\* The allocator was corrupted by a message without separators.
Corrupted == handler = "oops"

\* rmmod comes to its end unless the thread serves, for ever, a client that
\* never says anything (or memory is corrupt).
StopCompletesOrSpins ==
    [](loader = "stopping" => <>(loader = "absent" \/ Corrupted \/ []Spinning))

\* With the same exceptions, a client in the accept queue is served to the
\* end or is reset when the module goes: nobody waits behind a closed door.
WaitingEnds ==
    \A c \in Conns :
        [](client[c] = "queued" =>
            <>(client[c] \in {"released", "reset"} \/ Corrupted \/ []Spinning))

\* How many steps away from its end the thread is once it was told to stop,
\* not counting the polls of a connection that has nothing to read.
StepsToStop ==
    CASE thread \in {"none", "exited"} -> 0
      [] thread = "check"  -> 1
      [] thread = "serve"  -> 2 + H!StepsToReturn
      [] thread = "accept" -> 16

\* While rmmod waits in kthread_stop nothing takes the thread further from
\* its end, and each step of its own but a poll brings it nearer, clients that
\* connect and failures of any call included: it ends within 16 steps.
StopComesNearer ==
    [][loader = "stopping" /\ loader' = "stopping" =>
         StepsToStop' < StepsToStop]_<<loader, thread, handler>>

\* "Gracefully terminate the thread if it's still running." (kern-serve.c:112)
StopCompletes == loader = "stopping" ~> loader = "absent" \/ Corrupted

-----------------------------------------------------------------------------
(* What clients see: the promise of HttpService.                           *)

Service == INSTANCE HttpService WITH
    up <- loader \in {"listening", "loaded", "stopping", "stopped"},
    queue <- backlog,
    serving <- conn_from_client,
    code <- IF handler = "idle" THEN 0 ELSE reply.code,
    stage <- [c \in Conns |->
        CASE client[c] = "idle"     -> "away"
          [] client[c] = "queued"   -> "waiting"
          [] client[c] = "accepted" -> "served"
          [] client[c] = "released" -> "closed"
          [] client[c] = "reset"    -> "turned away"]

\* Every behaviour of the module is one of the service, connections taken in
\* order and one at a time, each answered at most once, none cut off by rmmod.
ImplementsService == Service!Spec

\* The accept queue holds exactly the clients that wait, each once, and the
\* connection in the thread's hands is the only one that is: no error path of
\* kernel_accept, no return path of the handler and no rmmod loses a client.
ClientsInOrder == Service!Orderly

\* A client that came first is not left waiting while a later one is served,
\* whatever failed in between and however often the loop was interrupted.
NobodyOvertakes == Service!NobodyOvertakes

=============================================================================
