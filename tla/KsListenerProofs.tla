--------------------------- MODULE KsListenerProofs ---------------------------
(***************************************************************************)
(* The safety properties of KsListener hold for any set of connections and *)
(* any length of the accept queue.                                         *)
(*                                                                         *)
(* The properties relate the pointers to the sockets; what keeps them true *)
(* is where the two processes are.  LoaderInv ties the thread's life and   *)
(* the listening socket to the loading process, ConnInv the connection to  *)
(* the thread, LateInv the history variable to the stop request.           *)
(***************************************************************************)
EXTENDS KsListener, TLAPS

Running == {"check", "accept", "serve", "exited"}

\* The loading process has a listening socket from created to stopped, and a
\* thread from loaded to stopping; only a thread told to stop exits.
LoaderInv ==
    /\ ks_sock = IF loader = "absent" THEN NULL ELSE LISTENER
    /\ loader \in {"loaded", "stopping"} <=> thread \in Running
    /\ loader = "loaded" => ~should_stop
    /\ loader = "stopping" => should_stop
    /\ thread = "exited" => loader = "stopping"

\* A connection is held, and accepted, exactly while it is served; nobody
\* waits before the socket listens.
ConnInv ==
    /\ conn_from_client # NULL <=> thread = "serve"
    /\ \A c \in Conns : client[c] = "accepted" => conn_from_client = c
    /\ loader \in {"absent", "created", "bound"} =>
           backlog = <<>> /\ \A c \in Conns : client[c] # "queued"

\* A late connection means a stop request, and the thread has not come back
\* to kernel_accept since.
LateInv ==
    /\ StopLetsOneThrough
    /\ late # 0 => should_stop /\ thread # "accept"

IInv == TypeOK /\ LoaderInv /\ ConnInv /\ LateInv /\ SocketOwnership

-----------------------------------------------------------------------------
(* The invariant holds initially and is kept by every step.                *)

\* A module that was never loaded satisfies the invariant.
LEMMA InitIInv == Init => IInv
  <1> SUFFICES ASSUME Init PROVE IInv
    OBVIOUS
  <1>1. TypeOK
    <2>1. backlog \in Seq(Conns)
      BY DEF Init
    <2>2. client \in [Conns -> {"idle", "queued", "accepted", "released",
                               "reset"}]
      BY DEF Init
    <2> QED
      BY <2>1, <2>2 DEF Init, TypeOK, LoaderStates, ThreadStates
  <1>2. LoaderInv /\ LateInv /\ SocketOwnership
    BY DEF Init, LoaderInv, LateInv, SocketOwnership, StopLetsOneThrough, Running
  <1>3. ConnInv
    BY DEF Init, ConnInv
  <1> QED
    BY <1>1, <1>2, <1>3 DEF IInv

\* Releasing the listening socket keeps the types of what it changes.
LEMMA CloseSocketTypes ==
    TypeOK /\ close_socket =>
        /\ ks_sock' \in {NULL, LISTENER}
        /\ socks' \subseteq Conns \cup {LISTENER}
        /\ backlog' \in Seq(Conns)
        /\ client' \in [Conns -> {"idle", "queued", "accepted", "released",
                                  "reset"}]
  BY DEF TypeOK, close_socket

\* Every step of the two processes and of the clients keeps the types.
LEMMA TypeStep == TypeOK /\ [Next]_lvars => TypeOK'
  <1> SUFFICES ASSUME TypeOK, [Next]_lvars PROVE TypeOK'
    OBVIOUS
  <1> USE ListenerAssumption
      DEF ListenerAssumption, TypeOK, LoaderStates, ThreadStates
  <1>1. CASE SockCreate
    BY <1>1 DEF SockCreate
  <1>2. CASE Bind
    BY <1>2, CloseSocketTypes DEF Bind
  <1>3. CASE Listen
    BY <1>3, CloseSocketTypes DEF Listen
  <1>4. CASE SpawnThread
    BY <1>4 DEF SpawnThread
  <1>5. CASE SpawnFails
    BY <1>5, CloseSocketTypes DEF SpawnFails
  <1>6. CASE StopThread
    BY <1>6 DEF StopThread
  <1>7. CASE ThreadJoined
    BY <1>7 DEF ThreadJoined
  <1>8. CASE ReleaseListener
    BY <1>8, CloseSocketTypes DEF ReleaseListener
  <1>9. CASE Check
    BY <1>9 DEF Check
  <1>10. CASE Accept
    <2>1. Head(backlog) \in Conns /\ Tail(backlog) \in Seq(Conns)
      BY <1>10 DEF Accept
    <2> QED
      BY <1>10, <2>1 DEF Accept
  <1>11. CASE AcceptInterrupted
    BY <1>11 DEF AcceptInterrupted
  <1>12. CASE AcceptFails
    BY <1>12 DEF AcceptFails
  <1>13. CASE Release
    BY <1>13 DEF Release
  <1>14. ASSUME NEW c \in Conns, Connect(c) PROVE TypeOK'
    BY <1>14 DEF Connect
  <1>15. CASE UNCHANGED lvars
    BY <1>15 DEF lvars
  <1> QED
    BY <1>1, <1>2, <1>3, <1>4, <1>5, <1>6, <1>7, <1>8, <1>9, <1>10, <1>11,
       <1>12, <1>13, <1>14, <1>15 DEF Next, Loader, Thread

\* What the loading process and the thread may do to each other.
LEMMA LoaderStep == IInv /\ [Next]_lvars => LoaderInv'
  <1> SUFFICES ASSUME IInv, [Next]_lvars PROVE LoaderInv'
    OBVIOUS
  <1> USE DEF IInv, TypeOK, LoaderInv, LoaderStates, ThreadStates, Running
  <1>1. CASE Loader
    BY <1>1 DEF Loader, SockCreate, Bind, Listen, SpawnThread, SpawnFails,
                StopThread, ThreadJoined, ReleaseListener, close_socket
  <1>2. CASE Thread
    BY <1>2 DEF Thread, Check, Accept, AcceptInterrupted, AcceptFails, Release
  <1>3. ASSUME NEW c \in Conns, Connect(c) PROVE LoaderInv'
    BY <1>3 DEF Connect
  <1>4. CASE UNCHANGED lvars
    BY <1>4 DEF lvars
  <1> QED
    BY <1>1, <1>2, <1>3, <1>4 DEF Next

\* The connection follows the thread.
LEMMA ConnStep == IInv /\ [Next]_lvars => ConnInv'
  <1> SUFFICES ASSUME IInv, [Next]_lvars PROVE ConnInv'
    OBVIOUS
  <1> USE ListenerAssumption
      DEF ListenerAssumption, IInv, TypeOK, LoaderInv, ConnInv, LoaderStates,
          ThreadStates, Running
  <1>1. CASE SockCreate \/ SpawnThread \/ StopThread \/ ThreadJoined
    BY <1>1 DEF SockCreate, SpawnThread, StopThread, ThreadJoined
  <1>2. CASE Bind \/ Listen \/ SpawnFails \/ ReleaseListener
    BY <1>2 DEF Bind, Listen, SpawnFails, ReleaseListener, close_socket
  <1>3. CASE Check \/ AcceptInterrupted \/ AcceptFails
    BY <1>3 DEF Check, AcceptInterrupted, AcceptFails
  <1>4. CASE Accept
    <2>1. Head(backlog) \in Conns
      BY <1>4 DEF Accept
    <2> QED
      BY <1>4, <2>1 DEF Accept
  <1>5. CASE Release
    BY <1>5 DEF Release
  <1>6. ASSUME NEW c \in Conns, Connect(c) PROVE ConnInv'
    BY <1>6 DEF Connect
  <1>7. CASE UNCHANGED lvars
    BY <1>7 DEF lvars
  <1> QED
    BY <1>1, <1>2, <1>3, <1>4, <1>5, <1>6, <1>7 DEF Next, Loader, Thread

\* Accepting is the only step that counts, and the stop test follows it.
LEMMA LateStep == IInv /\ [Next]_lvars => LateInv'
  <1> SUFFICES ASSUME IInv, [Next]_lvars PROVE LateInv'
    OBVIOUS
  <1> USE DEF IInv, TypeOK, LoaderInv, LateInv, StopLetsOneThrough,
              LoaderStates, ThreadStates, Running
  <1>1. CASE Loader
    BY <1>1 DEF Loader, SockCreate, Bind, Listen, SpawnThread, SpawnFails,
                StopThread, ThreadJoined, ReleaseListener, close_socket
  <1>2. CASE Accept
    BY <1>2 DEF Accept
  <1>3. CASE Check \/ AcceptInterrupted \/ AcceptFails \/ Release
    BY <1>3 DEF Check, AcceptInterrupted, AcceptFails, Release
  <1>4. ASSUME NEW c \in Conns, Connect(c) PROVE LateInv'
    BY <1>4 DEF Connect
  <1>5. CASE UNCHANGED lvars
    BY <1>5 DEF lvars
  <1> QED
    BY <1>1, <1>2, <1>3, <1>4, <1>5 DEF Next, Thread

\* A socket appears with the pointer that is set to it, and goes with it.
LEMMA OwnershipStep == IInv /\ [Next]_lvars => SocketOwnership'
  <1> SUFFICES ASSUME IInv, [Next]_lvars PROVE SocketOwnership'
    OBVIOUS
  <1> USE ListenerAssumption
      DEF ListenerAssumption, IInv, TypeOK, LoaderInv, ConnInv,
          SocketOwnership, Running
  <1>1. CASE SockCreate
    BY <1>1 DEF SockCreate
  <1>2. CASE Bind \/ Listen \/ SpawnFails \/ ReleaseListener
    BY <1>2 DEF Bind, Listen, SpawnFails, ReleaseListener, close_socket
  <1>3. CASE SpawnThread \/ StopThread \/ ThreadJoined \/ Check
             \/ AcceptInterrupted \/ AcceptFails
    BY <1>3 DEF SpawnThread, StopThread, ThreadJoined, Check,
                AcceptInterrupted, AcceptFails
  <1>4. CASE Accept
    <2>1. Head(backlog) \in Conns
      BY <1>4 DEF Accept
    <2>2. conn_from_client = NULL
      BY <1>4 DEF Accept
    <2> QED
      BY <1>4, <2>1, <2>2 DEF Accept
  <1>5. CASE Release
    BY <1>5 DEF Release
  <1>6. ASSUME NEW c \in Conns, Connect(c) PROVE SocketOwnership'
    BY <1>6 DEF Connect
  <1>7. CASE UNCHANGED lvars
    BY <1>7 DEF lvars
  <1> QED
    BY <1>1, <1>2, <1>3, <1>4, <1>5, <1>6, <1>7 DEF Next, Loader, Thread

\* The strengthening of the properties is an invariant of the specification.
THEOREM Invariance == Spec => []IInv
  <1>1. IInv /\ [Next]_lvars => IInv'
    BY TypeStep, LoaderStep, ConnStep, LateStep, OwnershipStep DEF IInv
  <1> QED
    BY InitIInv, <1>1, PTL DEF Spec

-----------------------------------------------------------------------------
(* The properties of KsListener.                                           *)

\* Every variable always holds a value of its type.
THEOREM TypeCorrectness == Spec => []TypeOK
  <1>1. IInv => TypeOK
    BY DEF IInv
  <1> QED
    BY Invariance, <1>1, PTL

\* The module's two pointers always are exactly its sockets: no sock_release
\* in kern-serve.c meets a released socket and none is forgotten.
THEOREM SocketsAreOwned == Spec => []SocketOwnership
  <1>1. IInv => SocketOwnership
    BY DEF IInv
  <1> QED
    BY Invariance, <1>1, PTL

\* ks_exit never takes the listening socket from under listen_loop.
THEOREM ThreadKeepsListener == Spec => []ListenerOutlivesThread
  <1>1. IInv => ListenerOutlivesThread
    BY ListenerAssumption
    DEF ListenerAssumption, IInv, LoaderInv, SocketOwnership,
        ListenerOutlivesThread, Running
  <1> QED
    BY Invariance, <1>1, PTL

\* However the module failed to load or was unloaded, nothing is left.
THEOREM UnloadingCleansUp == Spec => []UnloadedIsClean
  <1>1. IInv => UnloadedIsClean
    BY ListenerAssumption
    DEF ListenerAssumption, IInv, TypeOK, LoaderInv, ConnInv, SocketOwnership,
        UnloadedIsClean, ThreadStates, Running
  <1> QED
    BY Invariance, <1>1, PTL

\* After kthread_stop at most one more connection is accepted.
THEOREM StopIsPrompt == Spec => []StopLetsOneThrough
  <1>1. IInv => StopLetsOneThrough
    BY DEF IInv, LateInv
  <1> QED
    BY Invariance, <1>1, PTL

=============================================================================
