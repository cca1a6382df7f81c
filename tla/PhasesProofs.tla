----------------------------- MODULE PhasesProofs -----------------------------
(***************************************************************************)
(* phase2.c to phase4.5.c, loaded one after the other for any clients and  *)
(* any messages: what is left of them when they are out, and what a lost   *)
(* socket does to the versions that come later.                            *)
(*                                                                         *)
(* Of the versions' differences only some matter to these properties.      *)
(* Move says of a step what it does to the sockets, the clients and the    *)
(* heap, for all versions at once; the invariants are proved of Move.      *)
(***************************************************************************)
EXTENDS Phases, EarlyServerProofs

\* The thread runs from loaded to stopping; the module has its listening
\* socket from created to stopped, and a connection's only at "serve".
PlaceInv ==
    /\ ks_sock = IF loader = "absent" THEN NULL ELSE LISTENER
    /\ loader \in {"loaded", "stopping"} <=> thread \in Running
    /\ loader = "stopping" => should_stop
    /\ thread = "serve" => conn_from_client \in Conns
    /\ handler # "idle" => thread = "serve" /\ version # "phase3.5"
    /\ backlog \in Seq(Conns)

SocketInv ==
    fault = "none" =>
        socks = {ks_sock, IF thread = "serve" THEN conn_from_client ELSE NULL}
                \ {NULL}

\* A client is accepted while its connection is served, and nobody waits
\* before the socket listens.
ClientInv ==
    /\ \A c \in Conns : client[c] = "accepted" =>
           thread = "serve" /\ conn_from_client = c
    /\ loader \in {"absent", "created", "bound"} =>
           backlog = <<>> /\ \A c \in Conns : client[c] # "queued"

\* With the port lost, only phase2.c gets further than creating its socket.
PortInv == orphan /\ version # "phase2" => loader \in {"absent", "created"}

\* The transient blocks allocated at each place.
Blocks ==
    CASE handler \in {"idle", "request", "respond", "return"} -> {}
      [] handler = "recv" -> Buffers
      [] OTHER            -> {"message", "vec"}

HeapInv ==
    /\ fault = "none" => Blocks \subseteq heap /\ heap \subseteq Blocks \cup Conns
    /\ OnlyTargetsSurvive
    /\ StaleTargetIsAllocated

\* Nothing is sent before Send.
ReplyInv ==
    handler \in {"request", "recv", "respond", "send"} => reply = NoReply

IInv ==
    /\ TypeOK
    /\ PlaceInv
    /\ SocketInv
    /\ ClientInv
    /\ PortInv
    /\ HeapInv
    /\ NoBadFree
    /\ ReplyInv

-----------------------------------------------------------------------------
(* What the steps have in common                                           *)

\* ks_init's next call; in phase2.c it need not find port 80 free.
LoadMove ==
    /\ L!Bind \/ L!Listen \/ L!SpawnThread
    /\ version = "phase2" \/ PortTaken
    /\ UNCHANGED <<work, version, orphan>>

\* The listening socket is lost, which phase2.c cannot do.
LeakMove == SpawnLeaks /\ version # "phase2"

\* The listening socket is released, where there is no thread.
CloseMove ==
    /\ loader \in {"listening", "stopped"}
    /\ loader' = "absent"
    /\ L!close_socket
    /\ listen_thread' \in {listen_thread, "null", "err"}
    /\ UNCHANGED <<thread, should_stop, conn_from_client, late, work, version,
                   orphan>>

StopMove == StopThread /\ UNCHANGED <<version, orphan>>

ExitMove ==
    \E string \in {NULL, request_target} :
        ExitReleases(string) /\ UNCHANGED <<version, orphan>>

IdleMove == (Loop \/ AcceptError) /\ UNCHANGED <<version, orphan>>

\* phase3.5.c releases at once, the later versions call their handlers.
AcceptMove ==
    /\ L!Accept
    /\ (UNCHANGED work) \/ (Accept /\ version # "phase3.5")
    /\ UNCHANGED <<version, orphan>>

ReleaseMove ==
    /\ (L!Release /\ version = "phase3.5" /\ UNCHANGED work) \/ Release
    /\ UNCHANGED <<version, orphan>>

HandlerMove ==
    /\ RequestAlloc4 \/ RequestAlloc \/ Recv \/ RecvFails
       \/ ResponseAlloc4 \/ ResponseAlloc45 \/ Send
    /\ UNCHANGED <<version, orphan>>

ClientMove ==
    /\ \E c \in Conns : Connect(c) \/ \E a \in Arrivals : Transmit(c, a)
    /\ UNCHANGED <<version, orphan>>

Move ==
    \/ \E v \in Versions : Pick(v)
    \/ Insmod /\ UNCHANGED <<version, orphan>>
    \/ LoadMove \/ LeakMove \/ CloseMove \/ StopMove \/ ExitMove
    \/ IdleMove \/ AcceptMove \/ ReleaseMove \/ HandlerMove \/ ClientMove

\* Whatever the version, a step is one of these, and begins without a fault.
LEMMA Moves == Next => fault = "none" /\ Move
  <1> SUFFICES ASSUME Next PROVE Move
    BY DEF Next
  <1>1. ASSUME L!SpawnFails \/ L!ReleaseListener,
               UNCHANGED <<work, version, orphan>>
        PROVE  CloseMove
    BY <1>1 DEF L!SpawnFails, L!ReleaseListener, CloseMove
  <1>2. CASE ks_init2
    BY <1>2 DEF ks_init2, Move, LoadMove
  <1>3. CASE LoadOrLeak /\ version # "phase2"
    BY <1>3 DEF LoadOrLeak, Move, LoadMove, LeakMove
  <1>4. CASE ks_init45
    BY <1>1, <1>4 DEF ks_init45, Load, Move, LoadMove
  <1>5. CASE ks_exit
    <2>1. CASE ks_exit2
      BY <1>5, <2>1 DEF ks_exit, ks_exit2, CloseMove, Move
    <2>2. CASE StopAndRelease
      BY <1>1, <1>5, <2>2 DEF ks_exit, StopAndRelease, StopMove, Move
    <2>3. CASE StopThread \/ ExitReleases(NULL) \/ ExitReleases(request_target)
      BY <1>5, <2>3 DEF ks_exit, StopMove, ExitMove, Move
    <2> QED
      BY <1>5, <2>1, <2>2, <2>3
      DEF ks_exit, ks_exit3, ks_exit35, ks_exit4, ks_exit45
  <1>6. CASE listen_loop
    <2>1. CASE listen_loop3 \/ listen_loop35 \/ listen_loop4 \/ listen_loop45
      BY <1>6, <2>1
      DEF listen_loop, listen_loop3, listen_loop35, listen_loop4,
          listen_loop45, IdleMove, AcceptMove, ReleaseMove, Accept, Move
    <2>2. CASE ~(listen_loop3 \/ listen_loop35 \/ listen_loop4 \/ listen_loop45)
      BY <1>6, <2>2
      DEF listen_loop, handle_http_request4, handle_http_request45, Send4,
          Send45, HandlerMove, Move
    <2> QED
      BY <2>1, <2>2
  <1>7. CASE Environment
    BY <1>7 DEF Environment, IdleMove, ClientMove, Move
  <1>8. CASE \E v \in Versions : Pick(v)
    BY <1>8 DEF Move
  <1> QED
    BY <1>2, <1>3, <1>4, <1>5, <1>6, <1>7, <1>8
    DEF Next, ks_init, ks_init3, ks_init35, ks_init4

\* The handlers' own steps leave the processes and the sockets alone.
LEMMA HandlerMoves ==
    HandlerMove => /\ UNCHANGED <<listener, version, orphan>>
                   /\ handler # "idle" /\ handler' # "idle"
  BY DEF HandlerMove, RequestAlloc4, RequestAlloc, Recv, RecvFails,
         ResponseAlloc4, ResponseAlloc45, Send

\* So does everything a client does but connecting.
LEMMA ClientMoves ==
    ASSUME ClientMove
    PROVE  /\ UNCHANGED <<loader, thread, should_stop, ks_sock, socks,
                          conn_from_client, handler, heap, request_target, fault,
                          version, orphan>>
           /\ \/ UNCHANGED <<backlog, client>>
              \/ \E c \in Conns :
                    /\ client[c] = "idle"
                    /\ loader \notin {"absent", "created", "bound"}
                    /\ backlog' = Append(backlog, c)
                    /\ client' = [client EXCEPT ![c] = "queued"]
  BY DEF ClientMove, Connect, L!Connect, Transmit, work, listener

-----------------------------------------------------------------------------
(* The processes, the sockets and the clients                              *)

\* The thread, its module and the handlers stay in step.
LEMMA PlaceStep == IInv /\ Move => PlaceInv'
  <1> SUFFICES ASSUME IInv, Move PROVE PlaceInv'
    OBVIOUS
  <1>1. PlaceInv
    BY DEF IInv
  <1>2. <<>> \in Seq(Conns)
    OBVIOUS
  <1>3. CASE \E v \in Versions : Pick(v)
    BY <1>1, <1>3 DEF Pick, listener, work, PlaceInv, Running
  <1>4. CASE Insmod /\ UNCHANGED <<version, orphan>>
    BY <1>1, <1>4 DEF Insmod, L!SockCreate, PlaceInv, Running
  <1>5. CASE LoadMove
    BY <1>1, <1>2, <1>5 DEF LoadMove, work, L!Bind, L!Listen, L!SpawnThread,
                            L!close_socket, PlaceInv, Running
  <1>6. CASE LeakMove \/ CloseMove
    BY <1>1, <1>2, <1>6 DEF LeakMove, SpawnLeaks, CloseMove, work,
                            L!close_socket, PlaceInv, Running
  <1>7. CASE StopMove
    BY <1>1, <1>7 DEF StopMove, StopThread, work, L!StopThread, L!ThreadJoined,
                      PlaceInv, Running
  <1>8. CASE ExitMove
    BY <1>1, <1>2, <1>8 DEF ExitMove, ExitReleases, PlaceInv, Running
  <1>9. CASE IdleMove
    BY <1>1, <1>9 DEF IdleMove, Loop, AcceptError, work, L!Check,
                      L!AcceptInterrupted, L!AcceptFails, PlaceInv, Running
  <1>10. CASE AcceptMove
    <2>1. Head(backlog) \in Conns /\ Tail(backlog) \in Seq(Conns)
      BY <1>1, <1>10 DEF AcceptMove, L!Accept, PlaceInv
    <2>2. /\ thread = "accept" /\ thread' = "serve"
          /\ conn_from_client' = Head(backlog)
          /\ backlog' = Tail(backlog)
          /\ UNCHANGED <<ks_sock, loader, should_stop, version>>
      BY <1>10 DEF AcceptMove, L!Accept
    <2>3. handler' # "idle" => version # "phase3.5"
      BY <1>1, <1>10, <2>2 DEF AcceptMove, work, PlaceInv
    <2> QED
      BY <1>1, <2>1, <2>2, <2>3 DEF PlaceInv, Running
  <1>11. CASE ReleaseMove
    <2>1. thread = "serve" /\ thread' = "check" /\ handler' = "idle"
      BY <1>1, <1>11 DEF ReleaseMove, L!Release, Release, work, PlaceInv
    <2>2. UNCHANGED <<ks_sock, loader, should_stop, backlog>>
      BY <1>11 DEF ReleaseMove, L!Release, Release
    <2> QED
      BY <1>1, <2>1, <2>2 DEF PlaceInv, Running
  <1>12. CASE HandlerMove
    BY <1>1, <1>12, HandlerMoves DEF listener, PlaceInv
  <1>13. CASE ClientMove
    <2>1. backlog' \in Seq(Conns)
      BY <1>1, <1>13, ClientMoves DEF PlaceInv
    <2> QED
      BY <1>1, <1>13, <2>1, ClientMoves DEF PlaceInv
  <1> QED
    BY <1>3, <1>4, <1>5, <1>6, <1>7, <1>8, <1>9, <1>10, <1>11, <1>12, <1>13
    DEF Move

\* The two pointers are the sockets that exist, but for the pointer that the
\* loop leaves behind.
LEMMA SocketStep == IInv /\ fault = "none" /\ Move => SocketInv'
  <1> SUFFICES ASSUME IInv, fault = "none", Move PROVE SocketInv'
    OBVIOUS
  <1> DEFINE Held == IF thread = "serve" THEN conn_from_client ELSE NULL
  <1>1. PlaceInv /\ socks = {ks_sock, Held} \ {NULL}
    BY DEF IInv, SocketInv
  <1>2. NULL \notin Conns \cup {LISTENER} /\ LISTENER \notin Conns
    BY EarlyAssumption
  <1>3. ASSUME UNCHANGED <<ks_sock, socks, Held>> PROVE SocketInv'
    BY <1>1, <1>3 DEF SocketInv
  <1>4. ASSUME ks_sock' = NULL, Held = NULL, Held' = NULL,
               socks' \in {socks \ {ks_sock}, socks \ {ks_sock, conn_from_client}}
        PROVE  SocketInv'
    BY <1>1, <1>4 DEF SocketInv
  <1>5. CASE \E v \in Versions : Pick(v)
    BY <1>3, <1>5 DEF Pick, listener
  <1>6. CASE Insmod
    <2>1. Held = NULL /\ Held' = NULL /\ ks_sock = NULL
      BY <1>1, <1>6 DEF Insmod, L!SockCreate, PlaceInv, Running
    <2>2. \/ ks_sock' = LISTENER /\ socks' = socks \cup {LISTENER}
          \/ ks_sock' = NULL /\ socks' = socks
      BY <1>6 DEF Insmod, L!SockCreate
    <2> QED
      BY <1>1, <1>2, <2>1, <2>2 DEF SocketInv
  <1>7. CASE LoadMove
    <2>1. Held = NULL /\ Held' = NULL
      BY <1>1, <1>7 DEF LoadMove, L!Bind, L!Listen, L!SpawnThread, PlaceInv,
                        Running
    <2>2. \/ UNCHANGED <<ks_sock, socks>>
          \/ ks_sock' = NULL /\ socks' = socks \ {ks_sock}
      BY <1>7 DEF LoadMove, L!Bind, L!Listen, L!SpawnThread, L!close_socket
    <2> QED
      BY <1>3, <1>4, <2>1, <2>2
  <1>8. CASE LeakMove \/ CloseMove
    <2>1. Held = NULL /\ Held' = NULL /\ ks_sock = LISTENER
      BY <1>1, <1>8 DEF LeakMove, SpawnLeaks, CloseMove, PlaceInv, Running
    <2>2. ks_sock' = NULL /\ socks' = socks \ {ks_sock}
      BY <1>8, <2>1 DEF LeakMove, SpawnLeaks, CloseMove, L!close_socket
    <2> QED
      BY <1>4, <2>1, <2>2
  <1>9. CASE StopMove
    <2>1. (Held = NULL /\ Held' = NULL) \/ UNCHANGED Held
      BY <1>9 DEF StopMove, StopThread, L!StopThread, L!ThreadJoined
    <2>2. UNCHANGED <<ks_sock, socks>>
      BY <1>9 DEF StopMove, StopThread, L!StopThread, L!ThreadJoined
    <2> QED
      BY <1>1, <1>3, <2>1, <2>2 DEF SocketInv
  <1>10. CASE ExitMove
    <2>1. Held = NULL /\ Held' = NULL
      BY <1>1, <1>10 DEF ExitMove, ExitReleases, PlaceInv, Running
    <2>2. ks_sock' = NULL /\ socks' = socks \ {ks_sock, conn_from_client}
      BY <1>10 DEF ExitMove, ExitReleases
    <2> QED
      BY <1>4, <2>1, <2>2
  <1>11. CASE IdleMove
    <2>1. Held = NULL /\ Held' = NULL
      BY <1>11 DEF IdleMove, Loop, AcceptError, L!Check, L!AcceptInterrupted,
                   L!AcceptFails
    <2>2. UNCHANGED <<ks_sock, socks>>
      BY <1>11 DEF IdleMove, Loop, AcceptError, L!Check, L!AcceptInterrupted,
                   L!AcceptFails
    <2> QED
      BY <1>3, <2>1, <2>2
  <1>12. CASE AcceptMove
    <2>1. Head(backlog) \in Conns
      BY <1>1, <1>12 DEF AcceptMove, L!Accept, PlaceInv
    <2>2. /\ Held = NULL /\ Held' = Head(backlog)
          /\ socks' = socks \cup {Head(backlog)}
          /\ UNCHANGED ks_sock
      BY <1>12 DEF AcceptMove, L!Accept
    <2> QED
      BY <1>1, <1>2, <2>1, <2>2 DEF SocketInv
  <1>13. CASE ReleaseMove
    <2>1. thread = "serve" /\ thread' = "check"
      BY <1>1, <1>13 DEF ReleaseMove, L!Release, Release, PlaceInv
    <2>2. socks' = socks \ {conn_from_client} /\ UNCHANGED ks_sock
      BY <1>13 DEF ReleaseMove, L!Release, Release
    <2>3. conn_from_client \in Conns /\ ks_sock \in {NULL, LISTENER}
      BY <1>1, <2>1 DEF PlaceInv
    <2> QED
      BY <1>1, <1>2, <2>1, <2>2, <2>3 DEF SocketInv
  <1>14. CASE HandlerMove
    BY <1>3, <1>14, HandlerMoves DEF listener
  <1>15. CASE ClientMove
    BY <1>3, <1>15, ClientMoves
  <1> QED
    BY <1>5, <1>6, <1>7, <1>8, <1>9, <1>10, <1>11, <1>12, <1>13, <1>14, <1>15
    DEF Move

\* Nobody is left at a socket that is not there.
LEMMA ClientStep == IInv /\ Move => ClientInv'
  <1> SUFFICES ASSUME IInv, Move PROVE ClientInv'
    OBVIOUS
  <1>1. PlaceInv /\ ClientInv /\ client \in [Conns -> ClientStates]
    BY DEF IInv, TypeOK, ClientStates
  <1>2. ASSUME UNCHANGED <<backlog, client>>,
               thread = "serve" =>
                   thread' = "serve" /\ conn_from_client' = conn_from_client,
               loader' \in {"absent", "created", "bound"} =>
                   loader \in {"absent", "created", "bound"}
        PROVE  ClientInv'
    BY <1>1, <1>2 DEF ClientInv
  <1>3. ASSUME L!close_socket, thread # "serve" PROVE ClientInv'
    <2>1. \A c \in Conns : client[c] # "accepted"
      BY <1>1, <1>3 DEF ClientInv
    <2>2. \A c \in Conns : client'[c] \notin {"accepted", "queued"}
      BY <1>1, <1>3, <2>1 DEF L!close_socket
    <2> QED
      BY <1>3, <2>2 DEF ClientInv, L!close_socket
  <1>4. CASE \E v \in Versions : Pick(v)
    BY <1>2, <1>4 DEF Pick, listener
  <1>5. CASE Insmod
    <2>1. thread # "serve"
      BY <1>1, <1>5 DEF Insmod, L!SockCreate, PlaceInv, Running
    <2> QED
      BY <1>2, <1>5, <2>1 DEF Insmod, L!SockCreate
  <1>6. CASE LoadMove
    <2>1. thread # "serve"
      BY <1>1, <1>6 DEF LoadMove, L!Bind, L!Listen, L!SpawnThread, PlaceInv,
                        Running
    <2>2. L!close_socket \/ UNCHANGED <<backlog, client>>
      BY <1>6 DEF LoadMove, L!Bind, L!Listen, L!SpawnThread
    <2>3. loader' \in {"absent", "created", "bound"} =>
              loader \in {"absent", "created", "bound"}
      BY <1>6 DEF LoadMove, L!Bind, L!Listen, L!SpawnThread
    <2> QED
      BY <1>2, <1>3, <2>1, <2>2, <2>3
  <1>7. CASE CloseMove
    BY <1>1, <1>3, <1>7 DEF CloseMove, PlaceInv, Running
  <1>8. CASE LeakMove
    <2>1. \A c \in Conns : client[c] # "accepted"
      BY <1>1, <1>8 DEF LeakMove, SpawnLeaks, PlaceInv, ClientInv, Running
    <2>2. \A c \in Conns : client'[c] \notin {"accepted", "queued"}
      BY <1>1, <1>8, <2>1 DEF LeakMove, SpawnLeaks
    <2> QED
      BY <1>8, <2>2 DEF LeakMove, SpawnLeaks, ClientInv
  <1>9. CASE StopMove
    <2>1. thread = "serve" => thread' = "serve"
      BY <1>9 DEF StopMove, StopThread, L!StopThread, L!ThreadJoined
    <2> QED
      BY <1>2, <1>9, <2>1 DEF StopMove, StopThread, L!StopThread,
                              L!ThreadJoined
  <1>10. CASE ExitMove
    <2>1. \A c \in Conns : client[c] # "accepted"
      BY <1>1, <1>10 DEF ExitMove, ExitReleases, PlaceInv, ClientInv, Running
    <2>2. client' = [c \in Conns |-> IF client[c] = "queued" THEN "reset"
                                                             ELSE client[c]]
      BY <1>10 DEF ExitMove, ExitReleases
    <2>3. \A c \in Conns : client'[c] \notin {"accepted", "queued"}
      BY <1>1, <2>1, <2>2
    <2> QED
      BY <1>10, <2>3 DEF ExitMove, ExitReleases, ClientInv
  <1>11. CASE IdleMove
    BY <1>2, <1>11 DEF IdleMove, Loop, AcceptError, L!Check,
                       L!AcceptInterrupted, L!AcceptFails
  <1>12. CASE AcceptMove
    <2> DEFINE c == Head(backlog)
    <2>1. thread = "accept" /\ c \in Conns
      BY <1>1, <1>12 DEF AcceptMove, L!Accept, PlaceInv
    <2>2. loader \in {"loaded", "stopping"} /\ UNCHANGED loader
      BY <1>1, <1>12, <2>1 DEF AcceptMove, L!Accept, PlaceInv, Running
    <2>3. \A d \in Conns : client[d] # "accepted"
      BY <1>1, <2>1 DEF ClientInv
    <2>4. client' = [client EXCEPT ![c] = "accepted"]
      BY <1>12 DEF AcceptMove, L!Accept
    <2>5. thread' = "serve" /\ conn_from_client' = c
      BY <1>12 DEF AcceptMove, L!Accept
    <2> QED
      BY <1>1, <2>1, <2>2, <2>3, <2>4, <2>5 DEF ClientInv
  <1>13. CASE ReleaseMove
    <2> DEFINE c == conn_from_client
    <2>1. thread = "serve" /\ c \in Conns
      BY <1>1, <1>13 DEF ReleaseMove, L!Release, Release, PlaceInv
    <2>2. loader \in {"loaded", "stopping"} /\ UNCHANGED loader
      BY <1>1, <1>13, <2>1 DEF ReleaseMove, L!Release, Release, PlaceInv,
                               Running
    <2>3. client' = [client EXCEPT ![c] = "released"]
      BY <1>13 DEF ReleaseMove, L!Release, Release
    <2>4. \A d \in Conns : client'[d] # "accepted"
      BY <1>1, <2>1, <2>3 DEF ClientInv
    <2> QED
      BY <2>2, <2>4 DEF ClientInv
  <1>14. CASE HandlerMove
    BY <1>2, <1>14, HandlerMoves DEF listener
  <1>15. CASE ClientMove
    <2>1. UNCHANGED <<thread, loader, conn_from_client>>
      BY <1>15, ClientMoves
    <2>2. CASE UNCHANGED <<backlog, client>>
      BY <1>2, <2>1, <2>2
    <2>3. ASSUME NEW c \in Conns,
                 loader \notin {"absent", "created", "bound"},
                 client' = [client EXCEPT ![c] = "queued"]
          PROVE  ClientInv'
      BY <1>1, <2>1, <2>3 DEF ClientInv
    <2> QED
      BY <1>15, <2>2, <2>3, ClientMoves
  <1> QED
    BY <1>4, <1>5, <1>6, <1>7, <1>8, <1>9, <1>10, <1>11, <1>12, <1>13, <1>14,
       <1>15 DEF Move

\* Once the port is lost, kernel_bind fails in every version that wants it.
LEMMA PortStep == IInv /\ Move => PortInv'
  <1> SUFFICES ASSUME IInv, Move PROVE PortInv'
    OBVIOUS
  <1>1. PortInv
    BY DEF IInv
  <1>2. CASE (\E v \in Versions : Pick(v)) \/ LeakMove \/ CloseMove
    BY <1>2 DEF Pick, listener, LeakMove, SpawnLeaks, CloseMove, PortInv
  <1>3. CASE Insmod /\ UNCHANGED <<version, orphan>>
    BY <1>3 DEF Insmod, L!SockCreate, PortInv
  <1>4. CASE LoadMove
    BY <1>1, <1>4 DEF LoadMove, PortTaken, L!Bind, L!Listen, L!SpawnThread,
                      PortInv
  <1>5. CASE StopMove \/ ExitMove
    BY <1>1, <1>5 DEF StopMove, StopThread, L!StopThread, L!ThreadJoined,
                      ExitMove, ExitReleases, PortInv
  <1>6. CASE IdleMove \/ AcceptMove \/ ReleaseMove
    BY <1>1, <1>6 DEF IdleMove, Loop, AcceptError, L!Check,
                      L!AcceptInterrupted, L!AcceptFails, AcceptMove, L!Accept,
                      ReleaseMove, L!Release, Release, PortInv
  <1>7. CASE HandlerMove
    BY <1>1, <1>7, HandlerMoves DEF listener, PortInv
  <1>8. CASE ClientMove
    BY <1>1, <1>8, ClientMoves DEF PortInv
  <1> QED
    BY <1>2, <1>3, <1>4, <1>5, <1>6, <1>7, <1>8 DEF Move

\* The processes, the sockets and the clients keep their types.
LEMMA ProcessTypes ==
    ASSUME IInv, Move
    PROVE  /\ version' \in Versions
           /\ orphan' \in BOOLEAN
           /\ loader' \in L!LoaderStates
           /\ thread' \in L!ThreadStates
           /\ socks' \subseteq Conns \cup {LISTENER}
           /\ client' \in [Conns -> ClientStates]
  <1>1. /\ version \in Versions
        /\ orphan \in BOOLEAN
        /\ loader \in L!LoaderStates
        /\ thread \in L!ThreadStates
        /\ socks \subseteq Conns \cup {LISTENER}
        /\ client \in [Conns -> ClientStates]
        /\ PlaceInv
    BY DEF IInv, TypeOK, ClientStates
  <1>2. ASSUME L!close_socket
        PROVE  /\ socks' \subseteq Conns \cup {LISTENER}
               /\ client' \in [Conns -> ClientStates]
    BY <1>1, <1>2 DEF L!close_socket, ClientStates
  <1>3. CASE \E v \in Versions : Pick(v)
    BY <1>1, <1>3 DEF Pick, listener
  <1>4. CASE Insmod /\ UNCHANGED <<version, orphan>>
    BY <1>1, <1>4 DEF Insmod, L!SockCreate, L!LoaderStates
  <1>5. CASE LoadMove
    BY <1>1, <1>2, <1>5 DEF LoadMove, L!Bind, L!Listen, L!SpawnThread,
                            L!LoaderStates, L!ThreadStates
  <1>6. CASE LeakMove
    BY <1>1, <1>6 DEF LeakMove, SpawnLeaks, ClientStates, L!LoaderStates
  <1>7. CASE CloseMove
    BY <1>1, <1>2, <1>7 DEF CloseMove, L!LoaderStates
  <1>8. CASE StopMove
    BY <1>1, <1>8 DEF StopMove, StopThread, L!StopThread, L!ThreadJoined,
                      L!LoaderStates, L!ThreadStates
  <1>9. CASE ExitMove
    <2>1. client' = [c \in Conns |-> IF client[c] = "queued" THEN "reset"
                                                             ELSE client[c]]
      BY <1>9 DEF ExitMove, ExitReleases
    <2>2. client' \in [Conns -> ClientStates]
      BY <1>1, <2>1 DEF ClientStates
    <2> QED
      BY <1>1, <1>9, <2>2 DEF ExitMove, ExitReleases, L!LoaderStates
  <1>10. CASE IdleMove
    BY <1>1, <1>10 DEF IdleMove, Loop, AcceptError, L!Check,
                       L!AcceptInterrupted, L!AcceptFails, L!ThreadStates
  <1>11. CASE AcceptMove
    <2>1. Head(backlog) \in Conns
      BY <1>1, <1>11 DEF AcceptMove, L!Accept, PlaceInv
    <2>2. client' = [client EXCEPT ![Head(backlog)] = "accepted"]
      BY <1>11 DEF AcceptMove, L!Accept
    <2>3. client' \in [Conns -> ClientStates]
      BY <1>1, <2>1, <2>2 DEF ClientStates
    <2> QED
      BY <1>1, <1>11, <2>1, <2>3 DEF AcceptMove, L!Accept, L!ThreadStates
  <1>12. CASE ReleaseMove
    <2>1. client' = [client EXCEPT ![conn_from_client] = "released"]
      BY <1>12 DEF ReleaseMove, L!Release, Release
    <2>2. client' \in [Conns -> ClientStates]
      BY <1>1, <2>1 DEF ClientStates
    <2> QED
      BY <1>1, <1>12, <2>2 DEF ReleaseMove, L!Release, Release, L!ThreadStates
  <1>13. CASE HandlerMove
    BY <1>1, <1>13, HandlerMoves DEF listener
  <1>14. CASE ClientMove
    <2>1. client' \in [Conns -> ClientStates]
      BY <1>1, <1>14, ClientMoves DEF ClientStates
    <2> QED
      BY <1>1, <1>14, <2>1, ClientMoves
  <1> QED
    BY <1>3, <1>4, <1>5, <1>6, <1>7, <1>8, <1>9, <1>10, <1>11, <1>12, <1>13,
       <1>14 DEF Move

\* So do the pointers, the flag, the queue and the count.
LEMMA PointerTypes ==
    ASSUME IInv, Move
    PROVE  /\ listen_thread' \in {"null", "task", "err"}
           /\ should_stop' \in BOOLEAN
           /\ ks_sock' \in {NULL, LISTENER}
           /\ conn_from_client' \in Conns \cup {NULL}
           /\ backlog' \in Seq(Conns)
           /\ late' \in Nat
  <1>1. /\ listen_thread \in {"null", "task", "err"}
        /\ should_stop \in BOOLEAN
        /\ conn_from_client \in Conns \cup {NULL}
        /\ late \in Nat
        /\ PlaceInv
    BY DEF IInv, TypeOK
  <1>2. ks_sock' \in {NULL, LISTENER} /\ backlog' \in Seq(Conns)
    BY PlaceStep DEF PlaceInv
  <1>3. CASE (\E v \in Versions : Pick(v)) \/ HandlerMove
    BY <1>1, <1>2, <1>3, HandlerMoves DEF Pick, listener
  <1>4. CASE Insmod \/ LoadMove \/ LeakMove \/ CloseMove
    <2>1. 0 \in Nat
      OBVIOUS
    <2>2. CASE Insmod
      BY <1>1, <1>2, <2>2 DEF Insmod, L!SockCreate
    <2>3. CASE LoadMove
      BY <1>1, <1>2, <2>1, <2>3
      DEF LoadMove, L!Bind, L!Listen, L!SpawnThread
    <2>4. CASE LeakMove \/ CloseMove
      BY <1>1, <1>2, <2>4 DEF LeakMove, SpawnLeaks, CloseMove
    <2> QED
      BY <1>4, <2>2, <2>3, <2>4
  <1>5. CASE StopMove \/ ExitMove
    BY <1>1, <1>2, <1>5
    DEF StopMove, StopThread, L!StopThread, L!ThreadJoined, ExitMove,
        ExitReleases
  <1>6. CASE IdleMove \/ ReleaseMove
    BY <1>1, <1>2, <1>6
    DEF IdleMove, Loop, AcceptError, L!Check, L!AcceptInterrupted,
        L!AcceptFails, ReleaseMove, L!Release, Release
  <1>7. CASE AcceptMove
    <2>1. Head(backlog) \in Conns
      BY <1>1, <1>7 DEF AcceptMove, L!Accept, PlaceInv
    <2> QED
      BY <1>1, <1>2, <1>7, <2>1 DEF AcceptMove, L!Accept
  <1>8. CASE ClientMove
    BY <1>1, <1>2, <1>8 DEF ClientMove, Connect, L!Connect, Transmit, listener
  <1> QED
    BY <1>3, <1>4, <1>5, <1>6, <1>7, <1>8 DEF Move

-----------------------------------------------------------------------------
(* The heap                                                                *)

\* What Recv makes of the heap, whichever tokens it found.
LEMMA ParseHeap ==
    ASSUME fault = "none", heap \subseteq Buffers \cup Conns,
           Buffers \subseteq heap,
           conn_from_client \in Conns,
           request_target \in heap \cup {NULL},
           request_target \in Conns \cup {NULL},
           NEW token, Parse(token)
    PROVE  /\ heap' \subseteq Buffers \cup Conns
           /\ request_target' \in Conns \cup {NULL}
           /\ request_target' \in heap' \cup {NULL}
           /\ fault' \in {"none", "null dereference"}
           /\ fault' = "none" => heap' \subseteq Conns
  <1>1. NULL \notin Conns /\ Buffers \cap Conns = {}
    BY EarlyAssumption, PhasesAssumption
  <1>2. CASE request_target' = conn_from_client
    BY <1>1, <1>2 DEF Parse, Free
  <1>3. CASE UNCHANGED request_target
    BY <1>1, <1>3 DEF Parse, Free
  <1> QED
    BY <1>2, <1>3 DEF Parse

\* The handlers' variables keep their types, each place of the handlers hands
\* on only what the next may hold, and the target's block stays allocated.
LEMMA HandlerStep ==
    ASSUME IInv, fault = "none", Move
    PROVE  /\ handler' \in {"idle", "request", "recv", "respond", "send",
                            "return"}
           /\ heap' \subseteq Buffers \cup Conns
           /\ request_target' \in {NULL} \cup Conns
           /\ fault' \in {"none", "null dereference", "double release"}
           /\ HeapInv'
  <1>1. /\ handler \in {"idle", "request", "recv", "respond", "send", "return"}
        /\ heap \subseteq Buffers \cup Conns
        /\ request_target \in {NULL} \cup Conns
        /\ heap \subseteq Blocks \cup Conns
        /\ Blocks \subseteq heap
        /\ loader # "absent" => request_target \in heap \cup {NULL}
        /\ PlaceInv
    BY DEF IInv, TypeOK, HeapInv, StaleTargetIsAllocated
  <1>2. NULL \notin Conns /\ Buffers \cap Conns = {}
    BY EarlyAssumption, PhasesAssumption
  <1>3. ASSUME UNCHANGED <<handler, heap, request_target, fault>>,
               loader' # "absent" => loader # "absent"
        PROVE  /\ handler' \in {"idle", "request", "recv", "respond", "send",
                                "return"}
               /\ heap' \subseteq Buffers \cup Conns
               /\ request_target' \in {NULL} \cup Conns
               /\ fault' = "none"
               /\ HeapInv'
    BY <1>1, <1>3 DEF HeapInv, Blocks, OnlyTargetsSurvive,
                      StaleTargetIsAllocated
  <1>4. CASE (\E v \in Versions : Pick(v)) \/ LoadMove \/ LeakMove
             \/ CloseMove \/ StopMove \/ IdleMove
    <2>1. UNCHANGED <<handler, heap, request_target, fault>>
      BY <1>4 DEF Pick, LoadMove, LeakMove, SpawnLeaks, CloseMove, StopMove,
                  StopThread, IdleMove, Loop, AcceptError, work
    <2>2. loader' # "absent" => loader # "absent"
      BY <1>4 DEF Pick, listener, LoadMove, L!Bind, L!Listen, L!SpawnThread,
                  LeakMove, SpawnLeaks, CloseMove, StopMove, StopThread,
                  L!StopThread, L!ThreadJoined, IdleMove, Loop, AcceptError, L!Check,
                  L!AcceptInterrupted, L!AcceptFails
    <2> QED
      BY <1>3, <2>1, <2>2
  <1>5. CASE Insmod
    <2>1. UNCHANGED <<handler, heap, fault>> /\ request_target' = NULL
      BY <1>5 DEF Insmod
    <2> QED
      BY <1>1, <2>1 DEF HeapInv, Blocks, OnlyTargetsSurvive,
                        StaleTargetIsAllocated
  <1>6. CASE ExitMove
    <2>1. PICK string \in {NULL, request_target} : ExitReleases(string)
      BY <1>6 DEF ExitMove
    <2>2. loader = "stopped" /\ loader' = "absent"
          /\ UNCHANGED <<handler, request_target>>
      BY <2>1 DEF ExitReleases
    <2>3. heap' \subseteq heap
      BY <2>1 DEF ExitReleases
    <2>4. string \in heap \cup {NULL}
      BY <1>1, <2>1, <2>2
    <2>5. fault' \in {"none", "double release"}
      BY <2>1, <2>4 DEF ExitReleases
    <2>6. handler = "idle"
      BY <1>1, <2>2 DEF PlaceInv, Running
    <2> QED
      BY <1>1, <2>2, <2>3, <2>5, <2>6 DEF HeapInv, Blocks, OnlyTargetsSurvive,
                                    StaleTargetIsAllocated
  <1>7. CASE AcceptMove \/ ReleaseMove
    <2>1. UNCHANGED <<heap, request_target, fault, loader>>
      BY <1>7 DEF AcceptMove, L!Accept, Accept, ReleaseMove, L!Release,
                  Release, work
    <2>2. CASE UNCHANGED handler
      BY <1>3, <2>1, <2>2
    <2>3. CASE handler' \in {"request", "idle"} /\ handler \in {"idle", "return"}
      <3>1. heap \subseteq Conns
        BY <1>1, <2>3 DEF Blocks
      <3> QED
        BY <1>1, <2>1, <2>3, <3>1 DEF HeapInv, Blocks, OnlyTargetsSurvive,
                                      StaleTargetIsAllocated
    <2> QED
      BY <1>1, <1>7, <2>2, <2>3
      DEF AcceptMove, L!Accept, Accept, ReleaseMove, L!Release, Release, work,
          PlaceInv
  <1>8. CASE HandlerMove
    <2>1. loader # "absent" /\ UNCHANGED loader /\ conn_from_client \in Conns
      BY <1>1, <1>8, HandlerMoves DEF listener, PlaceInv, Running
    <2>2. ASSUME UNCHANGED <<request_target, fault>>,
                 heap' \subseteq heap \cup Buffers, heap \ heap' \subseteq Buffers,
                 handler' \in {"recv", "respond", "send", "return"},
                 Blocks' \subseteq heap', heap' \subseteq Blocks' \cup Conns
          PROVE  /\ handler' \in {"idle", "request", "recv", "respond", "send",
                                  "return"}
                 /\ heap' \subseteq Buffers \cup Conns
                 /\ request_target' \in {NULL} \cup Conns
                 /\ fault' = "none"
                 /\ HeapInv'
      <3>1. OnlyTargetsSurvive'
        BY <2>2 DEF OnlyTargetsSurvive, Blocks
      <3>2. StaleTargetIsAllocated'
        BY <1>1, <1>2, <2>1, <2>2 DEF StaleTargetIsAllocated
      <3> QED
        BY <1>1, <2>2, <3>1, <3>2 DEF HeapInv
    <2>3. CASE RequestAlloc \/ RequestAlloc4
      <3>1. heap \subseteq Conns
        BY <1>1, <2>3 DEF RequestAlloc, RequestAlloc4, Blocks
      <3>2. CASE handler' # handler
        <4>1. \/ handler' = "recv" /\ heap' = heap \cup Buffers
              \/ handler' = "respond" /\ heap' \subseteq heap
                 /\ heap \ heap' \subseteq Buffers
          BY <1>2, <2>3, <3>1, <3>2
          DEF RequestAlloc, RequestAlloc4, Free, Buffers
        <4>2. UNCHANGED <<request_target, fault>>
          BY <2>3, <3>2 DEF RequestAlloc, RequestAlloc4, Free
        <4> QED
          BY <2>2, <3>1, <4>1, <4>2 DEF Blocks
      <3>3. CASE handler' = handler
        <4>1. UNCHANGED <<heap, handler, request_target>>
              /\ fault' = "null dereference"
          BY <2>3, <3>3 DEF RequestAlloc, RequestAlloc4
        <4> QED
          BY <1>1, <2>1, <3>1, <4>1 DEF HeapInv, OnlyTargetsSurvive,
                                        StaleTargetIsAllocated
      <3> QED
        BY <3>2, <3>3
    <2>4. CASE Recv
      <3>1. PICK token \in Tokens(rx[conn_from_client]) : Parse(token)
        BY <2>4 DEF Recv
      <3>2. /\ heap' \subseteq Buffers \cup Conns
            /\ request_target' \in Conns \cup {NULL}
            /\ request_target' \in heap' \cup {NULL}
            /\ fault' \in {"none", "null dereference"}
            /\ fault' = "none" => heap' \subseteq Conns
        <4>1. Buffers \subseteq heap
          BY <1>1, <2>4 DEF Recv, Blocks
        <4> QED
          BY <1>1, <2>1, <3>1, <4>1, ParseHeap
      <3>3. handler' = "respond"
        BY <2>4 DEF Recv
      <3> QED
        BY <3>2, <3>3
        DEF HeapInv, Blocks, OnlyTargetsSurvive, StaleTargetIsAllocated
    <2>5. CASE RecvFails
      <3>1. heap \subseteq Buffers \cup Conns /\ heap' = heap \ Buffers
        BY <1>1, <2>5 DEF RecvFails, Free
      <3>2. Buffers \subseteq heap
        BY <1>1, <2>5 DEF RecvFails, Blocks
      <3>3. handler' = "respond" /\ UNCHANGED <<request_target, fault>>
        BY <2>5, <3>2 DEF RecvFails, Free
      <3> QED
        BY <2>2, <3>1, <3>3 DEF Blocks
    <2>6. CASE ResponseAlloc4 \/ ResponseAlloc45
      <3>1. heap \subseteq Conns
        BY <1>1, <2>6 DEF ResponseAlloc4, ResponseAlloc45, Blocks
      <3>2. CASE handler' # handler
        <4>1. \/ handler' = "send" /\ heap' = heap \cup {"message", "vec"}
              \/ handler' = "return" /\ heap' \subseteq heap
                 /\ heap \ heap' \subseteq Buffers
          BY <1>2, <2>6, <3>1, <3>2
          DEF ResponseAlloc4, ResponseAlloc45, Free, Buffers
        <4>2. UNCHANGED <<request_target, fault>>
          BY <2>6, <3>2 DEF ResponseAlloc4, ResponseAlloc45, Free
        <4>3. {"message", "vec"} \subseteq Buffers
          BY DEF Buffers
        <4> QED
          BY <2>2, <3>1, <4>1, <4>2, <4>3 DEF Blocks
      <3>3. CASE handler' = handler
        <4>1. UNCHANGED <<heap, handler, request_target>>
              /\ fault' = "null dereference"
          BY <2>6, <3>3 DEF ResponseAlloc4, ResponseAlloc45
        <4> QED
          BY <1>1, <2>1, <3>1, <4>1 DEF HeapInv, OnlyTargetsSurvive,
                                        StaleTargetIsAllocated
      <3> QED
        BY <3>2, <3>3
    <2>7. CASE Send
      <3>1. /\ heap \subseteq {"message", "vec"} \cup Conns
            /\ {"message", "vec"} \subseteq heap
        BY <1>1, <2>7 DEF Send, Blocks
      <3>2. /\ heap' = heap \ {"message", "vec"}
            /\ handler' = "return"
            /\ UNCHANGED <<request_target, fault>>
        BY <2>7, <3>1 DEF Send, Free
      <3>3. {"message", "vec"} \subseteq Buffers
        BY DEF Buffers
      <3> QED
        BY <2>2, <3>1, <3>2, <3>3 DEF Blocks
    <2> QED
      BY <1>8, <2>3, <2>4, <2>5, <2>6, <2>7 DEF HandlerMove
  <1>9. CASE ClientMove
    BY <1>3, <1>9, ClientMoves
  <1> QED
    BY <1>3, <1>4, <1>5, <1>6, <1>7, <1>8, <1>9 DEF Move

\* What strsep finds is a target, or none.
LEMMA TokenTarget ==
    ASSUME NEW a \in Arrival, NEW token \in Tokens(a)
    PROVE  token.target \in Targets \cup {NULL}
  <1>1. a.target \in Targets
    BY DEF Arrival
  <1>2. CASE a.kind = "line"
    BY <1>1, <1>2 DEF Tokens
  <1>3. CASE a.kind = "method"
    BY <1>3 DEF Tokens
  <1>4. CASE a.kind = "fragment"
    BY <1>4 DEF Tokens
  <1>5. CASE a.kind \notin {"line", "method", "fragment"}
    BY <1>5 DEF Tokens
  <1> QED
    BY <1>2, <1>3, <1>4, <1>5

\* What clients send, what is parsed of it and what they are sent.
LEMMA DataTypes ==
    ASSUME IInv, Move
    PROVE  /\ rx' \in [Conns -> Arrival]
           /\ target' \in Targets \cup {NULL}
           /\ reply' \in Replies
  <1>1. /\ rx \in [Conns -> Arrival]
        /\ target \in Targets \cup {NULL}
        /\ reply \in Replies
        /\ PlaceInv
    BY DEF IInv, TypeOK
  <1>2. NoReply \in Replies
    BY DEF NoReply, Replies
  <1>3. CASE UNCHANGED <<rx, target, reply>>
    BY <1>1, <1>3
  <1>4. CASE AcceptMove \/ ReleaseMove
    BY <1>1, <1>2, <1>4 DEF AcceptMove, Accept, ReleaseMove, Release, work
  <1>5. CASE Recv
    <2>1. conn_from_client \in Conns
      BY <1>1, <1>5 DEF Recv, PlaceInv
    <2>2. PICK token \in Tokens(rx[conn_from_client]) : Parse(token)
      BY <1>5 DEF Recv
    <2>3. token.target \in Targets \cup {NULL}
      <3>1. rx[conn_from_client] \in Arrival
        BY <1>1, <2>1
      <3> QED
        BY <3>1, TokenTarget
    <2>4. UNCHANGED target \/ target' = token.target
      BY <2>2 DEF Parse
    <2> QED
      BY <1>1, <1>5, <2>3, <2>4 DEF Recv
  <1>6. CASE Send
    <2>1. [status |-> 200, path |-> NULL, sent |-> "whole"] \in Replies
      BY DEF Replies
    <2> QED
      BY <1>1, <1>6, <2>1 DEF Send
  <1>7. CASE HandlerMove
    BY <1>3, <1>5, <1>6, <1>7
    DEF HandlerMove, RequestAlloc4, RequestAlloc, RecvFails, ResponseAlloc4,
        ResponseAlloc45
  <1>8. CASE ClientMove
    <2>1. ASSUME NEW c \in Conns, NEW a \in Arrivals, Transmit(c, a)
          PROVE  rx' \in [Conns -> Arrival] /\ UNCHANGED <<target, reply>>
      BY <1>1, <2>1, EarlyAssumption DEF Transmit
    <2> QED
      BY <1>1, <1>8, <2>1 DEF ClientMove, Connect, work
  <1>9. CASE (\E v \in Versions : Pick(v)) \/ Insmod \/ LoadMove \/ LeakMove
             \/ CloseMove \/ StopMove \/ ExitMove \/ IdleMove
    BY <1>3, <1>9
    DEF Pick, Insmod, LoadMove, LeakMove, SpawnLeaks, CloseMove, StopMove,
        StopThread, ExitMove, ExitReleases, IdleMove, Loop, AcceptError, work
  <1> QED
    BY <1>4, <1>7, <1>8, <1>9 DEF Move

\* Only Send sends.
LEMMA ReplyStep == IInv /\ Move => ReplyInv'
  <1> SUFFICES ASSUME IInv, Move PROVE ReplyInv'
    OBVIOUS
  <1>1. ReplyInv /\ PlaceInv
    BY DEF IInv
  <1>2. ASSUME UNCHANGED <<handler, reply>> PROVE ReplyInv'
    BY <1>1, <1>2 DEF ReplyInv
  <1>3. CASE HandlerMove
    <2>1. CASE Send
      BY <2>1 DEF Send, ReplyInv
    <2>2. CASE ~Send
      <3>1. UNCHANGED reply
        BY <1>3, <2>2 DEF HandlerMove, RequestAlloc4, RequestAlloc, Recv,
                          RecvFails, ResponseAlloc4, ResponseAlloc45
      <3>2. handler \in {"request", "recv", "respond"}
        BY <1>3, <2>2 DEF HandlerMove, RequestAlloc4, RequestAlloc, Recv,
                          RecvFails, ResponseAlloc4, ResponseAlloc45
      <3> QED
        BY <1>1, <3>1, <3>2 DEF ReplyInv
    <2> QED
      BY <2>1, <2>2
  <1>4. CASE AcceptMove \/ ReleaseMove
    BY <1>1, <1>4 DEF AcceptMove, Accept, ReleaseMove, Release, work, ReplyInv
  <1>5. CASE ClientMove
    BY <1>2, <1>5 DEF ClientMove, Connect, Transmit, work
  <1>6. CASE (\E v \in Versions : Pick(v)) \/ Insmod \/ LoadMove \/ LeakMove
             \/ CloseMove \/ StopMove \/ ExitMove \/ IdleMove
    BY <1>2, <1>6
    DEF Pick, Insmod, LoadMove, LeakMove, SpawnLeaks, CloseMove, StopMove,
        StopThread, ExitMove, ExitReleases, IdleMove, Loop, AcceptError, work
  <1> QED
    BY <1>3, <1>4, <1>5, <1>6 DEF Move

-----------------------------------------------------------------------------
(* The theorems                                                            *)

\* The invariant holds before any version was loaded.
LEMMA InitIInv == Init => IInv
  <1> SUFFICES ASSUME Init PROVE IInv
    OBVIOUS
  <1> USE DEF Init, ServerInit, L!Init
  <1>1. TypeOK
    <2>1. Silent \in Arrival
      BY DEF Silent, Arrival, Methods, Targets
    <2>2. NoReply \in Replies
      BY DEF NoReply, Replies
    <2>3. <<>> \in Seq(Conns)
      OBVIOUS
    <2> QED
      BY <2>1, <2>2, <2>3 DEF TypeOK, L!LoaderStates, L!ThreadStates
  <1>2. PlaceInv
    BY DEF PlaceInv, Running
  <1>3. SocketInv /\ ClientInv /\ PortInv
    BY DEF SocketInv, ClientInv, PortInv
  <1>4. HeapInv
    BY DEF HeapInv, Blocks, OnlyTargetsSurvive, StaleTargetIsAllocated
  <1>5. NoBadFree /\ ReplyInv
    BY DEF NoBadFree, ReplyInv
  <1> QED
    BY <1>1, <1>2, <1>3, <1>4, <1>5 DEF IInv

\* It does not depend on anything but the variables.
LEMMA StutterStep == IInv /\ (UNCHANGED vars) => IInv'
  <1> SUFFICES ASSUME IInv, UNCHANGED vars PROVE IInv'
    OBVIOUS
  <1>1. UNCHANGED <<conn_from_client, loader, thread, should_stop, ks_sock,
                    socks, backlog, client>>
    BY DEF vars, listener
  <1>2. UNCHANGED <<handler, heap, request_target, reply, fault, version,
                    orphan>>
    BY DEF vars, work
  <1>3. TypeOK'
    <2>1. UNCHANGED <<listen_thread, late, rx, target>>
      BY DEF vars, listener, work
    <2>2. TypeOK
      BY DEF IInv
    <2>3. /\ version' \in Versions
          /\ orphan' \in BOOLEAN
          /\ loader' \in L!LoaderStates
          /\ thread' \in L!ThreadStates
      BY <1>1, <1>2, <2>2 DEF TypeOK, Versions, L!LoaderStates, L!ThreadStates
    <2>4. /\ listen_thread' \in {"null", "task", "err"}
          /\ should_stop' \in BOOLEAN
          /\ ks_sock' \in {NULL, LISTENER}
          /\ conn_from_client' \in Conns \cup {NULL}
      BY <1>1, <2>1, <2>2 DEF TypeOK
    <2>5. /\ socks' \subseteq Conns \cup {LISTENER}
          /\ backlog' \in Seq(Conns)
          /\ client' \in [Conns -> {"idle", "queued", "accepted", "released",
                                   "reset", "stranded"}]
          /\ late' \in Nat
      BY <1>1, <2>1, <2>2 DEF TypeOK
    <2>6. /\ handler' \in {"idle", "request", "recv", "respond", "send",
                           "return"}
          /\ rx' \in [Conns -> Arrival]
          /\ heap' \subseteq Buffers \cup Conns
          /\ request_target' \in {NULL} \cup Conns
      BY <1>2, <2>1, <2>2 DEF TypeOK
    <2>7. /\ target' \in Targets \cup {NULL}
          /\ reply' \in Replies
          /\ fault' \in {"none", "null dereference", "double release",
                         "bad free"}
      BY <1>2, <2>1, <2>2 DEF TypeOK
    <2> QED
      BY <2>3, <2>4, <2>5, <2>6, <2>7 DEF TypeOK
  <1>4. PlaceInv' /\ SocketInv' /\ ClientInv' /\ PortInv'
    BY <1>1, <1>2 DEF IInv, PlaceInv, SocketInv, ClientInv, PortInv
  <1>5. HeapInv'
    BY <1>1, <1>2 DEF IInv, HeapInv, Blocks, OnlyTargetsSurvive,
                      StaleTargetIsAllocated
  <1>6. NoBadFree' /\ ReplyInv'
    BY <1>2 DEF IInv, NoBadFree, ReplyInv
  <1> QED
    BY <1>3, <1>4, <1>5, <1>6 DEF IInv

\* Types are kept.
LEMMA TypeStep == IInv /\ fault = "none" /\ Move => TypeOK'
  <1> SUFFICES ASSUME IInv, fault = "none", Move PROVE TypeOK'
    OBVIOUS
  <1>1. /\ version' \in Versions
        /\ orphan' \in BOOLEAN
        /\ loader' \in L!LoaderStates
        /\ thread' \in L!ThreadStates
        /\ socks' \subseteq Conns \cup {LISTENER}
        /\ client' \in [Conns -> ClientStates]
    BY ProcessTypes
  <1>2. fault' \in {"none", "null dereference", "double release", "bad free"}
    BY HandlerStep
  <1> QED
    BY <1>1, <1>2, PointerTypes, HandlerStep, DataTypes DEF TypeOK, ClientStates

\* Each kfree of a step is of blocks that are allocated.
LEMMA FreeStep == IInv /\ fault = "none" /\ Move => NoBadFree'
  BY HandlerStep DEF NoBadFree

\* No step of any version breaks the invariant.
THEOREM Invariance == Spec => []IInv
  <1>1. IInv /\ Next => IInv'
    BY Moves, TypeStep, PlaceStep, SocketStep, ClientStep, PortStep, HandlerStep,
       FreeStep, ReplyStep
    DEF IInv
  <1>2. IInv /\ [Next]_vars => IInv'
    BY <1>1, StutterStep
  <1> QED
    BY InitIInv, <1>2, PTL DEF Spec

\* Every variable keeps its type, in every version and any sequence of them.
THEOREM PhasesTypes == Spec => []TypeOK
  <1>1. IInv => TypeOK
    BY DEF IInv
  <1> QED
    BY Invariance, <1>1, PTL

\* Whichever kmalloc failed, whatever was sent and however many connections
\* ago request_target was set, kfree gets a block that is allocated.
THEOREM EveryFreeIsGood == Spec => []NoBadFree
  <1>1. IInv => NoBadFree
    BY DEF IInv
  <1> QED
    BY Invariance, <1>1, PTL

\* The loop releases exactly what it accepted, in every version that accepts.
THEOREM LoopReleases == Spec => []ThreadReleasesWhatItAccepts
  <1>1. IInv => ThreadReleasesWhatItAccepts
    BY EarlyAssumption
    DEF IInv, PlaceInv, SocketInv, ThreadReleasesWhatItAccepts
  <1> QED
    BY Invariance, <1>1, PTL

\* Between two connections only request targets are allocated.
THEOREM OnlyTargetsLeft == Spec => []OnlyTargetsSurvive
  <1>1. IInv => OnlyTargetsSurvive
    BY DEF IInv, HeapInv
  <1> QED
    BY Invariance, <1>1, PTL

\* The target a message without one is handled with is allocated memory.
THEOREM StaleTargetIsSafe == Spec => []StaleTargetIsAllocated
  <1>1. IInv => StaleTargetIsAllocated
    BY DEF IInv, HeapInv
  <1> QED
    BY Invariance, <1>1, PTL

\* Every version that is out left no thread, no socket and no client behind.
THEOREM UnloadingCleansUp == Spec => []UnloadedIsClean
  <1>1. IInv => UnloadedIsClean
    BY DEF IInv, TypeOK, PlaceInv, SocketInv, ClientInv, UnloadedIsClean,
           Running, L!ThreadStates
  <1> QED
    BY Invariance, <1>1, PTL

\* Nobody is served on port 80 any more once its socket was lost.
THEOREM LostPortStaysLost == Spec => []LostPortIsNotServed
  <1>1. IInv => LostPortIsNotServed
    BY DEF IInv, PlaceInv, ClientInv, PortInv, LostPortIsNotServed, Running
  <1> QED
    BY Invariance, <1>1, PTL

-----------------------------------------------------------------------------
(* The service                                                             *)

\* What EarlyServerProofs asks of a state.
LEMMA InItsPlace == IInv => InPlace
  <1> SUFFICES ASSUME IInv PROVE InPlace
    OBVIOUS
  <1>1. client \in [Conns -> ClientStates]
    BY DEF IInv, TypeOK, ClientStates
  <1> QED
    BY <1>1 DEF IInv, PlaceInv, ClientInv, InPlace

\* A step that does not lose the socket is one of the service or not seen.
LEMMA MoveRefines ==
    ASSUME IInv, Move, ~LeakMove PROVE [Service!Next]_(Service!svars)
  <1>1. InPlace /\ PlaceInv
    BY InItsPlace DEF IInv
  <1>2. CASE \E v \in Versions : Pick(v)
    <2>1. UNCHANGED seen
      BY <1>2 DEF Pick, listener, work, seen, Up, Serving, Code, Stage
    <2> QED
      BY <2>1, Unseen
  <1>3. CASE Insmod \/ LoadMove
    BY <1>1, <1>3, LoadRefines DEF LoadMove, Load
  <1>4. CASE CloseMove
    BY <1>1, <1>4, CloseRefines DEF CloseMove, L!close_socket, work
  <1>5. CASE StopMove \/ ExitMove
    BY <1>1, <1>5, UnloadRefines DEF StopMove, ExitMove
  <1>6. CASE IdleMove
    BY <1>6, IdleRefines DEF IdleMove
  <1>7. CASE AcceptMove
    <2>1. L!Accept
      BY <1>7 DEF AcceptMove
    <2>2. handler = "idle"
      BY <1>1, <2>1 DEF L!Accept, PlaceInv
    <2>3. handler' = "idle" \/ reply' = NoReply
      BY <1>7, <2>2 DEF AcceptMove, Accept, work
    <2> QED
      BY <1>1, <2>1, <2>3, AcceptRefines
  <1>8. CASE ReleaseMove
    <2>1. thread = "serve" /\ thread' = "check" /\ handler' = "idle"
      BY <1>1, <1>8 DEF ReleaseMove, L!Release, Release, work, PlaceInv
    <2>2. /\ client' = [client EXCEPT ![conn_from_client] = "released"]
          /\ UNCHANGED <<loader, backlog>>
      BY <1>8 DEF ReleaseMove, L!Release, Release
    <2> QED
      BY <1>1, <2>1, <2>2, ReleaseRefines
  <1>9. CASE HandlerMove
    <2>1. UNCHANGED listener /\ handler # "idle" /\ handler' # "idle"
      BY <1>9, HandlerMoves
    <2>2. \/ UNCHANGED reply.status
          \/ reply.status = 0 /\ reply'.status \in {200, 404}
      <3>1. CASE Send
        <4>1. reply = NoReply
          BY <3>1 DEF Send, IInv, ReplyInv
        <4>2. \/ reply' = [status |-> 200, path |-> NULL, sent |-> "whole"]
              \/ reply' = reply
          BY <3>1 DEF Send
        <4> QED
          BY <4>1, <4>2 DEF NoReply
      <3>2. CASE ~Send
        BY <1>9, <3>2 DEF HandlerMove, RequestAlloc4, RequestAlloc, Recv,
                          RecvFails, ResponseAlloc4, ResponseAlloc45
      <3> QED
        BY <3>1, <3>2
    <2> QED
      BY <1>1, <2>1, <2>2, HandlerRefines
  <1>10. CASE ClientMove
    BY <1>1, <1>10, ClientRefines DEF ClientMove
  <1> QED
    BY <1>2, <1>3, <1>4, <1>5, <1>6, <1>7, <1>8, <1>9, <1>10 DEF Move

\* The socket is lost once: afterwards the port is taken.
LEMMA LostOnce == IInv /\ LeakMove => orphan' # orphan
  <1> SUFFICES ASSUME IInv, LeakMove PROVE orphan' # orphan
    OBVIOUS
  <1>1. loader = "listening" /\ version # "phase2" /\ orphan' = TRUE
    BY DEF LeakMove, SpawnLeaks
  <1>2. ~orphan
    BY <1>1 DEF IInv, PortInv
  <1>3. orphan \in BOOLEAN
    BY DEF IInv, TypeOK
  <1> QED
    BY <1>1, <1>2, <1>3

\* Any sequence of the versions is the service, but where a socket is lost.
LEMMA StepRefines ==
    IInv /\ [Next]_vars =>
        [Service!Next \/ orphan' # orphan]_(Service!svars)
  <1>1. ASSUME UNCHANGED vars PROVE UNCHANGED Service!svars
    <2>1. UNCHANGED seen
      BY <1>1 DEF vars, listener, work, seen, Up, Serving, Code, Stage
    <2> QED
      BY <2>1, Unseen
  <1> QED
    BY <1>1, Moves, MoveRefines, LostOnce

\* Whatever versions were loaded, in whatever order, the service goes on by the
\* rules of HttpService; a lost socket is the only exception.
THEOREM ServiceUnlessLost == Spec => ServesUnlessLost
  <1>1. Init => Service!Init
    BY InitRefines DEF Init
  <1> QED
    BY <1>1, StepRefines, Invariance, PTL DEF Spec, ServesUnlessLost

\* Losing the socket loses the clients in its queue, and nobody else.
LEMMA LeakKeepsOrder == IInv /\ LeakMove => SP!IInv'
  <1> SUFFICES ASSUME IInv, LeakMove PROVE SP!IInv'
    OBVIOUS
  <1>1. /\ loader = "listening" /\ loader' = "absent"
        /\ backlog' = <<>>
        /\ client' = [c \in Conns |-> IF client[c] = "queued" THEN "stranded"
                                                              ELSE client[c]]
        /\ UNCHANGED <<thread, handler>>
    BY DEF LeakMove, SpawnLeaks, work
  <1>2. thread # "serve" /\ handler = "idle"
    BY <1>1 DEF IInv, PlaceInv, Running
  <1>3. Serving' = NULL /\ Code' = 0 /\ Up' = FALSE
    BY <1>1, <1>2 DEF Serving, Code, Up
  <1>4. \A c \in Conns : client'[c] \in ClientStates \ {"queued", "accepted"}
    BY <1>1, <1>2 DEF IInv, TypeOK, ClientInv, ClientStates
  <1>5. \A c \in Conns : Stage'[c] \notin {"waiting", "served"}
    BY <1>4 DEF Stage, StageOf, ClientStates
  <1>6. DOMAIN Stage' = Conns /\ Stage' = [c \in Conns |-> Stage'[c]]
    BY DEF Stage
  <1>7. <<>> \in Seq(Conns) /\ DOMAIN <<>> = {}
    OBVIOUS
  <1>8. NULL \notin Conns
    BY EarlyAssumption
  <1>9. SP!Orderly'
    <2>1. backlog' \in Seq(Conns) /\ DOMAIN backlog' = {}
      BY <1>1, <1>7
    <2> QED
      BY <1>1, <1>3, <1>5, <1>8, <2>1 DEF SP!Orderly
  <1> QED
    BY <1>6, <1>9 DEF SP!IInv

\* No client is lost and none is in two places, whatever version it meets.
THEOREM ClientsAreInOrder == Spec => []ClientsInOrder
  <1>1. Init => SP!IInv
    BY InitRefines, SameService, EarlyAssumption, SP!InitIInv DEF Init
  <1>2. IInv /\ SP!IInv /\ [Next]_vars => SP!IInv'
    <2> SUFFICES ASSUME IInv, SP!IInv, [Next]_vars PROVE SP!IInv'
      OBVIOUS
    <2>1. CASE LeakMove
      BY <2>1, LeakKeepsOrder
    <2>2. CASE ~LeakMove
      <3>1. [Service!Next]_(Service!svars)
        <4>1. CASE UNCHANGED vars
          <5>1. UNCHANGED seen
            BY <4>1 DEF vars, listener, work, seen, Up, Serving, Code, Stage
          <5> QED
            BY <5>1, Unseen
        <4> QED
          BY <2>2, <4>1, Moves, MoveRefines
      <3>2. [SP!Next]_(SP!svars)
        BY <3>1, SameService
      <3> QED
        BY <3>2, EarlyAssumption, SP!StepIInv
    <2> QED
      BY <2>1, <2>2
  <1>3. SP!IInv => ClientsInOrder
    BY SameService DEF SP!IInv
  <1> QED
    BY <1>1, <1>2, <1>3, Invariance, PTL DEF Spec

-----------------------------------------------------------------------------
(* Progress of rmmod                                                       *)

\* The handlers go on in one direction, unless their last step broke something.
LEMMA HandlersGoOn ==
    HandlerMove => UNCHANGED handler \/ handler' \in Successors
  BY DEF HandlerMove, RequestAlloc4, RequestAlloc, Recv, RecvFails,
         ResponseAlloc4, ResponseAlloc45, Send, Successors

\* From the stop request to its end the thread of any version has at most 11
\* steps, polls not counted, whatever clients and failing calls do meanwhile.
THEOREM StopIsNear == Spec => StopComesNearer
  <1> DEFINE Nearer == loader = "stopping" /\ loader' = "stopping" =>
                         StepsToStop' < StepsToStop
  <1>1. ASSUME IInv, Move PROVE [Nearer]_<<loader, thread, handler>>
    <2>1. InPlace /\ PlaceInv
      BY <1>1, InItsPlace DEF IInv
    <2>2. CASE Insmod \/ LoadMove \/ LeakMove \/ CloseMove \/ StopMove \/ ExitMove
      <3>1. ~(loader = "stopping" /\ loader' = "stopping")
        BY <2>2 DEF Insmod, LoadMove, LeakMove, SpawnLeaks, CloseMove, StopMove,
                    StopThread, ExitMove, ExitReleases, L!SockCreate, L!Bind,
                    L!Listen, L!SpawnThread, L!StopThread, L!ThreadJoined
      <3> QED
        BY <3>1
    <2>3. CASE IdleMove
      BY <2>1, <2>3, LoopIsNearer DEF IdleMove
    <2>4. CASE AcceptMove
      <3>1. L!Accept
        BY <2>4 DEF AcceptMove
      <3>2. handler = "idle"
        BY <2>1, <3>1 DEF L!Accept, PlaceInv
      <3>3. handler' \in {"idle", "request"}
        BY <2>4, <3>2 DEF AcceptMove, Accept, work
      <3> QED
        BY <3>1, <3>3, AcceptIsNearer
    <2>5. CASE ReleaseMove
      <3>1. thread = "serve" /\ thread' = "check"
            /\ handler \in {"idle", "return"}
        BY <2>1, <2>5 DEF ReleaseMove, L!Release, Release, PlaceInv
      <3> QED
        BY <3>1, ReleaseIsNearer
    <2>6. CASE HandlerMove
      <3>1. thread = "serve" /\ UNCHANGED <<loader, thread>>
        BY <2>1, <2>6, HandlerMoves DEF listener, PlaceInv
      <3> QED
        BY <2>6, <3>1, HandlersGoOn, HandlerIsNearer
    <2>7. CASE (\E v \in Versions : Pick(v)) \/ ClientMove
      BY <2>7, ClientMoves DEF Pick, listener, work
    <2> QED
      BY <1>1, <2>2, <2>3, <2>4, <2>5, <2>6, <2>7 DEF Move
  <1>2. (UNCHANGED vars) => UNCHANGED <<loader, thread, handler>>
    BY DEF vars, listener, work
  <1> QED
    BY <1>1, <1>2, Moves, Invariance, PTL DEF Spec, StopComesNearer

===============================================================================
