--------------------------- MODULE EarlyServerProofs ---------------------------
(***************************************************************************)
(* What the proofs about phase5.c and about the versions before it share:  *)
(* how a step of EarlyServer is seen by a client, and how near it brings   *)
(* the thread to its end.  A version is an order of such steps, and its    *)
(* own proof has only to show that it takes them at InPlace.               *)
(***************************************************************************)
EXTENDS EarlyServer, TLAPS

Running == {"check", "accept", "serve", "exited"}

ClientStates == {"idle", "queued", "accepted", "released", "reset", "stranded"}

\* The thread runs from loaded to stopping, handles its connection only at
\* "serve", and nobody waits before the socket listens.
InPlace ==
    /\ loader \in {"loaded", "stopping"} <=> thread \in Running
    /\ loader = "stopping" => should_stop
    /\ thread = "serve" => conn_from_client \in Conns
    /\ handler # "idle" => thread = "serve"
    /\ backlog \in Seq(Conns)
    /\ client \in [Conns -> ClientStates]
    /\ loader \in {"absent", "created", "bound"} =>
           backlog = <<>> /\ \A c \in Conns : client[c] # "queued"

-----------------------------------------------------------------------------
(* What clients see                                                        *)

Up == loader \in {"listening", "loaded", "stopping", "stopped"}

Serving == IF thread = "serve" THEN conn_from_client ELSE NULL

\* The status of the connection being served.
Code == IF handler = "idle" THEN 0 ELSE reply.status

\* What a client sees of the state of its connection.
StageOf(state) ==
    CASE state = "idle"     -> "away"
      [] state = "queued"   -> "waiting"
      [] state = "accepted" -> "served"
      [] state = "released" -> "closed"
      [] state = "reset"    -> "turned away"
      [] state = "stranded" -> "stranded"

Stage == [c \in Conns |-> StageOf(client[c])]

seen == <<Up, backlog, Serving, Code, Stage>>

\* HttpServiceProofs speaks of HttpService as it is seen here.
SP == INSTANCE HttpServiceProofs WITH
        up <- Up, queue <- backlog, serving <- Serving,
        code <- Code, stage <- Stage

\* The names above are the ones HttpService is instantiated with, so that what
\* is proved of the service is proved of the module.
LEMMA SameService ==
    /\ Service!Init <=> SP!Init
    /\ Service!Next <=> SP!Next
    /\ [Service!Next]_(Service!svars) <=> [SP!Next]_(SP!svars)
    /\ SP!Orderly => ClientsInOrder
  <1>1. Service!Init <=> SP!Init
    BY DEF Service!Init, SP!Init, Up, Serving, Code, Stage, StageOf
  <1>2. Service!Next <=> SP!Next
    BY DEF Service!Next, Service!Start, Service!Wait, Service!Serve,
           Service!Answer, Service!Close, Service!Stop, Service!Codes, SP!Next,
           SP!Start, SP!Wait, SP!Serve, SP!Answer, SP!Close, SP!Stop, SP!Codes,
           Up, Serving, Code, Stage, StageOf
  <1>3. (UNCHANGED Service!svars) <=> (UNCHANGED SP!svars)
    BY DEF Service!svars, SP!svars, Up, Serving, Code, Stage, StageOf
  <1>4. SP!Orderly => ClientsInOrder
    BY DEF ClientsInOrder, Service!Orderly, SP!Orderly, Up, Serving, Code,
           Stage, StageOf
  <1> QED
    BY <1>1, <1>2, <1>3, <1>4

\* A step that shows in none of the five is no step of the service.
LEMMA Unseen == (UNCHANGED seen) => UNCHANGED Service!svars
  BY DEF seen, Service!svars, Up, Serving, Code, Stage, StageOf

\* The service is down, and has no clients, before the module is loaded.
LEMMA InitRefines == ServerInit => Service!Init
  <1> SUFFICES ASSUME ServerInit PROVE Service!Init
    OBVIOUS
  <1>1. /\ loader = "absent" /\ thread = "none" /\ backlog = <<>>
        /\ client = [c \in Conns |-> "idle"]
    BY DEF ServerInit, L!Init
  <1>2. handler = "idle"
    BY DEF ServerInit
  <1> QED
    BY <1>1, <1>2 DEF Service!Init

\* A client whose connection takes a step is seen to take one, the others not.
LEMMA StageStep ==
    ASSUME NEW c \in Conns, NEW state,
           client \in [Conns -> ClientStates],
           client' = [client EXCEPT ![c] = state]
    PROVE  Stage' = [Stage EXCEPT ![c] = StageOf(state)]
  BY DEF Stage

\* The socket goes: those who wait are turned away.
LEMMA CloseStep ==
    ASSUME client \in [Conns -> ClientStates],
           client' = [c \in Conns |-> IF client[c] = "queued" THEN "reset"
                                                              ELSE client[c]]
    PROVE  Stage' = [c \in Conns |-> IF Stage[c] = "waiting" THEN "turned away"
                                                            ELSE Stage[c]]
  BY DEF Stage, StageOf, ClientStates

-----------------------------------------------------------------------------
(* Loading and unloading                                                   *)

\* The listening socket is released where there is no thread: the service ends.
LEMMA CloseRefines ==
    ASSUME InPlace, loader \in {"listening", "stopped"}, loader' = "absent",
           backlog' = <<>>,
           client' = [c \in Conns |-> IF client[c] = "queued" THEN "reset"
                                                              ELSE client[c]],
           UNCHANGED <<thread, handler, reply>>
    PROVE  Service!Next
  <1>1. Serving = NULL /\ Serving' = NULL
    BY DEF InPlace, Running, Serving
  <1>2. UNCHANGED Code
    BY DEF Code
  <1>3. Stage' = [c \in Conns |-> IF Stage[c] = "waiting" THEN "turned away"
                                                         ELSE Stage[c]]
    BY CloseStep DEF InPlace
  <1>4. Up /\ Up' = FALSE
    BY DEF Up
  <1>5. Service!Stop
    BY <1>1, <1>2, <1>3, <1>4, Zenon
    DEF Service!Stop, Stage, StageOf, Up, Serving, Code
  <1> QED
    BY <1>5 DEF Service!Next

\* Loading starts the service, unless it fails.
LEMMA LoadRefines ==
    ASSUME InPlace, Insmod \/ Load PROVE [Service!Next]_(Service!svars)
  <1>1. UNCHANGED <<handler, reply>>
    BY DEF Insmod, Load, work
  <1>2. Serving = NULL /\ Serving' = NULL
    <2>1. thread # "serve"
      BY DEF InPlace, Running, Insmod, Load, L!SockCreate, L!Bind, L!Listen,
             L!SpawnThread, L!SpawnFails
    <2>2. thread' # "serve"
      BY <2>1 DEF Insmod, Load, L!SockCreate, L!Bind, L!Listen, L!SpawnThread,
                  L!SpawnFails
    <2> QED
      BY <2>1, <2>2 DEF Serving
  <1>3. CASE UNCHANGED <<Up, backlog, client>>
    <2>1. UNCHANGED seen
      BY <1>1, <1>2, <1>3 DEF seen, Code, Stage
    <2> QED
      BY <2>1, Unseen
  <1>4. CASE Insmod
    BY <1>3, <1>4 DEF Insmod, L!SockCreate, Up
  <1>5. CASE L!Bind \/ L!Listen
    <2>1. CASE loader' = "listening"
      <3>1. loader = "bound" /\ UNCHANGED <<backlog, client>>
        BY <1>5, <2>1 DEF L!Bind, L!Listen
      <3>2. UNCHANGED <<Code, Stage>>
        BY <1>1, <3>1 DEF Code, Stage
      <3>3. Service!Start
        BY <1>2, <2>1, <3>1, <3>2
        DEF Service!Start, Serving, Code, Stage, StageOf
      <3> QED
        BY <3>3 DEF Service!Next
    <2>2. CASE loader' # "listening"
      <3>1. loader \in {"created", "bound"} /\ loader' \in {"absent", "bound"}
        BY <1>5, <2>2 DEF L!Bind, L!Listen
      <3>2. /\ backlog = <<>> /\ \A c \in Conns : client[c] # "queued"
            /\ client \in [Conns -> ClientStates]
        BY <3>1 DEF InPlace
      <3>3. UNCHANGED <<backlog, client>>
        BY <1>5, <3>2 DEF L!Bind, L!Listen, L!close_socket
      <3>4. UNCHANGED Up
        BY <3>1 DEF Up
      <3> QED
        BY <1>3, <3>3, <3>4
    <2> QED
      BY <2>1, <2>2
  <1>6. CASE L!SpawnThread
    BY <1>3, <1>6 DEF L!SpawnThread, Up
  <1>7. CASE L!SpawnFails
    BY <1>1, <1>7, CloseRefines DEF L!SpawnFails, L!close_socket
  <1> QED
    BY <1>4, <1>5, <1>6, <1>7 DEF Load

\* Unloading stops it, when the thread has gone.
LEMMA UnloadRefines ==
    ASSUME InPlace, StopThread \/ \E string : ExitReleases(string)
    PROVE  [Service!Next]_(Service!svars)
  <1>1. CASE StopThread
    <2>1. UNCHANGED <<backlog, client, handler, reply, Up, Serving>>
      BY <1>1 DEF StopThread, L!StopThread, L!ThreadJoined, work, Up, Serving
    <2>2. UNCHANGED seen
      BY <2>1 DEF seen, Code, Stage
    <2> QED
      BY <2>2, Unseen
  <1>2. ASSUME NEW string, ExitReleases(string) PROVE Service!Next
    BY <1>2, CloseRefines DEF ExitReleases
  <1> QED
    BY <1>1, <1>2

-----------------------------------------------------------------------------
(* The thread and its clients                                              *)

\* The loop's tests and a failing kernel_accept do not show.
LEMMA IdleRefines == ASSUME Loop \/ AcceptError PROVE UNCHANGED Service!svars
  <1>1. UNCHANGED <<loader, backlog, client, handler, reply>>
    BY DEF Loop, AcceptError, L!Check, L!AcceptInterrupted, L!AcceptFails, work
  <1>2. thread # "serve" /\ thread' # "serve"
    BY DEF Loop, AcceptError, L!Check, L!AcceptInterrupted, L!AcceptFails
  <1>3. UNCHANGED seen
    BY <1>1, <1>2 DEF seen, Stage, Up, Serving, Code
  <1> QED
    BY <1>3, Unseen

\* The loop takes the client that has waited longest.
LEMMA AcceptRefines ==
    ASSUME InPlace, L!Accept, handler' = "idle" \/ reply' = NoReply
    PROVE  Service!Next
  <1> DEFINE c == Head(backlog)
  <1>1. thread = "accept" /\ backlog # <<>> /\ c \in Conns
    BY DEF InPlace, L!Accept
  <1>2. Up /\ Serving = NULL
    BY <1>1 DEF InPlace, Running, Up, Serving
  <1>3. Stage' = [Stage EXCEPT ![c] = "served"]
    <2>1. client' = [client EXCEPT ![c] = "accepted"]
      BY DEF L!Accept
    <2>2. StageOf("accepted") = "served"
      BY DEF StageOf
    <2> QED
      BY <1>1, <2>1, <2>2, StageStep DEF InPlace
  <1>4. Serving' = c /\ backlog' = Tail(backlog) /\ UNCHANGED loader
    BY DEF L!Accept, Serving
  <1>5. Code = 0 /\ Code' = 0
    BY <1>1 DEF InPlace, Code, NoReply
  <1>6. Service!Serve
    BY <1>1, <1>2, <1>3, <1>4, <1>5
    DEF Service!Serve, Up, Serving, Code, Stage, StageOf
  <1> QED
    BY <1>6 DEF Service!Next

\* The loop closes the connection it served.
LEMMA ReleaseRefines ==
    ASSUME InPlace, thread = "serve", thread' = "check", handler' = "idle",
           client' = [client EXCEPT ![conn_from_client] = "released"],
           UNCHANGED <<loader, backlog>>
    PROVE  Service!Next
  <1> DEFINE c == conn_from_client
  <1>1. c \in Conns /\ c # NULL
    BY EarlyAssumption DEF InPlace
  <1>2. Stage' = [Stage EXCEPT ![c] = "closed"]
    <2>1. StageOf("released") = "closed"
      BY DEF StageOf
    <2> QED
      BY <1>1, <2>1, StageStep DEF InPlace
  <1>3. Serving = c /\ Serving' = NULL /\ Code' = 0
    BY DEF Serving, Code
  <1>4. Service!Close
    BY <1>1, <1>2, <1>3 DEF Service!Close, Up, Serving, Code, Stage, StageOf
  <1> QED
    BY <1>4 DEF Service!Next

\* Of the handlers' steps only the one that sends a status shows.
LEMMA HandlerRefines ==
    ASSUME InPlace, UNCHANGED listener, handler # "idle", handler' # "idle",
           \/ UNCHANGED reply.status
           \/ reply.status = 0 /\ reply'.status \in {200, 404}
    PROVE  [Service!Next]_(Service!svars)
  <1>1. UNCHANGED <<loader, thread, conn_from_client, backlog, client>>
    BY DEF listener
  <1>2. CASE UNCHANGED reply.status
    <2>1. UNCHANGED seen
      BY <1>1, <1>2 DEF seen, Stage, Up, Serving, Code
    <2> QED
      BY <2>1, Unseen
  <1>3. CASE reply.status = 0 /\ reply'.status \in {200, 404}
    <2>1. Serving # NULL
      BY EarlyAssumption DEF InPlace, Serving
    <2>2. UNCHANGED <<Up, backlog, Serving, Stage>>
      BY <1>1 DEF Up, Serving, Stage
    <2>3. Code = 0 /\ Code' \in Service!Codes
      BY <1>3 DEF Code, Service!Codes
    <2>4. Service!Answer
      BY <2>1, <2>2, <2>3 DEF Service!Answer, Up, Serving, Code, Stage, StageOf
    <2> QED
      BY <2>4 DEF Service!Next
  <1> QED
    BY <1>2, <1>3

\* A client that connects starts to wait; what it sends shows nowhere yet.
LEMMA ClientRefines ==
    ASSUME InPlace, NEW c \in Conns,
           Connect(c) \/ \E a \in Arrivals : Transmit(c, a)
    PROVE  [Service!Next]_(Service!svars)
  <1>1. CASE Connect(c)
    <2>1. /\ client[c] = "idle"
          /\ Up
          /\ backlog' = Append(backlog, c)
          /\ client' = [client EXCEPT ![c] = "queued"]
          /\ UNCHANGED <<loader, thread, conn_from_client, handler, reply>>
      BY <1>1 DEF Connect, L!Connect, Up, work
    <2>2. Stage' = [Stage EXCEPT ![c] = "waiting"]
      <3>1. StageOf("queued") = "waiting"
        BY DEF StageOf
      <3>2. client \in [Conns -> ClientStates]
        BY DEF InPlace
      <3>3. Stage' = [Stage EXCEPT ![c] = StageOf("queued")]
        BY <2>1, <3>2, StageStep
      <3> QED
        BY <3>1, <3>3
    <2>3. Stage[c] = "away"
      BY <2>1 DEF Stage, StageOf
    <2>4. UNCHANGED <<Up, Serving, Code>>
      BY <2>1 DEF Up, Serving, Code
    <2>5. SP!Wait(c)
      BY <2>1, <2>2, <2>3, <2>4 DEF SP!Wait
    <2>6. Service!Wait(c)
      BY <2>5 DEF Service!Wait, SP!Wait, Up, Serving, Code, Stage, StageOf
    <2> QED
      BY <2>6 DEF Service!Next
  <1>2. ASSUME NEW a \in Arrivals, Transmit(c, a) PROVE UNCHANGED Service!svars
    <2>1. UNCHANGED seen
      BY <1>2 DEF Transmit, listener, seen, Up, Serving, Code, Stage
    <2> QED
      BY <2>1, Unseen
  <1> QED
    BY <1>1, <1>2

-----------------------------------------------------------------------------
(* How near the thread is to its end                                       *)

\* Where a handler may be after a step of its own.
Successors ==
    CASE handler = "request"     -> {"recv", "respond"}
      [] handler = "recv"        -> {"respond"}
      [] handler = "respond"     -> {"header", "send", "return"}
      [] handler = "header"      -> {"message", "return"}
      [] handler = "message"     -> {"send_header", "return"}
      [] handler = "send_header" -> {"send_body", "return"}
      [] handler = "send_body"   -> {"return"}
      [] handler = "send"        -> {"return"}
      [] OTHER                   -> {}

\* The handlers go through their places in one order, whatever fails.
LEMMA HandlerIsNearer ==
    ASSUME thread = "serve", UNCHANGED thread, handler' \in Successors
    PROVE  StepsToStop' < StepsToStop
  BY DEF Successors, StepsToStop

\* Told to stop, the loop ends at its next test.
LEMMA LoopIsNearer ==
    ASSUME InPlace, loader = "stopping", Loop \/ AcceptError
    PROVE  StepsToStop' < StepsToStop
  <1>1. should_stop
    BY DEF InPlace
  <1>2. \/ thread = "check" /\ thread' = "exited"
        \/ thread = "accept" /\ thread' = "check"
    BY <1>1 DEF Loop, AcceptError, L!Check, L!AcceptInterrupted, L!AcceptFails
  <1> QED
    BY <1>2 DEF StepsToStop

\* It may still accept, but then that connection is all that is before it.
LEMMA AcceptIsNearer ==
    ASSUME L!Accept, handler' \in {"idle", "request"}
    PROVE  StepsToStop' < StepsToStop
  <1>1. thread = "accept" /\ thread' = "serve"
    BY DEF L!Accept
  <1> QED
    BY <1>1 DEF StepsToStop

\* With the connection released there is but the test left.
LEMMA ReleaseIsNearer ==
    ASSUME thread = "serve", thread' = "check", handler \in {"idle", "return"}
    PROVE  StepsToStop' < StepsToStop
  BY DEF StepsToStop

=============================================================================
