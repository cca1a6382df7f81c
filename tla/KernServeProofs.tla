--------------------------- MODULE KernServeProofs ---------------------------
(***************************************************************************)
(* kern-serve.c whole, for any clients, files and backlog: what is proved  *)
(* of the lifecycle and of the handler apart holds of the two together,    *)
(* and together they are the service HttpService describes.                *)
(*                                                                         *)
(* A step of KernServe is a step of KsListener, or leaves its variables    *)
(* alone, and likewise of KsHandler; so the invariants found for each in   *)
(* KsListenerProofs and KsHandlerProofs are invariants of the composition. *)
(* They share conn_from_client, and that is what ties them together: it is *)
(* null exactly when the thread is not at "serve" (the listener's          *)
(* invariant) and exactly when the handler is idle (the handler's).        *)
(***************************************************************************)
EXTENDS KernServe, TLAPS

LP == INSTANCE KsListenerProofs
HP == INSTANCE KsHandlerProofs

Inv == LP!IInv /\ HP!AInv

\* What the parts assume of the constants, KernServeAssumption provides; the
\* theorems of KsListenerProofs and KsHandlerProofs are cited together with it.
LEMMA PartsAssumptions ==
    /\ Backlog \in Nat
    /\ NULL \notin Conns \cup {LISTENER}
    /\ LISTENER \notin Conns
    /\ Arrivals \subseteq HP!Arrival
    /\ NULL \notin Conns \cup HP!HeapObjects
    /\ Index \in Paths
    /\ NULL \notin HP!Targets
  BY KernServeAssumption
  DEF H!Arrival, H!HeapObjects, H!Targets, H!Methods,
      HP!Arrival, HP!HeapObjects, HP!Targets, HP!Methods

-----------------------------------------------------------------------------
(* KernServe's instances and the proofs' are the same definitions.         *)

\* The listener's steps are the ones KsListenerProofs speaks of.
LEMMA ListenerSteps == L!Next => LP!Next
  BY DEF L!Next, L!Loader, L!Thread, L!SockCreate, L!Bind, L!Listen,
         L!SpawnThread, L!SpawnFails, L!StopThread, L!ThreadJoined,
         L!ReleaseListener, L!Check, L!Accept, L!AcceptInterrupted,
         L!AcceptFails, L!Release, L!Connect, L!close_socket,
         LP!Next, LP!Loader, LP!Thread, LP!SockCreate, LP!Bind, LP!Listen,
         LP!SpawnThread, LP!SpawnFails, LP!StopThread, LP!ThreadJoined,
         LP!ReleaseListener, LP!Check, LP!Accept, LP!AcceptInterrupted,
         LP!AcceptFails, LP!Release, LP!Connect, LP!close_socket

\* The handler's work is the work KsHandlerProofs speaks of.
LEMMA HandlerWork == H!Work => HP!Work
  BY DEF H!Work, H!RequestAlloc, H!Recv, H!RecvFails, H!Tokenize, H!Reject,
         H!NotImplemented, H!AcceptGet, H!OpenFile, H!ReadFile,
         H!FormatResponse, H!ResponseAlloc, H!Send, H!FreeResponse,
         H!FreeStrings, H!FreeRequest, H!Kfree, H!GiveBack, H!Respond,
         H!Status, H!PathOf, H!Tokens, H!Methods, H!Targets, H!StaleTarget,
         HP!Work, HP!RequestAlloc, HP!Recv, HP!RecvFails, HP!Tokenize,
         HP!Reject, HP!NotImplemented, HP!AcceptGet, HP!OpenFile, HP!ReadFile,
         HP!FormatResponse, HP!ResponseAlloc, HP!Send, HP!FreeResponse,
         HP!FreeStrings, HP!FreeRequest, HP!Kfree, HP!GiveBack,
         HP!Respond, HP!Status, HP!PathOf, HP!Tokens, HP!Methods, HP!Targets,
         HP!StaleTarget

\* So are the calls and the returns of the handler, and what clients send.
LEMMA HandlerSteps == H!HNext => HP!HNext
  <1>1. /\ H!Reload => HP!Reload
        /\ H!RecvAgain => HP!RecvAgain
        /\ H!Return => HP!Return
        /\ \A c \in Conns : H!Begin(c) => HP!Begin(c)
        /\ \A c \in Conns, a \in Arrivals : H!Arrive(c, a) => HP!Arrive(c, a)
    BY DEF H!Reload, H!RecvAgain, H!Return, H!Begin, H!Arrive, H!Silent,
           H!NoReply, H!hvars, HP!Reload, HP!RecvAgain, HP!Return, HP!Begin,
           HP!Arrive, HP!Silent, HP!NoReply, HP!hvars
  <1> QED
    BY <1>1, HandlerWork DEF H!HNext, HP!HNext

-----------------------------------------------------------------------------
(* Every step of the whole is a step of each part, or leaves it alone.     *)

\* Each action is one of the listener's, or does not touch its variables.
LEMMA StepOfListener == Next => [L!Next]_(L!lvars)
  <1> SUFFICES ASSUME Next PROVE L!Next \/ UNCHANGED L!lvars
    OBVIOUS
  <1>1. CASE Insmod \/ InitOrExit \/ Loop \/ AcceptError \/ AcceptAndHandle
             \/ ReturnAndRelease
    BY <1>1
    DEF Insmod, InitOrExit, Loop, AcceptError, AcceptAndHandle,
        ReturnAndRelease, L!Next, L!Loader, L!Thread
  <1>2. ASSUME NEW c \in Conns, Connect(c) PROVE L!Next
    BY <1>2 DEF Connect, L!Next
  <1>3. ASSUME UNCHANGED listener PROVE UNCHANGED L!lvars
    BY <1>3 DEF listener, L!lvars
  <1>4. CASE Handle \/ Spin
    BY <1>3, <1>4 DEF Handle, Spin
  <1>5. ASSUME NEW c \in Conns, NEW a \in Arrivals, Transmit(c, a)
        PROVE  UNCHANGED L!lvars
    BY <1>3, <1>5 DEF Transmit
  <1> QED
    BY <1>1, <1>2, <1>4, <1>5 DEF Next, Thread

\* Where the handler does not run, conn_from_client is null and stays so.
LEMMA StepOfHandler == LP!IInv /\ Next => [H!HNext]_(H!hvars)
  <1> SUFFICES ASSUME LP!IInv, Next PROVE H!HNext \/ UNCHANGED H!hvars
    OBVIOUS
  <1>1. ASSUME UNCHANGED ownHandler, conn_from_client' = conn_from_client
        PROVE  UNCHANGED H!hvars
    BY <1>1 DEF ownHandler, H!hvars
  <1>2. CASE Insmod
    BY <1>2 DEF Insmod, H!HNext
  <1>3. CASE InitOrExit \/ AcceptError
    <2>1. conn_from_client' = conn_from_client
      BY <1>3 DEF InitOrExit, AcceptError, L!Bind, L!Listen, L!SpawnThread,
                  L!SpawnFails, L!StopThread, L!ThreadJoined,
                  L!ReleaseListener, L!AcceptFails
    <2> QED
      BY <1>1, <1>3, <2>1 DEF InitOrExit, AcceptError
  <1>4. CASE Loop
    <2>1. thread \in {"check", "accept"}
      BY <1>4 DEF Loop, L!Check, L!AcceptInterrupted
    <2>2. conn_from_client = NULL
      BY <2>1 DEF LP!IInv, LP!ConnInv
    <2>3. conn_from_client' \in {conn_from_client, NULL}
      BY <1>4 DEF Loop, L!Check, L!AcceptInterrupted
    <2> QED
      BY <1>1, <1>4, <2>2, <2>3 DEF Loop
  <1>5. CASE AcceptAndHandle
    <2>1. Head(backlog) \in Conns
      BY <1>5 DEF AcceptAndHandle, L!Accept, LP!IInv, LP!TypeOK
    <2> QED
      BY <1>5, <2>1 DEF AcceptAndHandle, H!HNext
  <1>6. CASE Handle
    BY <1>6 DEF Handle, H!HNext
  <1>7. CASE Spin
    BY <1>7 DEF Spin, H!HNext
  <1>8. CASE ReturnAndRelease
    BY <1>8 DEF ReturnAndRelease, H!HNext
  <1>9. ASSUME NEW c \in Conns, Connect(c) PROVE UNCHANGED H!hvars
    BY <1>1, <1>9 DEF Connect, L!Connect
  <1>10. ASSUME NEW c \in Conns, NEW a \in Arrivals, Transmit(c, a)
         PROVE  H!HNext
    BY <1>10 DEF Transmit, H!HNext
  <1> QED
    BY <1>2, <1>3, <1>4, <1>5, <1>6, <1>7, <1>8, <1>9, <1>10 DEF Next, Thread

\* The invariants hold before the module is loaded.
LEMMA InitInv == Init => Inv
  <1> SUFFICES ASSUME Init PROVE Inv
    OBVIOUS
  <1>1. LP!Init
    BY DEF Init, L!Init, LP!Init
  <1>2. HP!HInit
    BY DEF Init, H!HInit, HP!HInit, H!Silent, HP!Silent, H!DiskStates,
           HP!DiskStates, H!Status, HP!Status, H!NoReply, HP!NoReply
  <1>3. HP!HInit => HP!ReplyInv /\ HP!LineInv /\ HP!AnswerFitsRequest
    BY DEF HP!HInit, HP!ReplyInv, HP!LineInv, HP!AnswerFitsRequest,
           HP!Unanswered
  <1> QED
    BY <1>1, <1>2, <1>3, PartsAssumptions, LP!InitIInv, HP!InitIInv
    DEF Inv, HP!AInv

\* Each part's invariant is kept because the step is a step of that part.
LEMMA StepInv == Inv /\ [Next]_vars => Inv'
  <1> SUFFICES ASSUME Inv, [Next]_vars PROVE Inv'
    OBVIOUS
  <1>1. [LP!Next]_(LP!lvars) /\ [HP!HNext]_(HP!hvars)
    <2>1. CASE Next
      <3>1. [L!Next]_(L!lvars) /\ [H!HNext]_(H!hvars)
        BY <2>1, StepOfListener, StepOfHandler DEF Inv
      <3>2. (UNCHANGED L!lvars) => UNCHANGED LP!lvars
        BY DEF L!lvars, LP!lvars
      <3>3. (UNCHANGED H!hvars) => UNCHANGED HP!hvars
        BY DEF H!hvars, HP!hvars
      <3> QED
        BY <3>1, <3>2, <3>3, ListenerSteps, HandlerSteps
    <2>2. CASE UNCHANGED vars
      BY <2>2 DEF vars, listener, ownHandler, LP!lvars, HP!hvars
    <2> QED
      BY <2>1, <2>2
  <1>2. LP!IInv'
    <2>1. LP!IInv
      BY DEF Inv
    <2>2. LP!TypeOK'
      BY <1>1, <2>1, PartsAssumptions, LP!TypeStep DEF LP!IInv
    <2>3. LP!LoaderInv'
      BY <1>1, <2>1, PartsAssumptions, LP!LoaderStep
    <2>4. LP!ConnInv'
      BY <1>1, <2>1, PartsAssumptions, LP!ConnStep
    <2>5. LP!LateInv'
      BY <1>1, <2>1, PartsAssumptions, LP!LateStep
    <2>6. LP!SocketOwnership'
      BY <1>1, <2>1, PartsAssumptions, LP!OwnershipStep
    <2> QED
      BY <2>2, <2>3, <2>4, <2>5, <2>6 DEF LP!IInv
  <1>3. HP!IInv'
    <2>1. HP!IInv
      BY DEF Inv, HP!AInv
    <2>2. HP!HTypeOK'
      BY <1>1, <2>1, PartsAssumptions, HP!TypeStep
    <2>3. HP!HeapInv'
      BY <1>1, <2>1, PartsAssumptions, HP!HeapStep
    <2>4. HP!PointerInv'
      BY <1>1, <2>1, PartsAssumptions, HP!PointerStep
    <2>5. HP!ConnectionInv'
      BY <1>1, <2>1, PartsAssumptions, HP!ConnectionStep
    <2>6. HP!TargetInv'
      BY <1>1, <2>1, PartsAssumptions, HP!TargetStep
    <2> QED
      BY <2>2, <2>3, <2>4, <2>5, <2>6 DEF HP!IInv
  <1>4. HP!AInv'
    <2>1. HP!AInv
      BY DEF Inv
    <2>2. HP!ReplyInv'
      BY <1>1, <2>1, PartsAssumptions, HP!ReplyStep
    <2>3. HP!LineInv'
      BY <1>1, <2>1, PartsAssumptions, HP!LineStep
    <2>4. HP!AnswerFitsRequest'
      BY <1>1, <2>1, PartsAssumptions, HP!AnswerStep
    <2> QED
      BY <1>3, <2>2, <2>3, <2>4 DEF HP!AInv
  <1> QED
    BY <1>2, <1>4 DEF Inv

\* The invariants of the two parts hold of the whole.
THEOREM Invariance == Spec => []Inv
  BY InitInv, StepInv, PTL DEF Spec

\* Seen through its own variables each part behaves as it does alone: the
\* handler's calls never disturb the loop, nor the loop the handler.
THEOREM PartsCompose == Spec => L!Spec /\ H!HSpec
  <1>1. Init => L!Init /\ H!HInit
    BY DEF Init
  <1>2. Inv /\ [Next]_vars => [L!Next]_(L!lvars) /\ [H!HNext]_(H!hvars)
    <2>1. ASSUME UNCHANGED vars PROVE UNCHANGED <<L!lvars, H!hvars>>
      BY <2>1 DEF vars, listener, ownHandler, L!lvars, H!hvars
    <2> QED
      BY <2>1, StepOfListener, StepOfHandler DEF Inv
  <1> QED
    BY <1>1, <1>2, Invariance, PTL DEF Spec, L!Spec, H!HSpec

\* The properties proved of the lifecycle and of the handler alone are
\* properties of kern-serve.c whole.
THEOREM PartsHold ==
    Spec => [](/\ L!SocketOwnership
               /\ L!ListenerOutlivesThread
               /\ L!UnloadedIsClean
               /\ L!StopLetsOneThrough
               /\ H!NothingHeldBetweenConnections
               /\ H!BadFreeOnlyWithoutSeparator
               /\ H!AnswerFitsRequest
               /\ H!OneResponse)
  <1>1. Inv => /\ L!SocketOwnership /\ L!ListenerOutlivesThread
               /\ L!UnloadedIsClean /\ L!StopLetsOneThrough
    BY PartsAssumptions
    DEF Inv, LP!IInv, LP!TypeOK, LP!LoaderInv, LP!ConnInv, LP!LateInv,
        LP!Running, LP!ThreadStates, LP!SocketOwnership, L!SocketOwnership,
        L!ListenerOutlivesThread, L!UnloadedIsClean, LP!StopLetsOneThrough,
        L!StopLetsOneThrough
  <1>2. Inv => /\ H!NothingHeldBetweenConnections
               /\ H!BadFreeOnlyWithoutSeparator /\ H!OneResponse
    BY DEF Inv, HP!AInv, HP!IInv, HP!HeapInv, HP!Held, HP!PointerInv,
           HP!BadFreeOnlyWithoutSeparator, HP!ReplyInv, HP!Unanswered,
           HP!NoReply, H!NoReply, H!NothingHeldBetweenConnections,
           H!BadFreeOnlyWithoutSeparator, H!OneResponse
  <1>3. Inv => H!AnswerFitsRequest
    BY ZenonT(30)
    DEF Inv, HP!AInv, HP!AnswerFitsRequest, HP!Expected, HP!Status, HP!PathOf,
        HP!NoReply, H!AnswerFitsRequest, H!Expected, H!Status, H!PathOf,
        H!NoReply
  <1> QED
    BY <1>1, <1>2, <1>3, Invariance, PTL

-----------------------------------------------------------------------------
(* The properties.                                                         *)

\* rmmod never takes a connection's socket away from the handler.
THEOREM HandlerKeepsSocket == Spec => []HandlerHoldsSocket
  <1>1. Inv => HandlerHoldsSocket
    BY KernServeAssumption
    DEF Inv, LP!IInv, LP!SocketOwnership, HP!AInv, HP!ReplyInv,
        HandlerHoldsSocket
  <1> QED
    BY Invariance, <1>1, PTL

\* However the module was loaded, used and unloaded, nothing of it is left.
THEOREM NothingIsLeft == Spec => []UnloadedHoldsNothing
  <1>1. Inv => UnloadedHoldsNothing
    <2> SUFFICES ASSUME Inv, loader = "absent"
                 PROVE  socks = {} /\ heap = {} /\ handler = "idle"
      BY DEF UnloadedHoldsNothing
    <2>1. ks_sock = NULL /\ conn_from_client = NULL
      BY DEF Inv, LP!IInv, LP!TypeOK, LP!LoaderInv, LP!ConnInv, LP!Running,
             LP!ThreadStates
    <2>2. socks = {}
      BY <2>1 DEF Inv, LP!IInv, LP!SocketOwnership
    <2>3. handler = "idle"
      BY <2>1 DEF Inv, HP!AInv, HP!ReplyInv
    <2>4. heap = {}
      BY <2>3 DEF Inv, HP!AInv, HP!IInv, HP!HeapInv, HP!Held
    <2> QED
      BY <2>2, <2>3, <2>4
  <1> QED
    BY Invariance, <1>1, PTL

-----------------------------------------------------------------------------
(* Progress of rmmod.                                                      *)

\* The handler's work brings its return nearer.
LEMMA HandleAdvances ==
    ASSUME Inv, Handle
    PROVE  thread = "serve" /\ H!StepsToReturn' < H!StepsToReturn
           /\ UNCHANGED <<loader, thread>>
  <1>1. handler' \in HP!Successors
    BY HandlerWork, PartsAssumptions, HP!WorkGoesOn DEF Handle
  <1>2. HP!StepsToReturn' < HP!StepsToReturn /\ handler # "idle"
    BY <1>1, PartsAssumptions, HP!SuccessorsAreNearer
  <1>3. H!StepsToReturn = HP!StepsToReturn
    BY DEF H!StepsToReturn, HP!StepsToReturn
  <1>4. H!StepsToReturn' = HP!StepsToReturn'
    BY DEF H!StepsToReturn, HP!StepsToReturn
  <1>5. thread = "serve"
    BY <1>2 DEF Inv, LP!IInv, LP!ConnInv, HP!AInv, HP!ReplyInv
  <1>6. UNCHANGED <<loader, thread>>
    BY DEF Handle, listener
  <1> QED
    BY <1>2, <1>3, <1>4, <1>5, <1>6

\* The measure is a number, before and after a step.
LEMMA StepsToReturnType ==
    /\ Inv => H!StepsToReturn \in 0..13
    /\ Inv' => H!StepsToReturn' \in 0..13
  <1>1. /\ Inv => handler \in HP!HandlerStates
        /\ Inv' => handler' \in HP!HandlerStates
    BY DEF Inv, HP!AInv, HP!IInv, HP!HTypeOK
  <1>2. ASSUME handler \in HP!HandlerStates PROVE H!StepsToReturn \in 0..13
    BY <1>2 DEF HP!HandlerStates, H!StepsToReturn
  <1>3. ASSUME handler' \in HP!HandlerStates PROVE H!StepsToReturn' \in 0..13
    BY <1>3 DEF HP!HandlerStates, H!StepsToReturn
  <1> QED
    BY <1>1, <1>2, <1>3

\* From the stop request to its end the thread has at most 16 steps, polls
\* not counted, whatever clients and failing calls do meanwhile.
THEOREM StopIsNear == Spec => StopComesNearer
  <1> DEFINE Nearer == loader = "stopping" /\ loader' = "stopping" =>
                         StepsToStop' < StepsToStop
  <1>1. ASSUME Inv, Inv', [Next]_vars PROVE [Nearer]_<<loader, thread, handler>>
    <2>1. CASE Insmod \/ InitOrExit
      BY <2>1 DEF Insmod, InitOrExit, L!SockCreate, L!Bind, L!Listen,
                  L!SpawnThread, L!SpawnFails, L!StopThread, L!ThreadJoined,
                  L!ReleaseListener
    <2>2. CASE Loop \/ AcceptError
      <3>1. loader = "stopping" => should_stop
        BY <1>1 DEF Inv, LP!IInv, LP!LoaderInv
      <3>2. loader = "stopping" =>
              \/ thread = "check" /\ thread' = "exited"
              \/ thread = "accept" /\ thread' = "check"
        BY <2>2, <3>1 DEF Loop, AcceptError, L!Check, L!AcceptInterrupted,
                          L!AcceptFails
      <3> QED
        BY <3>2 DEF StepsToStop
    <2>3. CASE AcceptAndHandle
      <3>1. thread = "accept" /\ thread' = "serve"
        BY <2>3 DEF AcceptAndHandle, L!Accept
      <3>2. H!StepsToReturn' \in 0..13
        BY <1>1, StepsToReturnType
      <3> QED
        BY <3>1, <3>2 DEF StepsToStop
    <2>4. CASE Handle
      <3>1. /\ thread = "serve" /\ UNCHANGED <<loader, thread>>
            /\ H!StepsToReturn' < H!StepsToReturn
        BY <1>1, <2>4, HandleAdvances
      <3>2. H!StepsToReturn \in 0..13 /\ H!StepsToReturn' \in 0..13
        BY <1>1, StepsToReturnType
      <3> QED
        BY <3>1, <3>2 DEF StepsToStop
    <2>5. CASE ReturnAndRelease
      <3>1. thread = "serve" /\ thread' = "check"
        BY <2>5 DEF ReturnAndRelease, L!Release
      <3>2. H!StepsToReturn \in 0..13
        BY <1>1, StepsToReturnType
      <3> QED
        BY <3>1, <3>2 DEF StepsToStop
    <2>6. ASSUME \/ Spin \/ UNCHANGED vars
                 \/ \E c \in Conns : Connect(c) \/ \E a \in Arrivals : Transmit(c, a)
          PROVE  UNCHANGED <<loader, thread, handler>>
      BY <2>6 DEF Spin, H!RecvAgain, H!hvars, listener, vars, ownHandler,
                  Connect, L!Connect, Transmit, H!Arrive
    <2> QED
      BY <1>1, <2>1, <2>2, <2>3, <2>4, <2>5, <2>6 DEF Next, Thread
  <1> QED
    BY <1>1, Invariance, PTL DEF Spec, StopComesNearer

-----------------------------------------------------------------------------
(* The refinement: KernServe is HttpService, seen through the client.      *)

Up == loader \in {"listening", "loaded", "stopping", "stopped"}

\* What a client sees of the state of its connection.
StageOf(state) ==
    CASE state = "idle"     -> "away"
      [] state = "queued"   -> "waiting"
      [] state = "accepted" -> "served"
      [] state = "released" -> "closed"
      [] state = "reset"    -> "turned away"

Stage == [c \in Conns |-> StageOf(client[c])]

\* The status of the connection being served.
Code == IF handler = "idle" THEN 0 ELSE reply.code

seen == <<Up, backlog, conn_from_client, Code, Stage>>

\* The names above are the ones HttpService is instantiated with.
LEMMA ServiceState == (UNCHANGED seen) => UNCHANGED Service!svars
  BY DEF seen, Service!svars, Up, Code, Stage, StageOf

\* Before insmod there is no service, as HttpService starts.
LEMMA InitRefines == Init => Service!Init
  <1> SUFFICES ASSUME Init PROVE Service!Init
    OBVIOUS
  <1>1. loader = "absent" /\ conn_from_client = NULL /\ backlog = <<>>
    BY DEF Init, L!Init
  <1>2. handler = "idle"
    BY DEF Init, H!HInit
  <1>3. client = [c \in Conns |-> "idle"]
    BY DEF Init, L!Init
  <1> QED
    BY <1>1, <1>2, <1>3 DEF Service!Init

\* A client whose connection takes a step is seen to take one, the others not.
LEMMA StageStep ==
    ASSUME NEW c \in Conns, NEW state,
           client \in [Conns -> {"idle", "queued", "accepted", "released",
                                 "reset"}],
           client' = [client EXCEPT ![c] = state]
    PROVE  Stage' = [Stage EXCEPT ![c] = StageOf(state)]
  BY DEF Stage

\* The socket goes: those who wait are turned away.
LEMMA CloseStep ==
    ASSUME client \in [Conns -> {"idle", "queued", "accepted", "released",
                                 "reset"}],
           client' = [c \in Conns |-> IF client[c] = "queued" THEN "reset"
                                                              ELSE client[c]]
    PROVE  Stage' = [c \in Conns |-> IF Stage[c] = "waiting" THEN "turned away"
                                                            ELSE Stage[c]]
  BY DEF Stage, StageOf

\* The insmod/rmmod process starts and stops the service.
LEMMA LoaderRefines ==
    ASSUME Inv, Insmod \/ InitOrExit PROVE [Service!Next]_(Service!svars)
  <1>1. LP!TypeOK /\ LP!LoaderInv /\ LP!ConnInv
    BY DEF Inv, LP!IInv
  <1>2. UNCHANGED <<handler, reply>>
    BY DEF Insmod, H!Reload, InitOrExit, ownHandler
  <1>3. CASE UNCHANGED <<Up, backlog, conn_from_client, client>>
    <2>1. UNCHANGED seen
      BY <1>2, <1>3 DEF seen, Code, Stage
    <2> QED
      BY <2>1, ServiceState
  <1>4. CASE Insmod
    <2>1. conn_from_client = NULL
      BY <1>1, <1>4 DEF Insmod, L!SockCreate, LP!LoaderInv, LP!ConnInv,
                        LP!Running
    <2> QED
      BY <1>3, <1>4, <2>1 DEF Insmod, L!SockCreate, Up
  <1>5. CASE L!Bind \/ L!Listen
    <2>1. CASE loader' = "listening"
      <3>1. loader = "bound" /\ UNCHANGED <<backlog, conn_from_client, client>>
        BY <1>5, <2>1 DEF L!Bind, L!Listen
      <3>2. Service!Start
        BY <1>2, <2>1, <3>1 DEF Service!Start
      <3> QED
        BY <3>2 DEF Service!Next
    <2>2. CASE loader' # "listening" /\ ~L!close_socket
      BY <1>3, <1>5, <2>2 DEF L!Bind, L!Listen, Up
    <2>3. CASE loader' # "listening" /\ L!close_socket
      <3>1. loader \in {"created", "bound"}
        BY <1>5 DEF L!Bind, L!Listen
      <3>2. backlog = <<>> /\ \A c \in Conns : client[c] # "queued"
        BY <1>1, <3>1 DEF LP!ConnInv
      <3>3. client \in [Conns -> {"idle", "queued", "accepted", "released",
                                  "reset"}]
        BY <1>1 DEF LP!TypeOK
      <3>4. UNCHANGED client
        BY <2>3, <3>2, <3>3 DEF L!close_socket
      <3>5. UNCHANGED <<backlog, conn_from_client>>
        BY <1>5, <2>3, <3>2 DEF L!close_socket, L!Bind, L!Listen
      <3>6. UNCHANGED Up
        <4>1. loader' \in {"absent", "bound"}
          BY <1>5, <2>3 DEF L!Bind, L!Listen
        <4> QED
          BY <3>1, <4>1 DEF Up
      <3> QED
        BY <1>3, <3>4, <3>5, <3>6
    <2> QED
      BY <2>1, <2>2, <2>3
  <1>6. CASE L!SpawnFails \/ L!ReleaseListener
    <2>1. loader \in {"listening", "stopped"} /\ loader' = "absent"
      BY <1>6 DEF L!SpawnFails, L!ReleaseListener
    <2>2. conn_from_client = NULL /\ UNCHANGED conn_from_client
      BY <1>1, <1>6 DEF LP!LoaderInv, LP!ConnInv, LP!Running, L!SpawnFails,
                        L!ReleaseListener
    <2>3. L!close_socket
      BY <1>6 DEF L!SpawnFails, L!ReleaseListener
    <2>4. Stage' = [c \in Conns |-> IF Stage[c] = "waiting" THEN "turned away"
                                                           ELSE Stage[c]]
      BY <1>1, <2>3, CloseStep DEF LP!TypeOK, L!close_socket
    <2>5. backlog' = <<>>
      BY <2>3 DEF L!close_socket
    <2>6. Up /\ Up' = FALSE
      BY <2>1 DEF Up
    <2>7. Service!Stop
      <3>1. UNCHANGED <<conn_from_client, Code>>
        BY <1>2, <2>2 DEF Code
      <3> QED
        BY <2>2, <2>4, <2>5, <2>6, <3>1, Zenon
        DEF Service!Stop, Stage, StageOf, Up, Code
    <2> QED
      BY <2>7 DEF Service!Next
  <1>7. CASE L!SpawnThread \/ L!StopThread \/ L!ThreadJoined
    BY <1>3, <1>7 DEF L!SpawnThread, L!StopThread, L!ThreadJoined, Up
  <1> QED
    BY <1>4, <1>5, <1>6, <1>7 DEF InitOrExit

\* The listen thread serves, answers and closes.
LEMMA ThreadRefines ==
    ASSUME Inv, Thread \/ AcceptError \/ Spin
    PROVE  [Service!Next]_(Service!svars)
  <1>1. LP!TypeOK /\ LP!LoaderInv /\ LP!ConnInv
    BY DEF Inv, LP!IInv
  <1>2. HP!HTypeOK /\ HP!ReplyInv
    BY DEF Inv, HP!AInv, HP!IInv
  <1>3. ASSUME UNCHANGED <<Up, backlog, conn_from_client, client, Code>>
        PROVE  UNCHANGED Service!svars
    <2>1. UNCHANGED seen
      BY <1>3 DEF seen, Stage
    <2> QED
      BY <2>1, ServiceState
  <1>4. CASE Loop \/ AcceptError
    <2>1. UNCHANGED <<loader, backlog, client, handler, reply>>
      BY <1>4 DEF Loop, L!Check, L!AcceptInterrupted, AcceptError,
                  L!AcceptFails, ownHandler
    <2>2. UNCHANGED conn_from_client
      BY <1>1, <1>4 DEF Loop, L!Check, L!AcceptInterrupted, AcceptError,
                        L!AcceptFails, LP!ConnInv
    <2> QED
      BY <1>3, <2>1, <2>2 DEF Up, Code
  <1>5. CASE AcceptAndHandle
    <2> DEFINE c == Head(backlog)
    <2>1. thread = "accept" /\ backlog # <<>>
      BY <1>5 DEF AcceptAndHandle, L!Accept
    <2>2. Up /\ conn_from_client = NULL
      BY <1>1, <2>1 DEF LP!LoaderInv, LP!ConnInv, LP!Running, Up
    <2>3. c \in Conns
      BY <1>1, <2>1 DEF LP!TypeOK
    <2>4. Stage' = [Stage EXCEPT ![c] = "served"]
      <3>1. client' = [client EXCEPT ![c] = "accepted"]
        BY <1>5 DEF AcceptAndHandle, L!Accept
      <3>2. StageOf("accepted") = "served"
        BY DEF StageOf
      <3> QED
        BY <1>1, <2>3, <3>1, <3>2, StageStep DEF LP!TypeOK
    <2>5. /\ conn_from_client' = c
          /\ backlog' = Tail(backlog)
          /\ handler = "idle" /\ reply'.code = 0
          /\ UNCHANGED loader
      BY <1>5 DEF AcceptAndHandle, L!Accept, H!Begin, H!NoReply
    <2>6. UNCHANGED Code
      BY <2>5 DEF Code
    <2>7. Service!Serve
      BY <2>1, <2>2, <2>4, <2>5, <2>6
      DEF Service!Serve, Up, Code, Stage, StageOf
    <2> QED
      BY <2>7 DEF Service!Next
  <1>6. CASE Handle
    <2>1. UNCHANGED <<Up, backlog, conn_from_client, client>>
      BY <1>6 DEF Handle, listener, Up
    <2>2. CASE UNCHANGED reply
      <3>1. handler # "idle" /\ handler' # "idle"
        <4>1. handler' \in HP!Successors
          BY <1>6, HandlerWork, PartsAssumptions, HP!WorkGoesOn DEF Handle
        <4> QED
          BY <4>1 DEF HP!Successors
      <3> QED
        BY <1>3, <2>1, <2>2, <3>1 DEF Code
    <2>3. CASE H!Send
      <3>1. handler = "send" /\ reply'.code = response.code
        BY <2>3 DEF H!Send
      <3>2. conn_from_client # NULL /\ reply.code = 0
        BY <1>2, <3>1 DEF HP!ReplyInv, HP!Unanswered, HP!NoReply
      <3>3. response.code \in {200, 404, 500, 501}
        BY <1>2, <3>1 DEF HP!HTypeOK, HP!ReplyInv, HP!Responses, HP!Codes
      <3>4. handler' # "idle"
        BY <2>3 DEF H!Send, H!Kfree, H!GiveBack
      <3>5. Code = 0 /\ Code' = response.code
        BY <3>1, <3>2, <3>4 DEF Code
      <3>6. Service!Answer
        BY <2>1, <3>2, <3>3, <3>5 DEF Service!Answer, Service!Codes, Up, Code
      <3> QED
        BY <3>6 DEF Service!Next
    <2> QED
      BY <1>6, <2>2, <2>3
      DEF Handle, H!Work, H!RequestAlloc, H!Recv, H!RecvFails, H!Tokenize,
          H!Reject, H!NotImplemented, H!AcceptGet, H!OpenFile, H!ReadFile,
          H!FormatResponse, H!ResponseAlloc, H!FreeResponse, H!FreeStrings,
          H!FreeRequest
  <1>7. CASE Spin
    BY <1>3, <1>7 DEF Spin, H!RecvAgain, H!hvars, listener, Up, Code
  <1>8. CASE ReturnAndRelease
    <2> DEFINE c == conn_from_client
    <2>1. c # NULL /\ c \in Conns
      BY <1>1, <1>8 DEF ReturnAndRelease, L!Release, LP!ConnInv, LP!TypeOK
    <2>2. Stage' = [Stage EXCEPT ![c] = "closed"]
      <3>1. client' = [client EXCEPT ![c] = "released"]
        BY <1>8 DEF ReturnAndRelease, L!Release
      <3>2. StageOf("released") = "closed"
        BY DEF StageOf
      <3> QED
        BY <1>1, <2>1, <3>1, <3>2, StageStep DEF LP!TypeOK
    <2>3. /\ conn_from_client' = NULL
          /\ handler' = "idle"
          /\ UNCHANGED <<loader, backlog>>
      BY <1>8 DEF ReturnAndRelease, L!Release, H!Return
    <2>4. Service!Close
      BY <2>1, <2>2, <2>3 DEF Service!Close, Up, Code, Stage, StageOf
    <2> QED
      BY <2>4 DEF Service!Next
  <1> QED
    BY <1>4, <1>5, <1>6, <1>7, <1>8 DEF Thread

\* A client that connects starts to wait; what it sends shows nowhere yet.
LEMMA ClientRefines ==
    ASSUME Inv, NEW c \in Conns,
           Connect(c) \/ \E a \in Arrivals : Transmit(c, a)
    PROVE  [Service!Next]_(Service!svars)
  <1>1. LP!TypeOK
    BY DEF Inv, LP!IInv
  <1>2. CASE Connect(c)
    <2>1. /\ client[c] = "idle"
          /\ Up
          /\ backlog' = Append(backlog, c)
          /\ client' = [client EXCEPT ![c] = "queued"]
          /\ UNCHANGED <<loader, conn_from_client, Code>>
      BY <1>2 DEF Connect, L!Connect, Up, Code, ownHandler
    <2>2. Stage' = [Stage EXCEPT ![c] = "waiting"]
      <3>1. StageOf("queued") = "waiting"
        BY DEF StageOf
      <3> QED
        BY <1>1, <2>1, <3>1, StageStep DEF LP!TypeOK
    <2>3. Stage[c] = "away"
      BY <2>1 DEF Stage, StageOf
    <2>4. Service!Wait(c)
      BY <2>1, <2>2, <2>3 DEF Service!Wait, Up, Code, Stage, StageOf
    <2> QED
      BY <2>4 DEF Service!Next
  <1>3. ASSUME NEW a \in Arrivals, Transmit(c, a) PROVE UNCHANGED Service!svars
    <2>1. UNCHANGED seen
      BY <1>3 DEF Transmit, H!Arrive, listener, seen, Up, Code, Stage
    <2> QED
      BY <2>1, ServiceState
  <1> QED
    BY <1>2, <1>3

\* Every step is a step of the service or is not seen.
LEMMA StepRefines == Inv /\ [Next]_vars => [Service!Next]_(Service!svars)
  <1>1. ASSUME UNCHANGED vars PROVE UNCHANGED Service!svars
    <2>1. UNCHANGED seen
      BY <1>1 DEF vars, listener, ownHandler, seen, Up, Code, Stage
    <2> QED
      BY <2>1, ServiceState
  <1> QED
    BY <1>1, LoaderRefines, ThreadRefines, ClientRefines DEF Next

\* kern-serve.c is the service HttpService describes, for any clients, any
\* backlog and any files: first come first served, one at a time, at most one
\* answer each, and rmmod never between a connection and its release.
THEOREM Refinement == Spec => ImplementsService
  BY InitRefines, StepRefines, Invariance, PTL
  DEF Spec, ImplementsService, Service!Spec

\* HttpServiceProofs speaks of HttpService as it is seen here.
SP == INSTANCE HttpServiceProofs WITH
        up <- Up, queue <- backlog, serving <- conn_from_client,
        code <- Code, stage <- Stage

\* ... so that what is proved of the service is proved of the module.
LEMMA SameService ==
    /\ Service!Init => SP!Init
    /\ [Service!Next]_(Service!svars) => [SP!Next]_(SP!svars)
    /\ SP!Orderly => Service!Orderly
  <1>1. Service!Init => SP!Init
    BY DEF Service!Init, SP!Init, Up, Code, Stage, StageOf
  <1>2. [Service!Next]_(Service!svars) => [SP!Next]_(SP!svars)
    BY DEF Service!Next, Service!Start, Service!Wait, Service!Serve,
           Service!Answer, Service!Close, Service!Stop, Service!svars,
           Service!Codes, SP!Next, SP!Start, SP!Wait, SP!Serve, SP!Answer,
           SP!Close, SP!Stop, SP!svars, SP!Codes, Up, Code, Stage, StageOf
  <1>3. SP!Orderly => Service!Orderly
    BY DEF Service!Orderly, SP!Orderly, Up, Code, Stage, StageOf
  <1> QED
    BY <1>1, <1>2, <1>3

\* No client is lost and none is in two places, whatever fails.
THEOREM ClientsAreInOrder == Spec => []ClientsInOrder
  <1>1. Spec => SP!Spec
    BY Refinement, SameService, PTL DEF ImplementsService, Service!Spec, SP!Spec
  <1>2. SP!Spec => []SP!Orderly
    BY PartsAssumptions, SP!ServiceIsOrderly
  <1> QED
    BY <1>1, <1>2, SameService, PTL DEF ClientsInOrder

\* First come, first served.
THEOREM ServedInTurn == Spec => NobodyOvertakes
  <1>1. Spec => SP!Spec
    BY Refinement, SameService, PTL DEF ImplementsService, Service!Spec, SP!Spec
  <1>2. SP!Spec => SP!NobodyOvertakes
    BY PartsAssumptions, SP!FirstComeFirstServed
  <1> QED
    BY <1>1, <1>2, PTL
    DEF NobodyOvertakes, Service!NobodyOvertakes, SP!NobodyOvertakes,
        Service!svars, SP!svars, Up, Code, Stage, StageOf

=============================================================================
