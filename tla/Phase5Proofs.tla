----------------------------- MODULE Phase5Proofs -----------------------------
(***************************************************************************)
(* phase5.c for any clients, files and messages: until something breaks    *)
(* the kernel, the loop releases the connections it accepts, the handlers  *)
(* give back their blocks and the page sent is the one of the target.      *)
(*                                                                         *)
(* Nothing is modelled after the first fault, so a step always begins      *)
(* where there is none.  PlaceInv ties the thread to the handlers and to   *)
(* the loading process, HeldInv says what is allocated at each place of    *)
(* the handlers, so that every kfree finds its block, TargetInv says where *)
(* request_target points, AnswerInv follows the page from read_file to the *)
(* client.                                                                 *)
(***************************************************************************)
EXTENDS Phase5, EarlyServerProofs

LP == INSTANCE KsListenerProofs

\* The thread runs from loaded to stopping, and is in a handler, with a
\* connection, exactly at "serve"; nobody waits before the socket listens.
PlaceInv ==
    /\ ks_sock = IF loader = "absent" THEN NULL ELSE LISTENER
    /\ loader \in {"loaded", "stopping"} <=> thread \in Running
    /\ loader = "stopping" => should_stop
    /\ handler # "idle" <=> thread = "serve"
    /\ thread = "serve" => conn_from_client \in Conns
    /\ loader \in {"absent", "created", "bound"} =>
           backlog = <<>> /\ \A c \in Conns : client[c] # "queued"

\* The transient blocks allocated at each place; file_buf is whether there is
\* a page, until the header is built.
Blocks ==
    CASE handler \in {"idle", "request", "respond", "return"} -> {}
      [] handler = "recv"    -> Buffers
      [] handler = "header"  -> heap \cap {"file_buf"}
      [] handler = "message" -> {"header_buf", "file_buf"}
      [] OTHER               -> Response

HeldInv ==
    /\ fault = "none" => Blocks \subseteq heap /\ heap \subseteq Blocks \cup Conns
    /\ OnlyTargetsSurvive

\* As long as the module is loaded, its target is null, the literal or the
\* block of a connection that nobody has freed.
TargetInv ==
    /\ fault = "none" /\ loader # "absent" =>
           request_target \in heap \cup {NULL, LITERAL}
    /\ BadFreeOnlyOfLiteral

\* The page a status speaks of.
Fits(code, path) ==
    IF Readable /\ ~no_memory THEN code = 200 /\ path = Page
                              ELSE code = 404 /\ path = NULL

\* There is nothing sent before SendHeader, and what it sends was decided by
\* read_file: with a page file_buf is there, without one it is not.
AnswerInv ==
    /\ request_target # NULL => target \in Targets
    /\ handler \in {"request", "recv", "respond", "header", "message",
                    "send_header"} => reply = NoReply
    /\ handler = "header" =>
           IF "file_buf" \in heap THEN Fits(200, body) ELSE Fits(404, body)
    /\ handler \in {"message", "send_header"} => Fits(status, body)
    /\ handler = "send_body" => Fits(reply.status, reply.path)
    /\ PageOfTarget

IInv ==
    /\ TypeOK
    /\ PlaceInv
    /\ ThreadReleasesWhatItAccepts
    /\ HeldInv
    /\ TargetInv
    /\ AnswerInv

\* The steps of the two handlers.
Handling == handle_http_request5 \/ FindPage \/ Header \/ MessageAlloc
            \/ SendHeader \/ SendBody

-----------------------------------------------------------------------------
(* Facts about the constants and the parts                                 *)

\* What the theorems of KsListenerProofs assume.
LEMMA ListenerConstants ==
    /\ Backlog \in Nat
    /\ NULL \notin Conns \cup {LISTENER}
    /\ LISTENER \notin Conns
  BY EarlyAssumption

\* What strsep finds is a method and a target, or no target.
LEMMA TokenTypes ==
    ASSUME NEW a \in Arrival, NEW token \in Tokens(a)
    PROVE  token.target \in Targets \cup {NULL}
  <1>1. a.target \in Targets
    BY DEF Arrival
  <1>2. CASE a.kind = "line"
    BY <1>1, <1>2 DEF Tokens
  <1>3. CASE a.kind = "method"
    BY <1>3 DEF Tokens
  <1>4. CASE a.kind = "fragment"
    BY <1>4 DEF Tokens
  <1>5. CASE a.kind \notin {"line", "method", "fragment"}
    BY <1>5 DEF Tokens
  <1> QED
    BY <1>2, <1>3, <1>4, <1>5

\* A page that can be read is a file.
LEMMA PageType ==
    ASSUME AnswerInv, Readable PROVE Page \in Paths
  <1>1. Index \in Paths
    BY RequestAssumption
  <1>2. CASE request_target = NULL
    BY <1>1, <1>2 DEF Page
  <1>3. CASE request_target # NULL
    <2>1. target \in Targets /\ PathOf(target) # ""
      BY <1>3 DEF AnswerInv, Readable, Page
    <2> QED
      BY <1>1, <1>3, <2>1 DEF Targets, PathOf, Page
  <1> QED
    BY <1>2, <1>3

\* The steps phase5.c takes from KsListener are the ones proved about.
LEMMA ListenerSteps ==
    L!SockCreate \/ L!Bind \/ L!Listen \/ L!SpawnThread \/ L!SpawnFails
        \/ L!StopThread \/ L!ThreadJoined \/ L!Check \/ L!Accept
        \/ L!AcceptInterrupted \/ L!AcceptFails
        \/ (\E c \in Conns : L!Connect(c))
    => LP!Next
  BY DEF L!SockCreate, L!Bind, L!Listen, L!SpawnThread, L!SpawnFails,
         L!StopThread, L!ThreadJoined, L!Check, L!Accept, L!AcceptInterrupted,
         L!AcceptFails, L!Connect, L!close_socket,
         LP!Next, LP!Loader, LP!Thread, LP!SockCreate, LP!Bind, LP!Listen,
         LP!SpawnThread, LP!SpawnFails, LP!StopThread, LP!ThreadJoined,
         LP!Check, LP!Accept, LP!AcceptInterrupted, LP!AcceptFails,
         LP!Connect, LP!close_socket

\* So is the type invariant.
LEMMA ListenerTypes == L!TypeOK <=> LP!TypeOK
  BY DEF L!TypeOK, LP!TypeOK, L!LoaderStates, LP!LoaderStates,
         L!ThreadStates, LP!ThreadStates

-----------------------------------------------------------------------------
(* Types                                                                   *)

\* The processes' variables keep their types, as in kern-serve.c; the two
\* steps phase5.c has of its own only clear pointers and sets.
LEMMA ListenerTypeStep == IInv /\ Next => L!TypeOK'
  <1> SUFFICES ASSUME IInv, Next PROVE L!TypeOK'
    OBVIOUS
  <1>1. L!TypeOK
    BY DEF IInv, TypeOK
  <1>2. ASSUME LP!Next PROVE L!TypeOK'
    <2>1. LP!TypeOK'
      BY <1>1, <1>2, ListenerTypes, ListenerConstants, LP!TypeStep
    <2> QED
      BY <2>1 DEF L!TypeOK, LP!TypeOK, L!LoaderStates, LP!LoaderStates,
                  L!ThreadStates, LP!ThreadStates
  <1>3. CASE ks_init5
    BY <1>2, <1>3, ListenerSteps DEF ks_init5, Insmod, Load
  <1>4. CASE ks_exit5
    <2>1. CASE StopThread
      BY <1>2, <2>1, ListenerSteps DEF StopThread
    <2>2. CASE ExitReleases(request_target)
      <3>1. <<>> \in Seq(Conns)
        OBVIOUS
      <3> QED
        BY <1>1, <2>2, <3>1 DEF ExitReleases, L!TypeOK, L!LoaderStates
    <2> QED
      BY <1>4, <2>1, <2>2 DEF ks_exit5
  <1>5. CASE Loop \/ Accept \/ AcceptError
    BY <1>2, <1>5, ListenerSteps DEF Loop, Accept, AcceptError
  <1>6. CASE Release
    BY <1>1, <1>6 DEF Release, L!TypeOK, L!ThreadStates
  <1>7. ASSUME NEW c \in Conns, Connect(c) PROVE L!TypeOK'
    BY <1>2, <1>7, ListenerSteps DEF Connect
  <1>8. CASE UNCHANGED listener
    BY <1>1, <1>8 DEF listener, L!TypeOK
  <1> QED
    BY <1>3, <1>4, <1>5, <1>6, <1>7, <1>8
    DEF Next, Thread, listen_loop5, Environment, Transmit,
        handle_http_request5, RequestAlloc, Recv, RecvFails, FindPage, Header,
        MessageAlloc, SendHeader, SendBody, SendBodyAndFree

\* Every kfree of the handlers is of an allocated block, and each place hands
\* on exactly the blocks of the next one.
LEMMA HandlerHeap ==
    ASSUME IInv, fault = "none", Handling
    PROVE  /\ heap' \subseteq Transient \cup Conns
           /\ heap \ heap' \subseteq Transient \cup {"file"}
           /\ \/ /\ fault' = "none"
                 /\ Blocks' \subseteq heap' /\ heap' \subseteq Blocks' \cup Conns
              \/ fault' = "null dereference" /\ handler' = "respond"
  <1>1. /\ Blocks \subseteq heap /\ heap \subseteq Blocks \cup Conns
        /\ heap \subseteq Transient \cup Conns
    BY DEF IInv, HeldInv, TypeOK
  <1>2. NULL \notin Conns /\ (Transient \cup {"file"}) \cap Conns = {}
    BY EarlyAssumption, Phase5Assumption
  <1>3. /\ Buffers = {"message", "vec", "buff"}
        /\ Response = {"header_buf", "file_buf", "vec", "message"}
        /\ Transient = Buffers \cup {"file_buf", "header_buf"}
    BY DEF Buffers, Response, Transient
  <1>4. CASE RequestAlloc
    <2>1. heap \subseteq Conns
      BY <1>1, <1>4 DEF RequestAlloc, Blocks
    <2>2. CASE handler' = "recv"
      <3>1. heap' = heap \cup Buffers /\ UNCHANGED fault
        BY <1>4, <2>2 DEF RequestAlloc
      <3> QED
        BY <1>3, <2>1, <2>2, <3>1 DEF Blocks
    <2>3. CASE handler' = "respond"
      <3>1. PICK got \in {{}, {"message"}, {"message", "vec"}} :
                Free(got \cup {NULL}, heap \cup got)
        BY <1>4, <2>3 DEF RequestAlloc
      <3>2. /\ heap' \subseteq heap /\ heap \ heap' \subseteq Buffers \cup {NULL}
            /\ fault' = "none"
        BY <1>3, <3>1 DEF Free
      <3> QED
        BY <1>2, <1>3, <2>1, <2>3, <3>2 DEF Blocks
    <2> QED
      BY <1>4, <2>2, <2>3 DEF RequestAlloc
  <1>5. CASE Recv
    <2>1. PICK token \in Tokens(rx[conn_from_client]) : Parse(token)
      BY <1>5 DEF Recv
    <2>2. conn_from_client \in Conns /\ handler' = "respond"
      BY <1>5 DEF Recv, IInv, PlaceInv
    <2>3. Buffers \subseteq heap /\ heap \subseteq Buffers \cup Conns
      BY <1>1, <1>5 DEF Recv, Blocks
    <2>4. \/ fault' = "null dereference" /\ UNCHANGED heap
          \/ fault' = "none" /\ heap' = (heap \cup {conn_from_client}) \ Buffers
          \/ fault' = "none" /\ heap' = heap \ Buffers
      BY <1>3, <2>1, <2>3 DEF Parse, Free
    <2> QED
      BY <1>1, <1>3, <2>2, <2>3, <2>4 DEF Blocks
  <1>6. CASE RecvFails
    <2>1. Buffers \subseteq heap /\ heap \subseteq Buffers \cup Conns
      BY <1>1, <1>6 DEF RecvFails, Blocks
    <2>2. /\ heap' = heap \ Buffers /\ fault' = "none"
          /\ handler' = "respond"
      BY <1>6, <2>1 DEF RecvFails, Free
    <2> QED
      BY <1>3, <2>1, <2>2 DEF Blocks
  <1>7. CASE FindPage
    <2>1. heap \subseteq Conns /\ handler' = "header"
      BY <1>1, <1>7 DEF FindPage, Blocks
    <2>2. \/ heap' = heap \ {} /\ fault' = "none"
          \/ heap' = (heap \cup {"file"}) \ {"file"} /\ fault' = "none"
          \/ /\ heap' = (heap \cup {"file", "file_buf"}) \ {"file"}
             /\ fault' = "none"
          \/ /\ heap' = (heap \cup {"file", "file_buf"})
                            \ {"file", "file_buf"}
             /\ fault' = "none"
      BY <1>7 DEF FindPage, read_file, Free
    <2> QED
      BY <1>2, <1>3, <2>1, <2>2 DEF Blocks
  <1>8. CASE Header
    <2>1. heap \subseteq {"file_buf"} \cup Conns
      BY <1>1, <1>8 DEF Header, Blocks
    <2>2. CASE handler' = "message"
      <3>1. heap' = heap \cup {"header_buf", "file_buf"} /\ UNCHANGED fault
        BY <1>8, <2>2 DEF Header
      <3> QED
        BY <1>3, <2>1, <2>2, <3>1 DEF Blocks
    <2>3. CASE handler' = "return"
      <3>1. \/ Free(heap \cap {"file_buf"}, heap)
            \/ /\ "file_buf" \notin heap
               /\ Free({"header_buf"}, heap \cup {"header_buf"})
        BY <1>8, <2>3 DEF Header
      <3>2. heap' \subseteq Conns /\ heap \ heap' \subseteq Transient
            /\ fault' = "none"
        BY <1>2, <1>3, <2>1, <3>1 DEF Free
      <3> QED
        BY <2>3, <3>2 DEF Blocks
    <2> QED
      BY <1>8, <2>2, <2>3 DEF Header
  <1>9. CASE MessageAlloc
    <2>1. /\ heap \subseteq {"header_buf", "file_buf"} \cup Conns
          /\ {"header_buf", "file_buf"} \subseteq heap
      BY <1>1, <1>9 DEF MessageAlloc, Blocks
    <2>2. CASE handler' = "send_header"
      <3>1. heap' = heap \cup {"message", "vec"} /\ UNCHANGED fault
        BY <1>9, <2>2 DEF MessageAlloc
      <3> QED
        BY <1>3, <2>1, <2>2, <3>1 DEF Blocks
    <2>3. CASE handler' = "return"
      <3>1. \/ Free({"header_buf", "file_buf"}, heap)
            \/ Free(Response \ {"vec"}, heap \cup {"message"})
        BY <1>9, <2>3 DEF MessageAlloc
      <3>2. heap' \subseteq Conns /\ heap \ heap' \subseteq Transient
            /\ fault' = "none"
        BY <1>2, <1>3, <2>1, <3>1 DEF Free
      <3> QED
        BY <2>3, <3>2 DEF Blocks
    <2> QED
      BY <1>9, <2>2, <2>3 DEF MessageAlloc
  <1>10. CASE SendHeader \/ SendBody
    <2>1. Response \subseteq heap /\ heap \subseteq Response \cup Conns
      BY <1>1, <1>10 DEF SendHeader, SendBody, SendBodyAndFree, Blocks
    <2>2. \/ handler' = "send_body" /\ UNCHANGED <<heap, fault>>
          \/ handler' = "return" /\ Free(Response, heap)
      BY <1>10 DEF SendHeader, SendBody, SendBodyAndFree
    <2>3. CASE handler' = "send_body"
      BY <1>1, <2>1, <2>2, <2>3 DEF Blocks
    <2>4. CASE handler' = "return"
      <3>1. heap' = heap \ Response /\ fault' = "none"
        BY <2>1, <2>2, <2>4 DEF Free
      <3> QED
        BY <1>3, <2>1, <2>4, <3>1 DEF Blocks
    <2> QED
      BY <2>2, <2>3, <2>4
  <1> QED
    BY <1>4, <1>5, <1>6, <1>7, <1>8, <1>9, <1>10
    DEF Handling, handle_http_request5

\* The steps of a handler leave the processes alone, and the processes' steps
\* leave what is being built alone.
LEMMA HandlerTypeStep ==
    ASSUME IInv, Next
    PROVE  /\ handler' \in {"idle", "request", "recv", "respond", "header",
                            "message", "send_header", "send_body", "return"}
           /\ rx' \in [Conns -> Arrival]
           /\ heap' \subseteq Transient \cup Conns
           /\ fault' \in {"none", "null dereference", "bad free",
                          "double release"}
  <1>1. /\ handler \in {"idle", "request", "recv", "respond", "header",
                        "message", "send_header", "send_body", "return"}
        /\ rx \in [Conns -> Arrival]
        /\ heap \subseteq Transient \cup Conns
        /\ fault = "none"
    BY DEF IInv, TypeOK, Next
  <1>2. CASE UNCHANGED work
    BY <1>1, <1>2 DEF work
  <1>3. CASE Insmod \/ Release \/ Accept
    BY <1>1, <1>3 DEF Insmod, Release, Accept
  <1>4. CASE ExitReleases(request_target)
    BY <1>1, <1>4 DEF ExitReleases
  <1>5. CASE Handling
    <2>1. /\ heap' \subseteq Transient \cup Conns
          /\ fault' \in {"none", "null dereference"}
      BY <1>1, <1>5, HandlerHeap
    <2>2. /\ handler' \in {"recv", "respond", "header", "message",
                            "send_header", "send_body", "return"}
          /\ UNCHANGED rx
      BY <1>5
      DEF Handling, handle_http_request5, RequestAlloc, Recv, RecvFails,
          FindPage, Header, MessageAlloc, SendHeader, SendBody,
          SendBodyAndFree
    <2> QED
      BY <1>1, <2>1, <2>2
  <1>6. ASSUME NEW c \in Conns, NEW a \in Arrivals, Transmit(c, a)
        PROVE  rx' \in [Conns -> Arrival] /\ UNCHANGED <<handler, heap, fault>>
    BY <1>1, <1>6, EarlyAssumption DEF Transmit
  <1>7. ASSUME NEW c \in Conns, Connect(c) PROVE UNCHANGED work
    BY <1>7 DEF Connect
  <1> QED
    BY <1>1, <1>2, <1>3, <1>4, <1>5, <1>6, <1>7
    DEF Next, ks_init5, Load, ks_exit5, StopThread, Thread, listen_loop5, Loop,
        Handling, Environment, AcceptError

\* The target is a string, the page a file, the status one of the two.
LEMMA PageTypeStep ==
    ASSUME IInv, Next
    PROVE  /\ request_target' \in {NULL, LITERAL} \cup Conns
           /\ target' \in Targets \cup {NULL}
           /\ request_target' # NULL => target' \in Targets
           /\ status' \in {0, 200, 404}
           /\ body' \in Paths \cup {NULL}
  <1>1. /\ request_target \in {NULL, LITERAL} \cup Conns
        /\ target \in Targets \cup {NULL}
        /\ request_target # NULL => target \in Targets
        /\ status \in {0, 200, 404}
        /\ body \in Paths \cup {NULL}
    BY DEF IInv, TypeOK, AnswerInv
  <1>2. CASE UNCHANGED <<request_target, target, status, body>>
    BY <1>1, <1>2
  <1>3. CASE Insmod /\ UNCHANGED page5
    BY <1>1, <1>3 DEF Insmod, page5
  <1>4. CASE Recv /\ UNCHANGED page5
    <2>1. conn_from_client \in Conns
      BY <1>4 DEF Recv, IInv, PlaceInv
    <2>2. PICK token \in Tokens(rx[conn_from_client]) : Parse(token)
      BY <1>4 DEF Recv
    <2>3. token.target \in Targets \cup {NULL}
      <3>1. rx \in [Conns -> Arrival]
        BY DEF IInv, TypeOK
      <3>2. rx[conn_from_client] \in Arrival
        BY <2>1, <3>1
      <3> QED
        BY <3>2, TokenTypes
    <2>4. \/ UNCHANGED <<request_target, target>>
          \/ request_target' \in Conns /\ target' \in Targets
      BY <2>1, <2>2, <2>3 DEF Parse
    <2> QED
      BY <1>1, <1>4, <2>4 DEF page5
  <1>5. CASE FindPage
    <2>1. CASE UNCHANGED <<request_target, target>>
      <3>1. Readable' => Page' \in Paths
        <4>1. UNCHANGED <<Page, Readable>>
          BY <1>5, <2>1 DEF FindPage, Page, Readable
        <4> QED
          BY <4>1, PageType DEF IInv
      <3>2. body' \in Paths \cup {NULL}
        BY <1>5, <3>1 DEF FindPage, read_file
      <3> QED
        BY <1>1, <1>5, <2>1, <3>2 DEF FindPage
    <2>2. CASE request_target' = LITERAL /\ target' = Index
      <3>1. Index \in Paths /\ Index \in Targets
        BY RequestAssumption DEF Targets
      <3>2. Page' \in Paths
        BY <2>2, <3>1, Phase5Assumption DEF Page, PathOf
      <3>3. body' \in Paths \cup {NULL}
        BY <1>5, <3>2 DEF FindPage, read_file
      <3> QED
        BY <1>1, <1>5, <2>2, <3>1, <3>3 DEF FindPage
    <2> QED
      BY <1>5, <2>1, <2>2 DEF FindPage, Path
  <1>6. CASE Header
    BY <1>1, <1>6 DEF Header
  <1>7. CASE MessageAlloc \/ SendHeader \/ SendBody
    BY <1>2, <1>7
    DEF MessageAlloc, SendHeader, SendBody, SendBodyAndFree, page5
  <1>8. CASE ks_exit5 \/ listen_loop5
    BY <1>2, <1>8 DEF ks_exit5, StopThread, ExitReleases, listen_loop5, Loop,
                      Accept, Release, work, page5
  <1>9. CASE (Load \/ RequestAlloc \/ RecvFails) /\ UNCHANGED page5
    BY <1>2, <1>9 DEF Load, RequestAlloc, RecvFails, work, page5
  <1>10. CASE Environment
    BY <1>2, <1>10 DEF Environment, AcceptError, Connect, Transmit, work, page5
  <1> QED
    BY <1>3, <1>4, <1>5, <1>6, <1>7, <1>8, <1>9, <1>10
    DEF Next, ks_init5, Thread, handle_http_request5

\* The files stay as they are, memory is there or not, and what is sent is a
\* status, a page or none, and how far it got.
LEMMA RestTypeStep ==
    ASSUME IInv, Next
    PROVE  /\ disk' \in [Paths -> BOOLEAN]
           /\ no_memory' \in BOOLEAN
           /\ reply' \in Replies
  <1>1. /\ disk \in [Paths -> BOOLEAN] /\ no_memory \in BOOLEAN
        /\ status \in {0, 200, 404} /\ body \in Paths \cup {NULL}
        /\ reply \in Replies
    BY DEF IInv, TypeOK
  <1>2. UNCHANGED disk
    BY DEF Next, ks_init5, ks_exit5, Thread, listen_loop5,
           handle_http_request5, FindPage, Header, MessageAlloc, SendHeader,
           SendBody, SendBodyAndFree, Environment, page5
  <1>3. no_memory' \in BOOLEAN
    <2>1. CASE FindPage
      BY <2>1 DEF FindPage, read_file
    <2>2. CASE ~FindPage
      BY <1>1, <2>2
      DEF Next, ks_init5, ks_exit5, Thread, listen_loop5,
          handle_http_request5, Header, MessageAlloc, SendHeader, SendBody,
          SendBodyAndFree, Environment, page5
    <2> QED
      BY <2>1, <2>2
  <1>4. reply' \in Replies
    <2>1. CASE Accept
      BY <2>1 DEF Accept, NoReply, Replies
    <2>2. CASE SendHeader
      BY <1>1, <2>2 DEF SendHeader, Replies
    <2>3. CASE SendBody
      <3>1. PICK sent \in {"header", "part", "whole"} :
                reply' = [reply EXCEPT !.sent = sent]
        BY <2>3 DEF SendBody, SendBodyAndFree
      <3> QED
        BY <1>1, <3>1 DEF Replies
    <2>4. CASE ~(Accept \/ SendHeader \/ SendBody)
      BY <1>1, <2>4
      DEF Next, ks_init5, Insmod, Load, ks_exit5, StopThread, ExitReleases,
          Thread, listen_loop5, Loop, Release, handle_http_request5,
          RequestAlloc, Recv, RecvFails, FindPage, Header, MessageAlloc,
          Environment, AcceptError, Connect, Transmit, work
    <2> QED
      BY <2>1, <2>2, <2>3, <2>4
  <1> QED
    BY <1>1, <1>2, <1>3, <1>4

\* Types are kept.
LEMMA TypeStep == IInv /\ Next => TypeOK'
  <1> SUFFICES ASSUME IInv, Next PROVE TypeOK'
    OBVIOUS
  <1>1. L!TypeOK'
    BY ListenerTypeStep
  <1>2. /\ handler' \in {"idle", "request", "recv", "respond", "header",
                         "message", "send_header", "send_body", "return"}
        /\ rx' \in [Conns -> Arrival]
        /\ heap' \subseteq Transient \cup Conns
        /\ fault' \in {"none", "null dereference", "bad free",
                       "double release"}
    BY HandlerTypeStep
  <1>3. /\ request_target' \in {NULL, LITERAL} \cup Conns
        /\ target' \in Targets \cup {NULL}
        /\ status' \in {0, 200, 404}
        /\ body' \in Paths \cup {NULL}
    BY PageTypeStep
  <1> QED
    BY <1>1, <1>2, <1>3, RestTypeStep DEF TypeOK

-----------------------------------------------------------------------------
(* The processes and the handlers                                          *)

\* The handlers' own steps neither start nor end the handling.
LEMMA HandlerSteps ==
    Handling => handler # "idle" /\ handler' # "idle" /\ UNCHANGED listener
  BY DEF Handling, handle_http_request5, RequestAlloc, Recv, RecvFails,
         FindPage, Header, MessageAlloc, SendHeader, SendBody, SendBodyAndFree

\* The thread and the handlers stay in step.
LEMMA PlaceStep == IInv /\ Next => PlaceInv'
  <1> SUFFICES ASSUME IInv, Next PROVE PlaceInv'
    OBVIOUS
  <1>1. PlaceInv /\ L!TypeOK
    BY DEF IInv, TypeOK
  <1>2. CASE Insmod
    BY <1>1, <1>2 DEF Insmod, L!SockCreate, PlaceInv, Running
  <1>3. CASE Load
    BY <1>1, <1>3 DEF Load, work, L!Bind, L!Listen, L!SpawnThread,
                      L!SpawnFails, L!close_socket, PlaceInv, Running
  <1>4. CASE StopThread
    BY <1>1, <1>4 DEF StopThread, work, L!StopThread, L!ThreadJoined, PlaceInv,
                      Running
  <1>5. CASE ExitReleases(request_target)
    BY <1>1, <1>5 DEF ExitReleases, PlaceInv, Running
  <1>6. CASE Loop \/ AcceptError
    BY <1>1, <1>6 DEF Loop, AcceptError, work, L!Check, L!AcceptInterrupted,
                      L!AcceptFails, PlaceInv, Running
  <1>7. CASE Accept
    <2>1. Head(backlog) \in Conns
      BY <1>1, <1>7 DEF Accept, L!Accept, L!TypeOK
    <2> QED
      BY <1>1, <1>7, <2>1 DEF Accept, L!Accept, PlaceInv, Running
  <1>8. CASE Release
    <2>1. client' = [client EXCEPT ![conn_from_client] = "released"]
      BY <1>8 DEF Release
    <2>2. client \in [Conns -> ClientStates]
      BY <1>1 DEF L!TypeOK, ClientStates
    <2>3. \A c \in Conns : client'[c] = "queued" => client[c] = "queued"
      BY <2>1, <2>2
    <2> QED
      BY <1>1, <1>8, <2>3 DEF Release, PlaceInv, Running
  <1>9. CASE UNCHANGED listener /\ (handler' = "idle" <=> handler = "idle")
    BY <1>1, <1>9 DEF listener, PlaceInv
  <1>10. ASSUME NEW c \in Conns, Connect(c) PROVE PlaceInv'
    BY <1>1, <1>10 DEF Connect, work, L!Connect, PlaceInv
  <1>11. ASSUME NEW c \in Conns, NEW a \in Arrivals, Transmit(c, a)
         PROVE  PlaceInv'
    BY <1>9, <1>11 DEF Transmit
  <1> QED
    BY <1>2, <1>3, <1>4, <1>5, <1>6, <1>7, <1>8, <1>9, <1>10, <1>11,
       HandlerSteps
    DEF Next, ks_init5, ks_exit5, Thread, Handling, listen_loop5, Environment

\* The only steps that touch a connection's socket are the accept and the
\* release of the same connection.
LEMMA ReleaseStep == IInv /\ Next => ThreadReleasesWhatItAccepts'
  <1> SUFFICES ASSUME IInv, Next PROVE ThreadReleasesWhatItAccepts'
    OBVIOUS
  <1>1. /\ PlaceInv
        /\ socks \ {LISTENER} = IF thread = "serve" THEN {conn_from_client}
                                                    ELSE {}
        /\ socks \subseteq Conns \cup {LISTENER}
        /\ backlog \in Seq(Conns)
    BY DEF IInv, TypeOK, L!TypeOK, Next, ThreadReleasesWhatItAccepts
  <1> USE DEF ThreadReleasesWhatItAccepts
  <1>2. CASE Insmod
    BY <1>1, <1>2 DEF Insmod, L!SockCreate, PlaceInv, Running
  <1>3. CASE Load
    <2>1. thread # "serve" /\ thread' # "serve"
      BY <1>1, <1>3 DEF Load, L!Bind, L!Listen, L!SpawnThread, L!SpawnFails,
                        PlaceInv, Running
    <2>2. socks' \subseteq socks
      BY <1>3 DEF Load, L!Bind, L!Listen, L!SpawnThread, L!SpawnFails,
                  L!close_socket
    <2> QED
      BY <1>1, <2>1, <2>2
  <1>4. CASE StopThread
    BY <1>1, <1>4 DEF StopThread, L!StopThread, L!ThreadJoined
  <1>5. CASE ExitReleases(request_target)
    <2>1. thread # "serve" /\ thread' # "serve"
      BY <1>1, <1>5 DEF ExitReleases, PlaceInv, Running
    <2> QED
      BY <1>1, <1>5, <2>1 DEF ExitReleases
  <1>6. CASE Loop \/ AcceptError
    BY <1>1, <1>6 DEF Loop, AcceptError, L!Check, L!AcceptInterrupted,
                      L!AcceptFails
  <1>7. CASE Accept
    <2>1. Head(backlog) \in Conns
      BY <1>1, <1>7 DEF Accept, L!Accept
    <2> QED
      BY <1>1, <1>7, <2>1, EarlyAssumption DEF Accept, L!Accept
  <1>8. CASE Release
    BY <1>1, <1>8 DEF Release, PlaceInv
  <1>9. CASE UNCHANGED listener
    BY <1>1, <1>9 DEF listener
  <1>10. ASSUME NEW c \in Conns, Connect(c)
         PROVE  ThreadReleasesWhatItAccepts'
    BY <1>1, <1>10 DEF Connect, L!Connect
  <1>11. ASSUME NEW c \in Conns, NEW a \in Arrivals, Transmit(c, a)
         PROVE  ThreadReleasesWhatItAccepts'
    BY <1>9, <1>11 DEF Transmit
  <1> QED
    BY <1>2, <1>3, <1>4, <1>5, <1>6, <1>7, <1>8, <1>9, <1>10, <1>11,
       HandlerSteps
    DEF Next, ks_init5, ks_exit5, Thread, Handling, listen_loop5, Environment

-----------------------------------------------------------------------------
(* What is allocated                                                       *)

\* What a place holds is what the place before it handed on.
LEMMA HeldStep == IInv /\ Next => HeldInv'
  <1> SUFFICES ASSUME IInv, Next PROVE HeldInv'
    OBVIOUS
  <1>1. /\ Blocks \subseteq heap /\ heap \subseteq Blocks \cup Conns
        /\ fault = "none" /\ PlaceInv
    BY DEF IInv, HeldInv, Next
  <1>2. ASSUME Blocks' \subseteq heap', heap' \subseteq Blocks' \cup Conns
        PROVE  HeldInv'
    BY <1>2 DEF HeldInv, OnlyTargetsSurvive, Blocks
  <1>3. ASSUME handler \in {"idle", "return"},
               handler' \in {"idle", "request", "return"}, heap' \subseteq heap
        PROVE  HeldInv'
    BY <1>1, <1>2, <1>3 DEF Blocks
  <1>4. CASE UNCHANGED <<handler, heap>>
    BY <1>1, <1>2, <1>4 DEF Blocks
  <1>5. CASE Insmod \/ Load \/ StopThread \/ Loop \/ AcceptError
    BY <1>4, <1>5 DEF Insmod, Load, StopThread, Loop, AcceptError, work
  <1>6. CASE ExitReleases(request_target)
    <2>1. handler = "idle"
      BY <1>1, <1>6 DEF ExitReleases, PlaceInv, Running
    <2>2. UNCHANGED handler /\ heap' \subseteq heap
      BY <1>6 DEF ExitReleases
    <2> QED
      BY <1>3, <2>1, <2>2
  <1>7. CASE Accept \/ Release
    <2>1. handler \in {"idle", "return"}
      BY <1>1, <1>7 DEF Accept, L!Accept, Release, PlaceInv
    <2>2. handler' \in {"idle", "request"} /\ UNCHANGED heap
      BY <1>7 DEF Accept, Release
    <2> QED
      BY <1>3, <2>1, <2>2
  <1>8. CASE Handling
    <2>1. \/ Blocks' \subseteq heap' /\ heap' \subseteq Blocks' \cup Conns
          \/ fault' = "null dereference" /\ handler' = "respond"
      BY <1>1, <1>8, HandlerHeap
    <2>2. CASE fault' = "null dereference" /\ handler' = "respond"
      BY <2>2 DEF HeldInv, OnlyTargetsSurvive
    <2> QED
      BY <1>2, <2>1, <2>2
  <1>9. ASSUME NEW c \in Conns, Connect(c) \/ \E a \in Arrivals : Transmit(c, a)
        PROVE  UNCHANGED <<handler, heap>>
    BY <1>9 DEF Connect, Transmit, work
  <1> QED
    BY <1>4, <1>5, <1>6, <1>7, <1>8, <1>9
    DEF Next, ks_init5, ks_exit5, Thread, listen_loop5, Handling, Environment

\* Only the three buffers and what read_file and the response allocate are
\* ever freed before ks_exit, and none of them is a target.
LEMMA TargetStep == IInv /\ Next => TargetInv'
  <1> SUFFICES ASSUME IInv, Next PROVE TargetInv'
    OBVIOUS
  <1>1. /\ fault = "none"
        /\ loader # "absent" => request_target \in heap \cup {NULL, LITERAL}
        /\ request_target \in {NULL, LITERAL} \cup Conns
        /\ PlaceInv
    BY DEF IInv, TargetInv, TypeOK, Next
  <1>2. NULL \notin Conns /\ (Transient \cup {"file"}) \cap Conns = {}
    BY EarlyAssumption, Phase5Assumption
  <1>3. ASSUME UNCHANGED request_target, fault' = "none",
               heap \ heap' \subseteq Transient \cup {"file"},
               loader' # "absent" => loader # "absent"
        PROVE  TargetInv'
    BY <1>1, <1>2, <1>3 DEF TargetInv, BadFreeOnlyOfLiteral
  <1>4. CASE Insmod
    BY <1>1, <1>4 DEF Insmod, TargetInv, BadFreeOnlyOfLiteral
  <1>5. CASE Load \/ StopThread \/ Loop \/ AcceptError
    <2>1. UNCHANGED <<heap, request_target, fault>>
      BY <1>5 DEF Load, StopThread, Loop, AcceptError, work
    <2>2. loader' # "absent" => loader # "absent"
      BY <1>5 DEF Load, StopThread, Loop, AcceptError, L!Bind, L!Listen,
                  L!SpawnThread, L!SpawnFails, L!StopThread, L!ThreadJoined,
                  L!Check, L!AcceptInterrupted, L!AcceptFails
    <2> QED
      BY <1>1, <1>3, <2>1, <2>2
  <1>6. CASE ExitReleases(request_target)
    <2>1. /\ loader = "stopped" /\ loader' = "absent"
          /\ UNCHANGED request_target
      BY <1>6 DEF ExitReleases
    <2>2. fault' = "bad free" => request_target = LITERAL
      BY <1>1, <1>6, <2>1 DEF ExitReleases
    <2> QED
      BY <2>1, <2>2 DEF TargetInv, BadFreeOnlyOfLiteral
  <1>7. CASE Accept \/ Release
    BY <1>1, <1>3, <1>7 DEF Accept, L!Accept, Release
  <1>8. CASE Handling
    <2>1. /\ heap \ heap' \subseteq Transient \cup {"file"}
          /\ fault' \in {"none", "null dereference"}
      BY <1>1, <1>8, HandlerHeap
    <2>2. UNCHANGED loader
      BY <1>8, HandlerSteps DEF listener
    <2>3. CASE fault' = "null dereference"
      BY <2>3 DEF TargetInv, BadFreeOnlyOfLiteral
    <2>4. CASE fault' = "none" /\ UNCHANGED request_target
      BY <1>3, <2>1, <2>2, <2>4
    <2>5. CASE fault' = "none" /\ request_target' = LITERAL
      BY <2>5 DEF TargetInv, BadFreeOnlyOfLiteral
    <2>6. CASE fault' = "none" /\ request_target' = conn_from_client /\ Recv
      <3>1. PICK token \in Tokens(rx[conn_from_client]) : Parse(token)
        BY <2>6 DEF Recv
      <3>2. conn_from_client \in Conns
        BY <1>1, <2>6 DEF Recv, PlaceInv
      <3>3. \/ UNCHANGED request_target
            \/ conn_from_client \in heap'
        BY <1>2, <2>6, <3>1, <3>2 DEF Parse, Free, Transient
      <3> QED
        BY <2>4, <2>6, <3>3 DEF TargetInv, BadFreeOnlyOfLiteral
    <2>7. \/ UNCHANGED request_target
          \/ FindPage /\ request_target' = LITERAL
          \/ Recv /\ request_target' = conn_from_client
      BY <1>8
      DEF Handling, handle_http_request5, RequestAlloc, Recv, Parse, RecvFails,
          FindPage, Path, Header, MessageAlloc, SendHeader, SendBody,
          SendBodyAndFree
    <2> QED
      BY <2>1, <2>3, <2>4, <2>5, <2>6, <2>7
  <1>9. ASSUME NEW c \in Conns, Connect(c) \/ \E a \in Arrivals : Transmit(c, a)
        PROVE  UNCHANGED <<heap, request_target, fault, loader>>
    BY <1>9 DEF Connect, L!Connect, Transmit, work, listener
  <1>10. CASE UNCHANGED <<heap, request_target, fault, loader>>
    BY <1>1, <1>3, <1>10
  <1> QED
    BY <1>4, <1>5, <1>6, <1>7, <1>8, <1>9, <1>10
    DEF Next, ks_init5, ks_exit5, Thread, listen_loop5, Handling, Environment

-----------------------------------------------------------------------------
(* The page                                                                *)

\* Where nothing is sent there is nothing to be wrong about.
LEMMA NothingSent ==
    ASSUME handler' \in {"idle", "request", "recv", "respond", "return"},
           handler' # "idle" => reply' = NoReply,
           request_target' # NULL => target' \in Targets
    PROVE  AnswerInv'
  BY DEF AnswerInv, PageOfTarget

\* The invariant only looks at these variables.
LEMMA AnswerKept ==
    ASSUME AnswerInv,
           UNCHANGED <<handler, heap, request_target, target, disk, status,
                       body, no_memory, reply>>
    PROVE  AnswerInv'
  <1>1. (Page' = Page) /\ (Readable' <=> Readable)
    BY DEF Page, Readable
  <1>2. /\ Fits(200, body)' <=> Fits(200, body)
        /\ Fits(404, body)' <=> Fits(404, body)
        /\ Fits(status, body)' <=> Fits(status, body)
        /\ Fits(reply.status, reply.path)' <=> Fits(reply.status, reply.path)
    BY <1>1 DEF Fits
  <1>3. PageOfTarget'
    BY <1>1 DEF AnswerInv, PageOfTarget
  <1> QED
    BY <1>2, <1>3 DEF AnswerInv

\* From read_file to the client, status and page stay together.
LEMMA AnswerStep == IInv /\ Next => AnswerInv'
  <1> SUFFICES ASSUME IInv, Next PROVE AnswerInv'
    OBVIOUS
  <1>1. AnswerInv /\ PlaceInv /\ reply \in Replies
    BY DEF IInv, TypeOK
  <1>2. request_target' # NULL => target' \in Targets
    BY PageTypeStep
  <1>3. CASE UNCHANGED <<work, page5>>
    BY <1>1, <1>3, AnswerKept DEF work, page5
  <1>4. CASE (Insmod \/ ExitReleases(request_target)) /\ UNCHANGED page5
    <2>1. handler = "idle"
      BY <1>1, <1>4 DEF Insmod, L!SockCreate, ExitReleases, PlaceInv, Running
    <2>2. UNCHANGED <<handler, reply>>
      BY <1>4 DEF Insmod, ExitReleases
    <2> QED
      BY <1>1, <1>2, <2>1, <2>2, NothingSent
  <1>5. CASE Accept \/ Release
    <2>1. /\ handler' \in {"idle", "request"}
          /\ handler' # "idle" => reply' = NoReply
      BY <1>5 DEF Accept, Release
    <2> QED
      BY <1>1, <1>2, <2>1, NothingSent
  <1>6. CASE RequestAlloc \/ Recv \/ RecvFails
    <2>1. /\ handler \in {"request", "recv"}
          /\ handler' \in {"recv", "respond"}
          /\ UNCHANGED reply
      BY <1>6 DEF RequestAlloc, Recv, RecvFails
    <2>2. reply' = NoReply
      BY <1>1, <2>1 DEF AnswerInv
    <2> QED
      BY <1>2, <2>1, <2>2, NothingSent
  <1>7. CASE FindPage
    <2>1. handler' = "header" /\ reply' = NoReply
      BY <1>1, <1>7 DEF FindPage, AnswerInv
    <2>2. "file_buf" \notin heap
      BY <1>7, Phase5Assumption
      DEF IInv, HeldInv, Next, FindPage, Blocks, Transient
    <2>3. IF "file_buf" \in heap' THEN Fits(200, body)' ELSE Fits(404, body)'
      BY <1>7, <2>2 DEF FindPage, read_file, Free, Fits
    <2> QED
      BY <1>2, <2>1, <2>3 DEF AnswerInv, PageOfTarget
  <1>8. CASE Header
    <2>1. reply' = NoReply
      BY <1>1, <1>8 DEF Header, AnswerInv
    <2>2. CASE handler' = "return"
      BY <1>2, <2>1, <2>2, NothingSent
    <2>3. CASE handler' = "message"
      <3>1. Fits(status', body)
        BY <1>1, <1>8, <2>3 DEF Header, AnswerInv
      <3>2. UNCHANGED <<request_target, target, disk, body, no_memory>>
        BY <1>8 DEF Header
      <3>3. Fits(status, body)'
        BY <3>1, <3>2 DEF Fits, Page, Readable
      <3> QED
        BY <1>2, <2>1, <2>3, <3>3 DEF AnswerInv, PageOfTarget
    <2> QED
      BY <1>8, <2>2, <2>3 DEF Header
  <1>9. CASE MessageAlloc \/ SendHeader
    <2>1. Fits(status, body) /\ reply = NoReply
      BY <1>1, <1>9 DEF MessageAlloc, SendHeader, AnswerInv
    <2>2. UNCHANGED <<request_target, target, disk, status, body, no_memory>>
      BY <1>9 DEF MessageAlloc, SendHeader, page5
    <2>3. Fits(status, body)'
      BY <2>1, <2>2 DEF Fits, Page, Readable
    <2>4. CASE handler' = "return"
      BY <1>2, <1>9, <2>1, <2>4, NothingSent DEF MessageAlloc, SendHeader
    <2>5. CASE handler' = "send_header"
      <3>1. reply' = NoReply
        BY <1>9, <2>1, <2>5 DEF MessageAlloc, SendHeader
      <3> QED
        BY <1>2, <2>3, <2>5, <3>1 DEF AnswerInv, PageOfTarget
    <2>6. CASE handler' = "send_body"
      <3>1. reply' = [status |-> status, path |-> body, sent |-> "header"]
        BY <1>9, <2>6 DEF MessageAlloc, SendHeader
      <3>2. Fits(reply.status, reply.path)'
        BY <2>2, <2>3, <3>1
      <3> QED
        BY <1>2, <2>6, <3>2 DEF AnswerInv, PageOfTarget, Fits
    <2> QED
      BY <1>9, <2>4, <2>5, <2>6 DEF MessageAlloc, SendHeader
  <1>10. CASE SendBody
    <2>1. Fits(reply.status, reply.path)
      BY <1>1, <1>10 DEF SendBody, SendBodyAndFree, AnswerInv
    <2>2. PICK sent \in {"header", "part", "whole"} :
              reply' = [reply EXCEPT !.sent = sent]
      BY <1>10 DEF SendBody, SendBodyAndFree
    <2>3. UNCHANGED <<reply.status, reply.path>>
      BY <1>1, <2>2 DEF Replies
    <2>4. /\ UNCHANGED <<request_target, target, disk, no_memory>>
          /\ handler' = "return"
      BY <1>10 DEF SendBody, SendBodyAndFree, page5
    <2>5. Fits(reply.status, reply.path)'
      <3>1. (Page' = Page) /\ (Readable' <=> Readable)
        BY <2>4 DEF Page, Readable
      <3> QED
        BY <2>1, <2>3, <2>4, <3>1 DEF Fits
    <2> QED
      BY <1>2, <2>3, <2>4, <2>5 DEF AnswerInv, PageOfTarget, Fits
  <1>11. ASSUME NEW c \in Conns, NEW a \in Arrivals,
                Transmit(c, a) /\ UNCHANGED page5
         PROVE  AnswerInv'
    BY <1>1, <1>11, AnswerKept DEF Transmit, page5
  <1>12. CASE ks_init5 \/ ks_exit5
    BY <1>3, <1>4, <1>12 DEF ks_init5, Load, ks_exit5, StopThread
  <1>13. CASE Thread
    BY <1>3, <1>5, <1>6, <1>7, <1>8, <1>9, <1>10, <1>13
    DEF Thread, listen_loop5, Loop, handle_http_request5
  <1>14. CASE Environment
    <2>1. ASSUME NEW c \in Conns, Connect(c) PROVE UNCHANGED work
      BY <2>1 DEF Connect
    <2> QED
      BY <1>3, <1>11, <1>14, <2>1 DEF Environment, AcceptError
  <1> QED
    BY <1>12, <1>13, <1>14 DEF Next

-----------------------------------------------------------------------------
(* The theorems                                                            *)

\* The invariant holds before the module is loaded.
LEMMA InitIInv == Init => IInv
  <1> SUFFICES ASSUME Init PROVE IInv
    OBVIOUS
  <1>1. L!TypeOK
    <2>1. <<>> \in Seq(Conns)
      OBVIOUS
    <2> QED
      BY <2>1 DEF Init, ServerInit, L!Init, L!TypeOK, L!LoaderStates,
                  L!ThreadStates
  <1>2. Silent \in Arrival
    BY DEF Silent, Arrival, Methods, Targets
  <1>3. TypeOK
    <2>1. NoReply \in Replies
      BY DEF NoReply, Replies
    <2> QED
      BY <1>1, <1>2, <2>1 DEF Init, ServerInit, TypeOK
  <1>4. PlaceInv
    BY DEF Init, ServerInit, L!Init, PlaceInv, Running
  <1>5. ThreadReleasesWhatItAccepts
    BY DEF Init, ServerInit, L!Init, ThreadReleasesWhatItAccepts
  <1>6. HeldInv
    BY DEF Init, ServerInit, HeldInv, Blocks, OnlyTargetsSurvive
  <1>7. AnswerInv
    BY DEF Init, ServerInit, AnswerInv, PageOfTarget
  <1>8. TargetInv
    BY DEF Init, ServerInit, L!Init, TargetInv, BadFreeOnlyOfLiteral
  <1> QED
    BY <1>3, <1>4, <1>5, <1>6, <1>7, <1>8 DEF IInv

\* It does not depend on anything but the variables.
LEMMA StutterStep == IInv /\ (UNCHANGED vars) => IInv'
  <1> SUFFICES ASSUME IInv, UNCHANGED vars PROVE IInv'
    OBVIOUS
  <1>1. UNCHANGED listener
    BY DEF vars
  <1>2. UNCHANGED <<handler, rx, heap, request_target, target, status, body,
                    fault>>
    BY DEF vars, work, page5
  <1>3. TypeOK /\ L!TypeOK
    BY DEF IInv, TypeOK
  <1>4. TypeOK'
    <2>1. L!TypeOK'
      BY <1>1, <1>3 DEF listener, L!TypeOK
    <2>2. rx' \in [Conns -> Arrival] /\ heap' \subseteq Transient \cup Conns
      BY <1>2, <1>3 DEF TypeOK
    <2>3. /\ request_target' \in {NULL, LITERAL} \cup Conns
          /\ target' \in Targets \cup {NULL}
          /\ body' \in Paths \cup {NULL}
      BY <1>2, <1>3 DEF TypeOK
    <2>4. handler' \in {"idle", "request", "recv", "respond", "header",
                        "message", "send_header", "send_body", "return"}
      BY <1>2, <1>3 DEF TypeOK
    <2>5. status' \in {0, 200, 404}
      BY <1>2, <1>3 DEF TypeOK
    <2>6. fault' \in {"none", "null dereference", "bad free",
                      "double release"}
      BY <1>2, <1>3 DEF TypeOK
    <2>7. disk' \in [Paths -> BOOLEAN] /\ no_memory' \in BOOLEAN
      <3>1. UNCHANGED <<disk, no_memory>>
        BY DEF vars, page5
      <3> QED
        BY <1>3, <3>1 DEF TypeOK
    <2>8. reply' \in Replies
      <3>1. UNCHANGED reply
        BY DEF vars, work
      <3> QED
        BY <1>3, <3>1 DEF TypeOK
    <2> QED
      BY <2>1, <2>2, <2>3, <2>4, <2>5, <2>6, <2>7, <2>8 DEF TypeOK
  <1>5. PlaceInv' /\ ThreadReleasesWhatItAccepts'
    BY <1>1, <1>2 DEF listener, IInv, PlaceInv, ThreadReleasesWhatItAccepts
  <1>6. HeldInv' /\ TargetInv'
    BY <1>1, <1>2 DEF listener, IInv, HeldInv, Blocks, OnlyTargetsSurvive,
                      TargetInv, BadFreeOnlyOfLiteral
  <1>7. AnswerInv'
    <2>1. AnswerInv
      BY DEF IInv
    <2>2. UNCHANGED <<handler, heap, request_target, target, disk, status,
                      body, no_memory, reply>>
      BY DEF vars, work, page5
    <2> QED
      BY <2>1, <2>2, AnswerKept
  <1> QED
    BY <1>4, <1>5, <1>6, <1>7 DEF IInv

\* No step breaks it.
THEOREM Invariance == Spec => []IInv
  <1>1. IInv /\ [Next]_vars => IInv'
    BY StutterStep, TypeStep, PlaceStep, ReleaseStep, HeldStep, TargetStep,
       AnswerStep
    DEF IInv
  <1> QED
    BY InitIInv, <1>1, PTL DEF Spec

\* Every variable keeps its type; no status is the 400 that the comment on
\* handle_http_response announces (phase5.c:77).
THEOREM Phase5Types == Spec => []TypeOK
  <1>1. IInv => TypeOK
    BY DEF IInv
  <1> QED
    BY Invariance, <1>1, PTL

\* The loop releases exactly what it accepted, on every path of the handlers.
THEOREM LoopReleases == Spec => []ThreadReleasesWhatItAccepts
  <1>1. IInv => ThreadReleasesWhatItAccepts
    BY DEF IInv
  <1> QED
    BY Invariance, <1>1, PTL

\* The handlers give back all they allocate, but for the request targets.
THEOREM OnlyTargetsLeft == Spec => []OnlyTargetsSurvive
  <1>1. IInv => OnlyTargetsSurvive
    BY DEF IInv, HeldInv
  <1> QED
    BY Invariance, <1>1, PTL

\* What is sent is the page of the target exactly when that can be read and
\* there was memory for it, and the 404 without a page otherwise.
THEOREM PageSent == Spec => []PageOfTarget
  <1>1. IInv => PageOfTarget
    BY DEF IInv, AnswerInv
  <1> QED
    BY Invariance, <1>1, PTL

\* No kfree of the handlers is of what is not allocated, whatever failed
\* before it, and neither is the one of ks_exit unless it gets the literal.
THEOREM BadFreeIsOfLiteral == Spec => []BadFreeOnlyOfLiteral
  <1>1. IInv => BadFreeOnlyOfLiteral
    BY DEF IInv, TargetInv
  <1> QED
    BY Invariance, <1>1, PTL

-----------------------------------------------------------------------------
(* The refinement: until something breaks, the same service as             *)
(* kern-serve.c's.                                                         *)

\* What EarlyServerProofs asks of a state.
LEMMA InItsPlace == IInv => InPlace
  <1> SUFFICES ASSUME IInv PROVE InPlace
    OBVIOUS
  <1>1. PlaceInv /\ backlog \in Seq(Conns)
    BY DEF IInv, TypeOK, L!TypeOK
  <1>2. client \in [Conns -> {"idle", "queued", "accepted", "released", "reset"}]
    BY DEF IInv, TypeOK, L!TypeOK
  <1>3. client \in [Conns -> ClientStates]
    BY <1>2 DEF ClientStates
  <1> QED
    BY <1>1, <1>3 DEF PlaceInv, InPlace

\* The handlers' steps keep the status that was sent, or send the first one.
LEMMA StatusSent ==
    ASSUME IInv, Handling
    PROVE  \/ UNCHANGED reply.status
           \/ reply.status = 0 /\ reply'.status \in {200, 404}
  <1>1. CASE SendHeader /\ reply' # reply
    <2>1. /\ handler = "send_header"
          /\ reply' = [status |-> status, path |-> body, sent |-> "header"]
      BY <1>1 DEF SendHeader
    <2> QED
      BY <2>1 DEF IInv, AnswerInv, Fits, NoReply
  <1>2. CASE SendBody
    <2>1. PICK sent \in {"header", "part", "whole"} :
              reply' = [reply EXCEPT !.sent = sent]
      BY <1>2 DEF SendBody, SendBodyAndFree
    <2>2. reply \in Replies
      BY DEF IInv, TypeOK
    <2> QED
      BY <2>1, <2>2 DEF Replies
  <1>3. CASE UNCHANGED reply
    BY <1>3
  <1> QED
    BY <1>1, <1>2, <1>3
    DEF Handling, handle_http_request5, RequestAlloc, Recv, RecvFails,
        FindPage, Header, MessageAlloc, SendHeader

\* Every step is a step of the service or is not seen.
LEMMA StepRefines == IInv /\ [Next]_vars => [Service!Next]_(Service!svars)
  <1> SUFFICES ASSUME IInv, [Next]_vars PROVE [Service!Next]_(Service!svars)
    OBVIOUS
  <1>1. InPlace
    BY InItsPlace
  <1>2. CASE UNCHANGED vars
    <2>1. UNCHANGED seen
      BY <1>2 DEF vars, listener, work, seen, Up, Serving, Code, Stage
    <2> QED
      BY <2>1, Unseen
  <1>3. CASE ks_init5 \/ ks_exit5
    BY <1>1, <1>3, LoadRefines, UnloadRefines DEF ks_init5, ks_exit5
  <1>4. CASE Loop \/ AcceptError
    BY <1>4, IdleRefines
  <1>5. CASE Accept
    BY <1>1, <1>5, AcceptRefines DEF Accept
  <1>6. CASE Release
    <2>1. thread = "serve"
      BY <1>6 DEF Release, IInv, PlaceInv
    <2> QED
      BY <1>1, <1>6, <2>1, ReleaseRefines DEF Release
  <1>7. CASE Handling
    BY <1>1, <1>7, HandlerSteps, StatusSent, HandlerRefines
  <1>8. ASSUME NEW c \in Conns, Connect(c) \/ \E a \in Arrivals : Transmit(c, a)
        PROVE  [Service!Next]_(Service!svars)
    BY <1>1, <1>8, ClientRefines
  <1> QED
    BY <1>2, <1>3, <1>4, <1>5, <1>6, <1>7, <1>8
    DEF Next, Thread, Handling, listen_loop5, Environment

\* phase5.c is the service HttpService describes, up to the first fault: in
\* order, one at a time, at most one answer each, and none cut off by rmmod.
THEOREM Refinement == Spec => ImplementsService
  <1>1. Init => Service!Init
    BY InitRefines DEF Init
  <1> QED
    BY <1>1, StepRefines, Invariance, PTL
    DEF Spec, ImplementsService, Service!Spec

\* No client is lost and none is in two places, whatever fails.
THEOREM ClientsAreInOrder == Spec => []ClientsInOrder
  <1>1. Spec => SP!Spec
    BY Refinement, SameService, PTL DEF ImplementsService, Service!Spec, SP!Spec
  <1>2. SP!Spec => []SP!Orderly
    BY EarlyAssumption, SP!ServiceIsOrderly
  <1> QED
    BY <1>1, <1>2, SameService, PTL

-----------------------------------------------------------------------------
(* Progress of rmmod                                                       *)

\* The handlers go on in one direction.
LEMMA HandlersGoOn ==
    Handling => handler' \in Successors
  BY DEF Handling, handle_http_request5, RequestAlloc, Recv, RecvFails,
         FindPage, Header, MessageAlloc, SendHeader, SendBody,
         SendBodyAndFree, Successors

\* From the stop request to its end the thread has at most 11 steps, polls not
\* counted, whatever clients and failing calls do meanwhile.
THEOREM StopIsNear == Spec => StopComesNearer
  <1> DEFINE Nearer == loader = "stopping" /\ loader' = "stopping" =>
                         StepsToStop' < StepsToStop
  <1>1. ASSUME IInv, [Next]_vars PROVE [Nearer]_<<loader, thread, handler>>
    <2>1. InPlace
      BY <1>1, InItsPlace
    <2>2. CASE ks_init5 \/ ks_exit5
      <3>1. ~(loader = "stopping" /\ loader' = "stopping")
        BY <2>2 DEF ks_init5, ks_exit5, Insmod, Load, StopThread, ExitReleases,
                    L!SockCreate, L!Bind, L!Listen, L!SpawnThread,
                    L!SpawnFails, L!StopThread, L!ThreadJoined
      <3> QED
        BY <3>1
    <2>3. CASE Loop \/ AcceptError
      BY <2>1, <2>3, LoopIsNearer
    <2>4. CASE Accept
      BY <2>4, AcceptIsNearer DEF Accept
    <2>5. CASE Release
      <3>1. thread = "serve"
        BY <1>1, <2>5 DEF Release, IInv, PlaceInv
      <3> QED
        BY <2>5, <3>1, ReleaseIsNearer DEF Release
    <2>6. CASE Handling
      <3>1. thread = "serve" /\ UNCHANGED thread
        BY <1>1, <2>6, HandlerSteps DEF listener, IInv, PlaceInv
      <3> QED
        BY <2>6, <3>1, HandlersGoOn, HandlerIsNearer
    <2>7. ASSUME \/ UNCHANGED vars
                 \/ \E c \in Conns : Connect(c) \/ \E a \in Arrivals : Transmit(c, a)
          PROVE  UNCHANGED <<loader, thread, handler>>
      BY <2>7 DEF vars, listener, work, Connect, L!Connect, Transmit
    <2> QED
      BY <1>1, <2>2, <2>3, <2>4, <2>5, <2>6, <2>7
      DEF Next, Thread, Handling, listen_loop5, Environment
  <1> QED
    BY <1>1, Invariance, PTL DEF Spec, StopComesNearer

===============================================================================
