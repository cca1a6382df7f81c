--------------------------- MODULE KsHandlerProofs ---------------------------
(***************************************************************************)
(* KsHandler for any clients, any files and anything the clients send: the *)
(* handler gives back all it holds, and frees nothing twice unless the     *)
(* message had no separator.                                               *)
(*                                                                         *)
(* The invariant says, for each place the thread can be in, exactly which  *)
(* objects are held there.  The one object it leaves open is the block of  *)
(* request_target, which a message without a second token does not get.    *)
(***************************************************************************)
EXTENDS KsHandler, TLAPS

Request == {"message", "vec", "buff"}
Reply == {"reply_message", "reply_vec"}

\* Where the strings of a request are in use.
Parsed == {"validate", "open", "read", "format", "respond", "send",
           "free_response", "free_strings"}

Strings == {"http_method"} \cup (heap \cap {"request_target"})

\* The objects held at each place.
Held ==
    CASE handler \in {"idle", "request", "return"}         -> {}
      [] handler \in {"recv", "parse", "free_request"}     -> Request
      [] handler \in {"validate", "open", "free_strings"}  -> Request \cup Strings
      [] handler = "read"   -> Request \cup Strings \cup {"file"}
      [] handler = "format" -> Request \cup Strings \cup {"file", "file_buffer"}
      [] handler \in {"respond", "free_response"} ->
             Request \cup Strings \cup owed
      [] handler = "send"   -> Request \cup Strings \cup owed \cup Reply
      [] OTHER -> heap

HeapInv ==
    /\ heap = Held
    /\ handler \in {"respond", "send", "free_response"} =>
           owed \subseteq {"file", "file_buffer", "response"}

\* The two static pointers point at this request's blocks; request_target
\* only does not when the message had no separator.
PointerInv ==
    /\ handler \in Parsed =>
           /\ http_method = "http_method"
           /\ request_target = NULL => "request_target" \notin heap
           /\ request_target # NULL /\ "request_target" \notin heap =>
                  rx[conn_from_client].kind \in {"fragment", "eof"}
    /\ BadFreeOnlyWithoutSeparator

\* A connection is being handled, and has something to read once it was read.
ConnectionInv ==
    /\ handler # "idle" => conn_from_client \in Conns
    /\ handler \in Parsed \cup {"parse", "oops"} =>
           rx[conn_from_client].kind \notin {"silent", "reset"}

\* A page is only looked for once there is a target.
TargetInv ==
    handler \in {"open", "read", "format"} => target \notin {NULL, ""}

IInv == HTypeOK /\ HeapInv /\ PointerInv /\ ConnectionInv /\ TargetInv

-----------------------------------------------------------------------------
(* Types                                                                   *)

\* The files and strings the handler computes with stay in their sets.
LEMMA PathTypes == \A t \in Targets \ {""} : PathOf(t) \in Paths
  BY RequestAssumption DEF RequestAssumption, PathOf, Targets

\* What strsep finds is a method and a target, or no target.
LEMMA TokenTypes ==
    ASSUME NEW a \in Arrival, NEW token \in Tokens(a)
    PROVE  token.method \in Methods /\ token.target \in Targets \cup {NULL}
  <1>1. a.method \in Methods /\ a.target \in Targets
    BY DEF Arrival
  <1>2. CASE a.kind = "line"
    BY <1>1, <1>2 DEF Tokens
  <1>3. CASE a.kind = "method"
    BY <1>1, <1>3 DEF Tokens
  <1>4. CASE a.kind = "fragment"
    BY <1>1, <1>4 DEF Tokens
  <1>5. CASE a.kind \notin {"line", "method", "fragment"}
    BY <1>1, <1>5 DEF Tokens
  <1> QED
    BY <1>2, <1>3, <1>4, <1>5

\* Only a message without a separator may have no second token.
LEMMA TokenKind ==
    ASSUME NEW a \in Arrival, a.kind \notin {"silent", "reset"},
           NEW token \in Tokens(a), token.target = NULL
    PROVE  a.kind \in {"fragment", "eof"}
  <1>1. NULL \notin Targets
    BY RequestAssumption DEF RequestAssumption
  <1>2. a.target \in Targets
    BY DEF Arrival
  <1>3. a.kind \in {"silent", "line", "method", "fragment", "eof", "reset"}
    BY DEF Arrival
  <1>4. a.kind # "line"
    <2>1. a.kind = "line" => token = [method |-> a.method, target |-> a.target]
      BY DEF Tokens
    <2> QED
      BY <1>1, <1>2, <2>1
  <1>5. a.kind # "method"
    BY <1>1 DEF Tokens
  <1> QED
    BY <1>3, <1>4, <1>5

\* A client that sent nothing is one of the arrivals.
LEMMA SilentType == Silent \in Arrival
  BY DEF Silent, Arrival, Methods, Targets

\* The responses the code sends are responses.
LEMMA ResponseTypes ==
    /\ NoReply \in Replies
    /\ \A code \in {404, 500, 501} : Status(code, NULL) \in Responses
    /\ \A path \in Paths : Status(200, path) \in Responses
    /\ \A r \in Responses, sent \in {"whole", "part", "failed"} :
           [code |-> r.code, path |-> r.path, sent |-> sent] \in Replies
  BY DEF NoReply, Replies, Responses, Codes, Status

\* Every step keeps the types.
LEMMA TypeStep == IInv /\ [HNext]_hvars => HTypeOK'
  <1> SUFFICES ASSUME HTypeOK, ConnectionInv, TargetInv, [HNext]_hvars
               PROVE  HTypeOK'
    BY DEF IInv
  <1> USE DEF HTypeOK
  <1>1. ASSUME NEW c \in Conns, Begin(c) PROVE HTypeOK'
    BY <1>1, ResponseTypes DEF Begin, HandlerStates
  <1>2. CASE Return
    BY <1>2, SilentType DEF Return, HandlerStates
  <1>3. CASE Reload
    BY <1>3 DEF Reload
  <1>4. ASSUME NEW c \in Conns, NEW a \in Arrivals, Arrive(c, a) PROVE HTypeOK'
    BY <1>4, HandlerAssumption DEF HandlerAssumption, Arrive
  <1>5. CASE RequestAlloc
    BY <1>5 DEF RequestAlloc, GiveBack, HandlerStates, HeapObjects
  <1>6. CASE Recv \/ AcceptGet
    BY <1>6 DEF Recv, AcceptGet, HandlerStates
  <1>7. CASE RecvFails \/ FreeRequest \/ Reject \/ FreeStrings
    BY <1>7 DEF RecvFails, FreeRequest, Reject, FreeStrings, Kfree, GiveBack,
                HandlerStates
  <1>8. CASE Tokenize
    <2>1. rx[conn_from_client] \in Arrival
      BY <1>8 DEF Tokenize, ConnectionInv
    <2>2. StaleTarget \subseteq Targets \cup {NULL}
      BY DEF StaleTarget
    <2>3. PICK token \in Tokens(rx[conn_from_client]) : Tokenize!2!(token)
      BY <1>8 DEF Tokenize
    <2>4. token.method \in Methods /\ token.target \in Targets \cup {NULL}
      BY <2>1, TokenTypes
    <2>5. method' \in Methods /\ target' \in Targets \cup {NULL}
      BY <2>2, <2>3, <2>4
    <2>6. handler' \in HandlerStates /\ heap' \subseteq HeapObjects
      BY <2>3 DEF HandlerStates, HeapObjects, GiveBack
    <2>7. /\ http_method' \in {NULL, "http_method"}
          /\ request_target' \in {NULL, "request_target"}
      BY <2>3
    <2>8. UNCHANGED <<conn_from_client, rx, disk, response, owed, reply>>
      BY <1>8 DEF Tokenize
    <2> QED
      BY <2>5, <2>6, <2>7, <2>8
  <1>9. CASE NotImplemented
    BY <1>9, ResponseTypes DEF NotImplemented, Respond, HandlerStates
  <1>10. CASE OpenFile
    <2>1. response' \in Responses /\ owed' \subseteq HeapObjects
      BY <1>10, ResponseTypes DEF OpenFile, Respond
    <2>2. handler' \in HandlerStates /\ heap' \subseteq HeapObjects
      BY <1>10 DEF OpenFile, Respond, HandlerStates, HeapObjects
    <2> QED
      BY <1>10, <2>1, <2>2 DEF OpenFile
  <1>11. CASE ReadFile
    <2>1. response' \in Responses
      BY <1>11, ResponseTypes DEF ReadFile, Respond
    <2>2. owed' \subseteq HeapObjects
      BY <1>11 DEF ReadFile, Respond, HeapObjects
    <2>3. handler' \in HandlerStates /\ heap' \subseteq HeapObjects
      BY <1>11 DEF ReadFile, Respond, GiveBack, HandlerStates, HeapObjects
    <2> QED
      BY <1>11, <2>1, <2>2, <2>3 DEF ReadFile
  <1>12. CASE FormatResponse
    <2>1. PathOf(target) \in Paths
      BY <1>12, PathTypes DEF FormatResponse, TargetInv
    <2>2. response' \in Responses
      BY <1>12, <2>1, ResponseTypes DEF FormatResponse, Respond
    <2>3. owed' \subseteq HeapObjects
      BY <1>12 DEF FormatResponse, Respond, HeapObjects
    <2>4. handler' \in HandlerStates /\ heap' \subseteq HeapObjects
      BY <1>12
      DEF FormatResponse, Respond, GiveBack, HandlerStates, HeapObjects
    <2> QED
      BY <1>12, <2>2, <2>3, <2>4 DEF FormatResponse
  <1>13. CASE ResponseAlloc
    BY <1>13 DEF ResponseAlloc, GiveBack, HandlerStates, HeapObjects
  <1>14. CASE FreeResponse
    BY <1>14 DEF FreeResponse, Kfree, GiveBack, HandlerStates
  <1>15. CASE Send
    <2>1. PICK sent \in {"whole", "part", "failed"} :
            reply' = [code |-> response.code, path |-> response.path,
                      sent |-> sent]
      BY <1>15 DEF Send
    <2>2. reply' \in Replies
      BY <2>1, ResponseTypes
    <2>3. handler' \in HandlerStates /\ heap' \subseteq HeapObjects
      BY <1>15 DEF Send, Kfree, GiveBack, HandlerStates
    <2> QED
      BY <1>15, <2>2, <2>3 DEF Send
  <1>16. CASE RecvAgain \/ UNCHANGED hvars
    BY <1>16 DEF RecvAgain, hvars
  <1> QED
    BY <1>1, <1>2, <1>3, <1>4, <1>5, <1>6, <1>7, <1>8, <1>9, <1>10, <1>11,
       <1>12, <1>13, <1>14, <1>15, <1>16 DEF HNext, Work

-----------------------------------------------------------------------------
(* The connection and the target.                                          *)

\* What handle_http_request frees last it holds.
LEMMA RequestIsHeld ==
    ASSUME HeapInv, handler \in {"recv", "free_request"}
    PROVE  {"vec", "buff", "message"} \ {NULL} \subseteq heap
  BY DEF HeapInv, Held, Request

\* The connection stays the one accepted, and what it has to read stays.
LEMMA ConnectionStep == IInv /\ [HNext]_hvars => ConnectionInv'
  <1> SUFFICES ASSUME HTypeOK, HeapInv, ConnectionInv, [HNext]_hvars
               PROVE  ConnectionInv'
    BY DEF IInv
  <1> USE DEF ConnectionInv, Parsed
  <1>1. ASSUME NEW c \in Conns, Begin(c) PROVE ConnectionInv'
    BY <1>1 DEF Begin
  <1>2. CASE Return
    BY <1>2 DEF Return
  <1>3. CASE Reload
    BY <1>3 DEF Reload
  <1>4. ASSUME NEW c \in Conns, NEW a \in Arrivals, Arrive(c, a)
        PROVE  ConnectionInv'
    <2>1. rx[c].kind = "silent"
      <3>1. Silent.kind = "silent"
        BY DEF Silent
      <3>2. rx[c] = Silent
        BY <1>4 DEF Arrive
      <3> QED
        BY <3>1, <3>2
    <2>2. handler \in Parsed \cup {"parse", "oops"} => c # conn_from_client
      BY <2>1
    <2> QED
      BY <1>4, <2>2 DEF Arrive, HTypeOK
  <1>5. CASE RequestAlloc
    BY <1>5 DEF RequestAlloc, GiveBack
  <1>6. CASE Recv \/ AcceptGet \/ NotImplemented
    BY <1>6 DEF Recv, AcceptGet, NotImplemented, Respond
  <1>7. CASE RecvFails \/ FreeRequest
    BY <1>7, RequestIsHeld DEF RecvFails, FreeRequest, Kfree, GiveBack
  <1>8. CASE Reject \/ FreeStrings \/ FreeResponse \/ Send
    BY <1>8 DEF Reject, FreeStrings, FreeResponse, Send, Kfree, GiveBack
  <1>9. CASE Tokenize
    BY <1>9 DEF Tokenize, GiveBack
  <1>10. CASE OpenFile \/ ReadFile \/ FormatResponse
    BY <1>10 DEF OpenFile, ReadFile, FormatResponse, GiveBack
  <1>11. CASE ResponseAlloc
    BY <1>11 DEF ResponseAlloc, GiveBack
  <1>12. CASE RecvAgain \/ UNCHANGED hvars
    BY <1>12 DEF RecvAgain, hvars
  <1> QED
    BY <1>1, <1>2, <1>3, <1>4, <1>5, <1>6, <1>7, <1>8, <1>9, <1>10, <1>11,
       <1>12 DEF HNext, Work

\* The target is validated before a page is looked for.
LEMMA TargetStep == IInv /\ [HNext]_hvars => TargetInv'
  <1> SUFFICES ASSUME HTypeOK, TargetInv, [HNext]_hvars PROVE TargetInv'
    BY DEF IInv
  <1> USE DEF TargetInv
  <1>1. ASSUME NEW c \in Conns, Begin(c) PROVE TargetInv'
    BY <1>1 DEF Begin
  <1>2. ASSUME NEW c \in Conns, NEW a \in Arrivals, Arrive(c, a)
        PROVE  TargetInv'
    BY <1>2 DEF Arrive
  <1>3. CASE Return \/ Reload \/ RequestAlloc \/ Recv
    BY <1>3 DEF Return, Reload, RequestAlloc, Recv, GiveBack
  <1>4. CASE RecvFails \/ FreeRequest \/ Reject \/ FreeStrings \/ FreeResponse
    BY <1>4 DEF RecvFails, FreeRequest, Reject, FreeStrings, FreeResponse, Kfree,
           GiveBack
  <1>5. CASE Tokenize
    BY <1>5 DEF Tokenize, GiveBack
  <1>6. CASE AcceptGet \/ NotImplemented
    BY <1>6 DEF AcceptGet, NotImplemented, Respond
  <1>7. CASE OpenFile \/ ReadFile \/ FormatResponse
    BY <1>7 DEF OpenFile, ReadFile, FormatResponse, GiveBack
  <1>8. CASE ResponseAlloc \/ Send
    BY <1>8 DEF ResponseAlloc, Send, Kfree, GiveBack
  <1>9. CASE RecvAgain \/ UNCHANGED hvars
    BY <1>9 DEF RecvAgain, hvars
  <1> QED
    BY <1>1, <1>2, <1>3, <1>4, <1>5, <1>6, <1>7, <1>8, <1>9 DEF HNext, Work

-----------------------------------------------------------------------------
(* The pointers and the heap.                                              *)

\* Where the strings are freed, one that is not held belongs to a message
\* without a separator.
LEMMA StringsAreHeld ==
    ASSUME IInv, handler \in {"validate", "free_strings"},
           rx[conn_from_client].kind \notin {"fragment", "eof"}
    PROVE  {http_method, request_target} \ {NULL} \subseteq heap
  <1>1. http_method \in heap
    BY DEF IInv, PointerInv, Parsed, HeapInv, Held, Strings
  <1>2. request_target # NULL => request_target \in heap
    BY DEF IInv, HTypeOK, PointerInv, Parsed
  <1> QED
    BY <1>1, <1>2

\* determine_response frees what it holds.
LEMMA OwedIsHeld ==
    ASSUME IInv, handler = "free_response"
    PROVE  owed \ {NULL} \subseteq heap
  BY DEF IInv, HeapInv, Held

\* handle_http_response frees what it holds.
LEMMA ReplyIsHeld ==
    ASSUME IInv, handler = "send"
    PROVE  {"reply_vec", "reply_message"} \ {NULL} \subseteq heap
  BY DEF IInv, HeapInv, Held, Reply

\* No step but a kfree of the strings ends badly.
LEMMA PointerStep == IInv /\ [HNext]_hvars => PointerInv'
  <1> SUFFICES ASSUME IInv, [HNext]_hvars PROVE PointerInv'
    OBVIOUS
  <1> USE HandlerAssumption
      DEF HandlerAssumption, HeapObjects, PointerInv,
          BadFreeOnlyWithoutSeparator, Parsed
  <1>1. ASSUME NEW c \in Conns, Begin(c) PROVE PointerInv'
    BY <1>1 DEF Begin
  <1>2. ASSUME NEW c \in Conns, NEW a \in Arrivals, Arrive(c, a)
        PROVE  PointerInv'
    <2>1. rx[c].kind = "silent"
      <3>1. Silent.kind = "silent"
        BY DEF Silent
      <3>2. rx[c] = Silent
        BY <1>2 DEF Arrive
      <3> QED
        BY <3>1, <3>2
    <2>2. handler \in Parsed \cup {"oops"} => c # conn_from_client
      BY <2>1 DEF IInv, ConnectionInv
    <2>3. handler \in Parsed \cup {"oops"} =>
              rx'[conn_from_client'] = rx[conn_from_client]
      BY <1>2, <2>2 DEF Arrive, IInv, HTypeOK, ConnectionInv
    <2> QED
      BY <1>2, <2>3 DEF Arrive, IInv
  <1>3. CASE Return \/ Reload \/ RequestAlloc \/ Recv
    BY <1>3 DEF Return, Reload, RequestAlloc, Recv, GiveBack, IInv
  <1>4. CASE RecvFails \/ FreeRequest
    BY <1>4, RequestIsHeld DEF RecvFails, FreeRequest, Kfree, GiveBack, IInv
  <1>5. CASE Tokenize
    <2> SUFFICES ASSUME handler' = "validate" PROVE PointerInv'
      BY <1>5 DEF Tokenize, GiveBack, IInv
    <2>1. PICK token \in Tokens(rx[conn_from_client]) : Tokenize!2!(token)
      BY <1>5 DEF Tokenize
    <2>2. UNCHANGED <<conn_from_client, rx>>
      BY <1>5 DEF Tokenize
    <2>3. "request_target" \notin heap
      BY <1>5 DEF Tokenize, IInv, HeapInv, Held, Request
    <2>4. token.target = NULL => rx[conn_from_client].kind \in {"fragment", "eof"}
      <3>1. /\ rx[conn_from_client] \in Arrival
            /\ rx[conn_from_client].kind \notin {"silent", "reset"}
        BY <1>5 DEF Tokenize, IInv, HTypeOK, ConnectionInv
      <3> QED
        BY <3>1, TokenKind
    <2>5. CASE token.target = NULL
      BY <2>1, <2>2, <2>3, <2>4, <2>5
    <2>6. CASE token.target # NULL
      BY <2>1, <2>2, <2>3, <2>6 DEF GiveBack
    <2> QED
      BY <2>5, <2>6
  <1>6. CASE Reject \/ FreeStrings
    BY <1>6, StringsAreHeld DEF Reject, FreeStrings, Kfree, GiveBack
  <1>7. CASE AcceptGet \/ NotImplemented
    BY <1>7 DEF AcceptGet, NotImplemented, Respond, IInv
  <1>8. CASE OpenFile \/ ReadFile \/ FormatResponse
    BY <1>8
    DEF OpenFile, ReadFile, FormatResponse, GiveBack, IInv, HeapInv, Held
  <1>9. CASE ResponseAlloc
    BY <1>9 DEF ResponseAlloc, GiveBack, IInv
  <1>10. CASE FreeResponse
    BY <1>10, OwedIsHeld DEF FreeResponse, Kfree, GiveBack, IInv, HeapInv
  <1>11. CASE Send
    BY <1>11, ReplyIsHeld DEF Send, Kfree, GiveBack, IInv
  <1>12. CASE RecvAgain \/ UNCHANGED hvars
    BY <1>12 DEF RecvAgain, hvars, IInv
  <1> QED
    BY <1>1, <1>2, <1>3, <1>4, <1>5, <1>6, <1>7, <1>8, <1>9, <1>10, <1>11,
       <1>12 DEF HNext, Work

\* What is held follows the thread.
LEMMA HeapStep == IInv /\ [HNext]_hvars => HeapInv'
  <1> SUFFICES ASSUME IInv, [HNext]_hvars PROVE HeapInv'
    OBVIOUS
  <1> USE DEF HeapInv, Held, Strings, Request, Reply
  <1>1. ASSUME NEW c \in Conns, Begin(c) PROVE HeapInv'
    BY <1>1 DEF Begin, IInv
  <1>2. ASSUME NEW c \in Conns, NEW a \in Arrivals, Arrive(c, a)
        PROVE  HeapInv'
    BY <1>2 DEF Arrive, IInv
  <1>3. CASE Return \/ Reload
    BY <1>3 DEF Return, Reload, IInv
  <1>4. CASE RequestAlloc
    BY <1>4 DEF RequestAlloc, GiveBack, IInv
  <1>5. CASE Recv \/ AcceptGet
    BY <1>5 DEF Recv, AcceptGet, IInv
  <1>6. CASE RecvFails \/ FreeRequest
    BY <1>6, RequestIsHeld DEF RecvFails, FreeRequest, Kfree, GiveBack, IInv
  <1>7. CASE Tokenize
    BY <1>7 DEF Tokenize, GiveBack, IInv
  <1>8. CASE Reject \/ FreeStrings
    <2>1. /\ heap = Request \cup {"http_method"} \cup (heap \cap {"request_target"})
          /\ heap' = heap \ {http_method, request_target}
          /\ handler' \in {"free_request", "oops"}
      BY <1>8 DEF Reject, FreeStrings, Kfree, GiveBack, IInv
    <2>2. /\ http_method = "http_method"
          /\ request_target \in {NULL, "request_target"}
          /\ request_target = NULL => "request_target" \notin heap
      BY <1>8 DEF Reject, FreeStrings, IInv, PointerInv, Parsed, HTypeOK
    <2>3. NULL \notin Request
      BY HandlerAssumption DEF HandlerAssumption, HeapObjects
    <2>4. heap' = Request
      BY <2>1, <2>2, <2>3
    <2> QED
      BY <2>1, <2>4
  <1>9. CASE NotImplemented
    BY <1>9 DEF NotImplemented, Respond, IInv
  <1>10. CASE OpenFile
    BY <1>10 DEF OpenFile, Respond, IInv
  <1>11. CASE ReadFile
    BY <1>11, HandlerAssumption
    DEF ReadFile, Respond, GiveBack, IInv, HandlerAssumption, HeapObjects
  <1>12. CASE FormatResponse
    BY <1>12, HandlerAssumption
    DEF FormatResponse, Respond, GiveBack, IInv, HandlerAssumption, HeapObjects
  <1>13. CASE ResponseAlloc
    BY <1>13, HandlerAssumption
    DEF ResponseAlloc, GiveBack, IInv, HandlerAssumption, HeapObjects
  <1>14. CASE FreeResponse
    BY <1>14 DEF FreeResponse, Kfree, GiveBack, IInv
  <1>15. CASE Send
    BY <1>15 DEF Send, Kfree, GiveBack, IInv
  <1>16. CASE RecvAgain \/ UNCHANGED hvars
    BY <1>16 DEF RecvAgain, hvars, IInv
  <1> QED
    BY <1>1, <1>2, <1>3, <1>4, <1>5, <1>6, <1>7, <1>8, <1>9, <1>10, <1>11,
       <1>12, <1>13, <1>14, <1>15, <1>16 DEF HNext, Work

-----------------------------------------------------------------------------
(* The properties.                                                         *)

\* Nothing is held before the first connection.
LEMMA InitIInv == HInit => IInv
  <1> SUFFICES ASSUME HInit PROVE IInv
    OBVIOUS
  <1>1. HTypeOK
    <2>1. rx \in [Conns -> Arrival]
      BY SilentType DEF HInit
    <2>2. response \in Responses
      BY DEF HInit, Status, Responses, Codes
    <2> QED
      BY <2>1, <2>2, ResponseTypes
      DEF HInit, HTypeOK, HandlerStates, Methods
  <1>2. HeapInv
    BY DEF HInit, HeapInv, Held
  <1>3. PointerInv /\ ConnectionInv /\ TargetInv
    BY DEF HInit, PointerInv, ConnectionInv, TargetInv, Parsed,
           BadFreeOnlyWithoutSeparator
  <1> QED
    BY <1>1, <1>2, <1>3 DEF IInv

\* The invariant holds whatever clients send and whichever kmalloc fails.
THEOREM Invariance == HSpec => []IInv
  <1>1. IInv /\ [HNext]_hvars => IInv'
    BY TypeStep, HeapStep, PointerStep, ConnectionStep, TargetStep DEF IInv
  <1> QED
    BY InitIInv, <1>1, PTL DEF HSpec

\* Every variable of the handler always holds a value of its type.
THEOREM HandlerTypes == HSpec => []HTypeOK
  <1>1. IInv => HTypeOK
    BY DEF IInv
  <1> QED
    BY Invariance, <1>1, PTL

\* Every connection gives back every block and file, on every path.
THEOREM NothingLeaks == HSpec => []NothingHeldBetweenConnections
  <1>1. IInv => NothingHeldBetweenConnections
    BY DEF IInv, HeapInv, Held, NothingHeldBetweenConnections
  <1> QED
    BY Invariance, <1>1, PTL

\* Nothing is freed twice while a message with a separator is handled.
THEOREM FreedOnce == HSpec => []BadFreeOnlyWithoutSeparator
  <1>1. IInv => BadFreeOnlyWithoutSeparator
    BY DEF IInv, PointerInv
  <1> QED
    BY Invariance, <1>1, PTL

-----------------------------------------------------------------------------
(* The answer.                                                             *)

Unanswered == {"request", "recv", "parse", "validate", "open", "read",
               "format", "respond", "send"}

\* A connection is not answered before Send, and once it is it has been read.
ReplyInv ==
    /\ handler \in Unanswered => reply = NoReply
    /\ handler \in {"respond", "send"} => response.code # 0
    /\ handler = "idle" <=> conn_from_client = NULL
    /\ handler # "idle" /\ reply # NoReply =>
           rx[conn_from_client].kind # "silent"

\* What is known of a whole request line at each place, up to the response.
LineInv ==
    LET a == rx[conn_from_client] IN
    handler # "idle" /\ a.kind = "line" =>
        /\ handler \in {"validate", "open", "read", "format"} =>
               method = a.method /\ target = a.target
        /\ handler \in {"open", "read", "format"} => method = "GET"
        /\ handler = "read" => disk[PathOf(target)] \in {"file", "directory"}
        /\ handler = "format" => disk[PathOf(target)] = "file"
        /\ handler \in {"respond", "send"} => response \in Expected(a, disk)

AInv == IInv /\ ReplyInv /\ LineInv /\ AnswerFitsRequest

\* A client that sends now has not been read or answered.
LEMMA OnlyUnreadArrive ==
    ASSUME AInv, NEW c \in Conns, NEW a \in Arrivals, Arrive(c, a)
    PROVE  handler # "idle" =>
             /\ rx'[conn_from_client] = rx[conn_from_client]
                \/ /\ reply = NoReply
                   /\ handler \notin Parsed \cup {"parse", "oops"}
  <1>1. rx[c].kind = "silent"
    <2>1. Silent.kind = "silent"
      BY DEF Silent
    <2>2. rx[c] = Silent
      BY DEF Arrive
    <2> QED
      BY <2>1, <2>2
  <1>2. CASE c = conn_from_client
    BY <1>1, <1>2 DEF AInv, IInv, ConnectionInv, ReplyInv
  <1>3. CASE c # conn_from_client
    BY <1>3 DEF Arrive, AInv, IInv, HTypeOK, ConnectionInv
  <1> QED
    BY <1>2, <1>3

\* Send is the only step that answers.
LEMMA ReplyStep == AInv /\ [HNext]_hvars => ReplyInv'
  <1> SUFFICES ASSUME AInv, [HNext]_hvars PROVE ReplyInv'
    OBVIOUS
  <1> USE HandlerAssumption
      DEF HandlerAssumption, ReplyInv, Unanswered, AInv, IInv, ConnectionInv,
          Parsed, Status
  <1>1. ASSUME NEW c \in Conns, Begin(c) PROVE ReplyInv'
    BY <1>1 DEF Begin
  <1>2. ASSUME NEW c \in Conns, NEW a \in Arrivals, Arrive(c, a)
        PROVE  ReplyInv'
    <2>1. UNCHANGED <<handler, conn_from_client, response, reply>>
      BY <1>2 DEF Arrive
    <2> QED
      BY <1>2, <2>1, OnlyUnreadArrive
  <1>3. CASE Return \/ Reload
    BY <1>3 DEF Return, Reload
  <1>4. CASE RequestAlloc \/ Recv
    BY <1>4 DEF RequestAlloc, Recv, GiveBack
  <1>5. CASE RecvFails \/ FreeRequest \/ Reject \/ FreeStrings \/ FreeResponse
    BY <1>5 DEF RecvFails, FreeRequest, Reject, FreeStrings, FreeResponse, Kfree,
           GiveBack
  <1>6. CASE Tokenize
    BY <1>6 DEF Tokenize, GiveBack
  <1>7. CASE AcceptGet \/ NotImplemented \/ OpenFile \/ ReadFile
             \/ FormatResponse
    <2>1. /\ handler' \in {"open", "respond", "read", "format", "oops"}
          /\ handler' = "respond" => response'.code # 0
      <3>1. CASE AcceptGet \/ NotImplemented
        <4>1. CASE AcceptGet
          BY <4>1 DEF AcceptGet
        <4>2. CASE NotImplemented
          <5>1. handler' = "respond" /\ response' = Status(501, NULL)
            BY <4>2 DEF NotImplemented, Respond
          <5> QED
            BY <5>1
        <4> QED
          BY <3>1, <4>1, <4>2
      <3>2. CASE OpenFile
        BY <3>2 DEF OpenFile, Respond
      <3>3. CASE ReadFile
        BY <3>3 DEF ReadFile, Respond, GiveBack
      <3>4. CASE FormatResponse
        BY <3>4 DEF FormatResponse, Respond, GiveBack
      <3> QED
        BY <1>7, <3>1, <3>2, <3>3, <3>4
    <2>2. handler \in {"validate", "open", "read", "format"}
      BY <1>7 DEF AcceptGet, NotImplemented, OpenFile, ReadFile, FormatResponse
    <2>3. UNCHANGED <<conn_from_client, rx, reply>>
      BY <1>7 DEF AcceptGet, NotImplemented, OpenFile, ReadFile, FormatResponse
    <2> QED
      BY <2>1, <2>2, <2>3
  <1>8. CASE ResponseAlloc
    BY <1>8 DEF ResponseAlloc, GiveBack
  <1>9. CASE Send
    BY <1>9 DEF Send, Kfree, GiveBack
  <1>10. CASE RecvAgain \/ UNCHANGED hvars
    BY <1>10 DEF RecvAgain, hvars
  <1> QED
    BY <1>1, <1>2, <1>3, <1>4, <1>5, <1>6, <1>7, <1>8, <1>9, <1>10
    DEF HNext, Work

\* A line that asks for a page.
Asks(a) == a.method = "GET" /\ a.target # ""

\* What the file's state makes of it: the page, unless something fails.
LEMMA ExpectedPage ==
    ASSUME NEW a, Asks(a), disk[PathOf(a.target)] = "file"
    PROVE  Expected(a, disk) =
               {Status(200, PathOf(a.target)), Status(500, NULL)}
  BY ZenonT(30) DEF Asks, Expected

\* A 404 for a missing file.
LEMMA ExpectedMissing ==
    ASSUME NEW a, Asks(a), disk[PathOf(a.target)] = "missing"
    PROVE  Expected(a, disk) = {Status(404, NULL)}
  BY ZenonT(30) DEF Asks, Expected

\* A 500 for one that is not missing and cannot be read.
LEMMA ExpectedUnreadable ==
    ASSUME NEW a, Asks(a), disk[PathOf(a.target)] \notin {"file", "missing"}
    PROVE  Expected(a, disk) = {Status(500, NULL)}
  BY ZenonT(30) DEF Asks, Expected

\* Each step of a request line narrows the answer down.
LEMMA LineStep == AInv /\ [HNext]_hvars => LineInv'
  <1> SUFFICES ASSUME AInv, [HNext]_hvars PROVE LineInv'
    OBVIOUS
  <1> USE DEF LineInv, AInv, IInv, ConnectionInv, Parsed
  <1>1. ASSUME NEW c \in Conns, Begin(c) PROVE LineInv'
    BY <1>1 DEF Begin
  <1>2. ASSUME NEW c \in Conns, NEW a \in Arrivals, Arrive(c, a)
        PROVE  LineInv'
    <2>1. UNCHANGED <<handler, conn_from_client, method, target, disk, response>>
      BY <1>2 DEF Arrive
    <2> QED
      BY <1>2, <2>1, OnlyUnreadArrive
  <1>3. CASE Return \/ Reload \/ RequestAlloc \/ Recv
    BY <1>3 DEF Return, Reload, RequestAlloc, Recv, GiveBack
  <1>4. CASE RecvFails \/ FreeRequest \/ Reject \/ FreeStrings \/ FreeResponse
    BY <1>4 DEF RecvFails, FreeRequest, Reject, FreeStrings, FreeResponse, Kfree,
           GiveBack
  <1>5. CASE Tokenize
    <2>1. PICK token \in Tokens(rx[conn_from_client]) : Tokenize!2!(token)
      BY <1>5 DEF Tokenize
    <2>2. UNCHANGED <<conn_from_client, rx>>
      BY <1>5 DEF Tokenize
    <2>3. rx[conn_from_client].kind = "line" =>
              token = [method |-> rx[conn_from_client].method,
                       target |-> rx[conn_from_client].target]
      BY DEF Tokens
    <2>4. rx[conn_from_client].target # NULL
      BY <1>5, RequestAssumption
      DEF Tokenize, HTypeOK, Arrival, RequestAssumption
    <2>5. handler' \in {"validate", "free_request", "oops"}
      BY <2>1 DEF GiveBack
    <2>6. rx[conn_from_client].kind = "line" /\ handler' = "validate" =>
              /\ method' = rx[conn_from_client].method
              /\ target' = rx[conn_from_client].target
      BY <2>1, <2>3, <2>4 DEF GiveBack
    <2> QED
      BY <2>2, <2>5, <2>6
  <1>6. CASE AcceptGet
    BY <1>6 DEF AcceptGet
  <1>7. CASE NotImplemented
    BY <1>7 DEF NotImplemented, Respond, Expected
  <1>8. CASE OpenFile
    <2>1. UNCHANGED <<conn_from_client, rx, disk, method, target>>
      BY <1>8 DEF OpenFile
    <2>2. handler' = "respond" /\ rx[conn_from_client].kind = "line" =>
              response' \in Expected(rx[conn_from_client], disk)
      <3> DEFINE a == rx[conn_from_client]
      <3> SUFFICES ASSUME handler' = "respond", a.kind = "line"
                   PROVE  response' \in Expected(a, disk)
        OBVIOUS
      <3>1. \/ /\ disk[PathOf(target)] = "missing"
               /\ response' = Status(404, NULL)
            \/ /\ disk[PathOf(target)] = "denied"
               /\ response' = Status(500, NULL)
        BY <1>8 DEF OpenFile, Respond
      <3>2. handler = "open"
        BY <1>8 DEF OpenFile
      <3>3. Asks(a) /\ a.target = target
        BY <3>2 DEF TargetInv, Asks
      <3> HIDE DEF a, LineInv, AInv, IInv, ConnectionInv, Parsed
      <3> QED
        BY <3>1, <3>3, ExpectedMissing, ExpectedUnreadable
    <2>3. handler' = "read" => disk[PathOf(target)] \in {"file", "directory"}
      BY <1>8 DEF OpenFile, Respond
    <2>4. handler' \in {"respond", "read"}
      BY <1>8 DEF OpenFile, Respond
    <2> QED
      BY <1>8, <2>1, <2>2, <2>3, <2>4 DEF OpenFile
  <1>9. CASE ReadFile
    <2>1. UNCHANGED <<conn_from_client, rx, disk, method, target>>
      BY <1>9 DEF ReadFile
    <2>2. handler' = "respond" /\ rx[conn_from_client].kind = "line" =>
              response' \in Expected(rx[conn_from_client], disk)
      <3> DEFINE a == rx[conn_from_client]
      <3> SUFFICES ASSUME handler' = "respond", a.kind = "line"
                   PROVE  response' \in Expected(a, disk)
        OBVIOUS
      <3>1. response' = Status(500, NULL)
        BY <1>9 DEF ReadFile, Respond, GiveBack
      <3>2. Asks(a)
        BY <1>9 DEF ReadFile, TargetInv, Asks
      <3>3. disk[PathOf(a.target)] \in {"file", "directory"}
        BY <1>9 DEF ReadFile
      <3> HIDE DEF a, LineInv, AInv, IInv, ConnectionInv, Parsed
      <3>4. Status(500, NULL) \in Expected(a, disk)
        BY <3>2, <3>3, ExpectedPage, ExpectedUnreadable
      <3> QED
        BY <3>1, <3>4
    <2>3. handler' = "format" => disk[PathOf(target)] = "file"
      BY <1>9 DEF ReadFile, GiveBack
    <2>4. handler' \in {"respond", "format", "oops"}
      BY <1>9 DEF ReadFile, GiveBack
    <2> QED
      BY <1>9, <2>1, <2>2, <2>3, <2>4 DEF ReadFile
  <1>10. CASE FormatResponse
    <2>1. UNCHANGED <<conn_from_client, rx, disk, method, target>>
      BY <1>10 DEF FormatResponse
    <2>2. rx[conn_from_client].kind = "line" =>
              response' \in Expected(rx[conn_from_client], disk)
      <3> DEFINE a == rx[conn_from_client]
      <3> SUFFICES ASSUME a.kind = "line" PROVE response' \in Expected(a, disk)
        OBVIOUS
      <3>1. response' \in {Status(500, NULL), Status(200, PathOf(target))}
        BY <1>10 DEF FormatResponse, Respond
      <3>2. handler = "format"
        BY <1>10 DEF FormatResponse
      <3>3. Asks(a) /\ a.target = target
        BY <3>2 DEF TargetInv, Asks
      <3>4. disk[PathOf(target)] = "file"
        BY <3>2
      <3> HIDE DEF a, LineInv, AInv, IInv, ConnectionInv, Parsed
      <3>5. {Status(200, PathOf(a.target)), Status(500, NULL)}
                \subseteq Expected(a, disk)
        BY <3>3, <3>4, ExpectedPage
      <3> QED
        BY <3>1, <3>3, <3>5
    <2>3. handler' \in {"respond", "oops"}
      BY <1>10 DEF FormatResponse, GiveBack
    <2> QED
      BY <2>1, <2>2, <2>3
  <1>11. CASE ResponseAlloc
    BY <1>11 DEF ResponseAlloc, GiveBack
  <1>12. CASE Send
    BY <1>12 DEF Send, Kfree, GiveBack
  <1>13. CASE RecvAgain \/ UNCHANGED hvars
    BY <1>13 DEF RecvAgain, hvars
  <1> QED
    BY <1>1, <1>2, <1>3, <1>4, <1>5, <1>6, <1>7, <1>8, <1>9, <1>10, <1>11,
       <1>12, <1>13 DEF HNext, Work

\* What Send puts on the connection is the response it was given.
LEMMA AnswerStep == AInv /\ [HNext]_hvars => AnswerFitsRequest'
  <1> SUFFICES ASSUME AInv, [HNext]_hvars PROVE AnswerFitsRequest'
    OBVIOUS
  <1> USE DEF AnswerFitsRequest, AInv, IInv, ConnectionInv
  <1>1. ASSUME NEW c \in Conns, Begin(c) PROVE AnswerFitsRequest'
    BY <1>1 DEF Begin
  <1>2. ASSUME NEW c \in Conns, NEW a \in Arrivals, Arrive(c, a)
        PROVE  AnswerFitsRequest'
    <2>1. UNCHANGED <<handler, conn_from_client, disk, reply>>
      BY <1>2 DEF Arrive
    <2> QED
      BY <1>2, <2>1, OnlyUnreadArrive DEF ReplyInv
  <1>3. CASE Return
    BY <1>3 DEF Return
  <1>4. CASE Send
    <2>1. PICK sent \in {"whole", "part", "failed"} :
            reply' = [code |-> response.code, path |-> response.path,
                      sent |-> sent]
      BY <1>4 DEF Send
    <2>2. Status(reply'.code, reply'.path) = response
      BY <2>1 DEF Status, HTypeOK, Responses
    <2>3. UNCHANGED <<conn_from_client, rx, disk>> /\ handler = "send"
      BY <1>4 DEF Send
    <2> QED
      BY <2>2, <2>3 DEF LineInv
  <1>5. CASE UNCHANGED <<conn_from_client, rx, disk, reply>>
    BY <1>5
  <1>6. ASSUME Reload \/ RecvAgain \/ UNCHANGED hvars \/ (Work /\ ~Send)
        PROVE  UNCHANGED <<conn_from_client, rx, disk, reply>>
    BY <1>6
    DEF Reload, RecvAgain, hvars, Work, RequestAlloc, Recv, RecvFails, Tokenize,
        Reject, NotImplemented, AcceptGet, OpenFile, ReadFile, FormatResponse,
        ResponseAlloc, FreeResponse, FreeStrings, FreeRequest
  <1> QED
    BY <1>1, <1>2, <1>3, <1>4, <1>5, <1>6 DEF HNext

\* The answers are right in every reachable state.
THEOREM AnswerInvariance == HSpec => []AInv
  <1>1. HInit => ReplyInv /\ LineInv /\ AnswerFitsRequest
    BY DEF HInit, ReplyInv, LineInv, AnswerFitsRequest, Unanswered
  <1>2. AInv /\ [HNext]_hvars => AInv'
    <2>1. AInv /\ [HNext]_hvars => IInv'
      BY TypeStep, HeapStep, PointerStep, ConnectionStep, TargetStep
      DEF AInv, IInv
    <2> QED
      BY <2>1, ReplyStep, LineStep, AnswerStep DEF AInv
  <1>3. HInit => AInv
    BY <1>1, InitIInv DEF AInv
  <1> QED
    BY <1>2, <1>3, PTL DEF HSpec

\* A request that arrived whole gets the answer it calls for, whatever the
\* connections before it left in the static strings.
THEOREM AnswersFit == HSpec => []AnswerFitsRequest
  <1>1. AInv => AnswerFitsRequest
    BY DEF AInv
  <1> QED
    BY AnswerInvariance, <1>1, PTL

\* No connection is answered twice.
THEOREM AnsweredOnce == HSpec => []OneResponse
  <1>1. AInv => OneResponse
    BY DEF AInv, ReplyInv, Unanswered, OneResponse
  <1> QED
    BY AnswerInvariance, <1>1, PTL

-----------------------------------------------------------------------------
(* Progress.  Work leads forward only, so a connection comes to its end in *)
(* a bounded number of steps; that the thread is run, and that a silent    *)
(* connection is not polled for ever, is what liveness would add.          *)

\* Where the handler may go from each place: the control flow of the four
\* functions, which has no cycle but the receive loop.
Successors ==
    CASE handler = "request"       -> {"recv", "return", "oops"}
      [] handler = "recv"          -> {"parse", "return", "oops"}
      [] handler = "parse"         -> {"validate", "free_request", "oops"}
      [] handler = "validate"      -> {"open", "respond", "free_request", "oops"}
      [] handler = "open"          -> {"respond", "read"}
      [] handler = "read"          -> {"respond", "format", "oops"}
      [] handler = "format"        -> {"respond", "oops"}
      [] handler = "respond"       -> {"send", "free_response", "oops"}
      [] handler = "send"          -> {"free_response", "oops"}
      [] handler = "free_response" -> {"free_strings", "oops"}
      [] handler = "free_strings"  -> {"free_request", "oops"}
      [] handler = "free_request"  -> {"return", "oops"}
      [] OTHER                     -> {}

\* Every action of Work goes to one of them.
LEMMA WorkGoesOn == Work => handler' \in Successors
  <1> SUFFICES ASSUME Work PROVE handler' \in Successors
    OBVIOUS
  <1>1. CASE RequestAlloc
    BY <1>1 DEF RequestAlloc, GiveBack, Successors
  <1>2. CASE Recv \/ RecvFails
    BY <1>2 DEF Recv, RecvFails, Kfree, GiveBack, Successors
  <1>3. CASE Tokenize
    <2>1. handler = "parse" /\ handler' \in {"validate", "free_request", "oops"}
      BY <1>3 DEF Tokenize, GiveBack
    <2> QED
      BY <2>1 DEF Successors
  <1>4. CASE Reject \/ NotImplemented \/ AcceptGet
    <2>1. handler = "validate"
      BY <1>4 DEF Reject, NotImplemented, AcceptGet
    <2>2. handler' \in {"open", "respond", "free_request", "oops"}
      BY <1>4, Zenon DEF Reject, NotImplemented, AcceptGet, Kfree, GiveBack
    <2> QED
      BY <2>1, <2>2 DEF Successors
  <1>5. CASE OpenFile
    BY <1>5 DEF OpenFile, Successors
  <1>6. CASE ReadFile
    BY <1>6 DEF ReadFile, GiveBack, Successors
  <1>7. CASE FormatResponse
    BY <1>7 DEF FormatResponse, GiveBack, Successors
  <1>8. CASE ResponseAlloc
    BY <1>8 DEF ResponseAlloc, GiveBack, Successors
  <1>9. CASE Send
    BY <1>9 DEF Send, Kfree, GiveBack, Successors
  <1>10. CASE FreeResponse \/ FreeStrings \/ FreeRequest
    BY <1>10
    DEF FreeResponse, FreeStrings, FreeRequest, Kfree, GiveBack, Successors
  <1> QED
    BY <1>1, <1>2, <1>3, <1>4, <1>5, <1>6, <1>7, <1>8, <1>9, <1>10 DEF Work

\* Each successor is nearer to the return.
LEMMA SuccessorsAreNearer ==
    ASSUME handler' \in Successors
    PROVE  StepsToReturn' < StepsToReturn /\ handler # "idle"
  BY DEF Successors, StepsToReturn

\* A connection is at most 13 steps from its end.
LEMMA StepsToReturnBounded ==
    handler \in HandlerStates => StepsToReturn \in 0..13
  BY DEF HandlerStates, StepsToReturn

\* Whatever fails, the handler never goes back to an earlier stage of the
\* connection: in at most 13 steps besides polls it has returned.
THEOREM HandlerReturns == HSpec => HandlerAdvances
  <1>1. ASSUME [HNext]_hvars, UNCHANGED handler \/ handler = "idle"
        PROVE  [handler # "idle" => StepsToReturn' < StepsToReturn]_handler
    BY <1>1
  <1>2. ASSUME Work
        PROVE  [handler # "idle" => StepsToReturn' < StepsToReturn]_handler
    BY <1>2, WorkGoesOn, SuccessorsAreNearer
  <1>3. ASSUME Return PROVE StepsToReturn' < StepsToReturn
    BY <1>3 DEF Return, StepsToReturn
  <1>4. ASSUME NEW c \in Conns, Begin(c) PROVE handler = "idle"
    BY <1>4 DEF Begin
  <1>5. ASSUME \/ Reload \/ RecvAgain \/ UNCHANGED hvars
               \/ \E c \in Conns, a \in Arrivals : Arrive(c, a)
        PROVE  UNCHANGED handler
    BY <1>5 DEF Reload, RecvAgain, Arrive, hvars
  <1>6. [HNext]_hvars =>
          [handler # "idle" => StepsToReturn' < StepsToReturn]_handler
    BY <1>1, <1>2, <1>3, <1>4, <1>5 DEF HNext
  <1> QED
    BY <1>6, PTL DEF HSpec, HandlerAdvances

=============================================================================
