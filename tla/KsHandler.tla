------------------------------- MODULE KsHandler -------------------------------
(***************************************************************************)
(* What the listen thread does with an accepted connection (kern-serve.c): *)
(* handle_http_request receives once, parse_http_request cuts the message  *)
(* at spaces, determine_response reads a file, handle_http_response sends. *)
(* Every kmalloc may fail; every kfree and filp_close of every path is     *)
(* here, so that what a path forgets or frees twice shows.                 *)
(*                                                                         *)
(* heap is the set of objects held: kmalloc'd blocks, named by the C       *)
(* variable that first holds them, and the open file.  http_method and     *)
(* request_target are static C pointers: they keep pointing at their block *)
(* after kfree, and keep that value from one connection to the next.       *)
(***************************************************************************)
EXTENDS Naturals, KsRequest

CONSTANTS
    Conns,      \* client connections
    Arrivals    \* what clients may put on a connection

HeapObjects == {"message", "vec", "buff", "http_method", "request_target",
                "file", "file_buffer", "response", "reply_message", "reply_vec"}

ASSUME HandlerAssumption ==
    /\ Arrivals \subseteq Arrival
    /\ NULL \notin Conns \cup HeapObjects

VARIABLES
    handler,            \* where the thread is in these functions
    conn_from_client,
    rx,                 \* what each connection has for kernel_recvmsg
    disk,               \* how each path answers filp_open and kernel_read
    heap,
    http_method, request_target,    \* the static pointers
    method, target,     \* the strings they were last seen to point at
    response,           \* what handle_http_response was asked to send
    owed,               \* what determine_response frees after it returns
    reply               \* history: what became of this connection's response

hvars == <<handler, conn_from_client, rx, disk, heap, http_method,
           request_target, method, target, response, owed, reply>>

HandlerStates == {"idle", "request", "recv", "parse", "validate", "open",
                  "read", "format", "respond", "send", "free_response",
                  "free_strings", "free_request", "return", "oops"}

Codes == {0, 200, 404, 500, 501}

\* What handle_http_response is given, and what became of it.
Responses == [code : Codes, path : Paths \cup {NULL}]
Replies == [code : Codes, path : Paths \cup {NULL},
            sent : {"nothing", "whole", "part", "failed"}]

NoReply == [code |-> 0, path |-> NULL, sent |-> "nothing"]

Status(code, path) == [code |-> code, path |-> path]

HInit ==
    /\ handler = "idle"
    /\ conn_from_client = NULL
    /\ rx = [c \in Conns |-> Silent]
    /\ disk \in [Paths -> DiskStates]
    /\ heap = {}
    /\ http_method = NULL
    /\ request_target = NULL
    /\ method = ""
    /\ target = NULL
    /\ response = Status(0, NULL)
    /\ owed = {}
    /\ reply = NoReply

-----------------------------------------------------------------------------
(* kmalloc and kfree                                                       *)

\* got was allocated, a call failed, and freed is given back.  kfree(NULL) is
\* a no-op.  Freeing what is not allocated corrupts the allocator: nothing
\* after that is modelled.
GiveBack(got, freed, next) ==
    /\ heap' = (heap \cup got) \ freed
    /\ handler' = IF freed \ {NULL} \subseteq heap \cup got THEN next ELSE "oops"

Kfree(objects, next) == GiveBack({}, objects, next)

-----------------------------------------------------------------------------
(* Clients: what a connection has to read is decided once.                 *)

Arrive(c, a) ==
    /\ rx[c] = Silent
    /\ rx' = [rx EXCEPT ![c] = a]
    /\ UNCHANGED <<handler, conn_from_client, disk, heap, http_method,
                   request_target, method, target, response, owed, reply>>

-----------------------------------------------------------------------------
(* listen_loop around the handler                                          *)

\* insmod: the statics of a fresh module are null.
Reload ==
    /\ handler = "idle"
    /\ http_method' = NULL
    /\ request_target' = NULL
    /\ UNCHANGED <<handler, conn_from_client, rx, disk, heap, method, target,
                   response, owed, reply>>

\* handle_http_request() is called for the connection just accepted.
Begin(c) ==
    /\ handler = "idle"
    /\ handler' = "request"
    /\ conn_from_client' = c
    /\ reply' = NoReply
    /\ UNCHANGED <<rx, disk, heap, http_method, request_target, method, target,
                   response, owed>>

\* It has returned, and listen_loop gives up the connection with whatever it
\* still had to read.
Return ==
    /\ handler = "return"
    /\ handler' = "idle"
    /\ conn_from_client' = NULL
    /\ rx' = [rx EXCEPT ![conn_from_client] = Silent]
    /\ UNCHANGED <<disk, heap, http_method, request_target, method, target,
                   response, owed, reply>>

-----------------------------------------------------------------------------
(* handle_http_request                                                     *)

RequestAlloc ==
    /\ handler = "request"
    /\ \/ /\ heap' = heap \cup {"message", "vec", "buff"}
          /\ handler' = "recv"
       \/ \* no memory for message, for vec, or for buff
          \/ GiveBack({}, {NULL}, "return")
          \/ GiveBack({"message"}, {NULL, "message"}, "return")
          \/ GiveBack({"message", "vec"}, {"vec", NULL, "message"}, "return")
    /\ UNCHANGED <<conn_from_client, rx, disk, http_method, request_target,
                   method, target, response, owed, reply>>

\* do { ... } while (ret == -EAGAIN ...): MSG_DONTWAIT with nothing to read.
RecvAgain ==
    /\ handler = "recv"
    /\ rx[conn_from_client].kind = "silent"
    /\ UNCHANGED hvars

\* Bytes, or zero of them at end of file: either way buff is parsed.
Recv ==
    /\ handler = "recv"
    /\ rx[conn_from_client].kind \notin {"silent", "reset"}
    /\ handler' = "parse"
    /\ UNCHANGED <<conn_from_client, rx, disk, heap, http_method,
                   request_target, method, target, response, owed, reply>>

RecvFails ==
    /\ handler = "recv"
    /\ rx[conn_from_client].kind = "reset"
    /\ Kfree({"vec", "buff", "message"}, "return")
    /\ UNCHANGED <<conn_from_client, rx, disk, http_method, request_target,
                   method, target, response, owed, reply>>

\* Mutant: the last three kfrees forget buff.
FreeRequestLeaking ==
    /\ handler = "free_request"
    /\ heap' = heap \ {"vec", "message"}
    /\ handler' = "return"
    /\ UNCHANGED <<conn_from_client, rx, disk, http_method, request_target,
                   method, target, response, owed, reply>>

FreeRequest ==
    /\ handler = "free_request"
    /\ Kfree({"vec", "buff", "message"}, "return")
    /\ UNCHANGED <<conn_from_client, rx, disk, http_method, request_target,
                   method, target, response, owed, reply>>

-----------------------------------------------------------------------------
(* parse_http_request                                                      *)

\* What strlen(request_target) will read when this message had no second
\* token: nothing for a null pointer, anything for a block freed earlier.
StaleTarget == IF request_target = NULL THEN {NULL} ELSE Targets

Tokenize ==
    /\ handler = "parse"
    /\ \E token \in Tokens(rx[conn_from_client]) :
        /\ method' = token.method
        /\ \/ \* no memory for http_method
              /\ http_method' = NULL
              /\ handler' = "free_request"
              /\ UNCHANGED <<heap, request_target, target>>
           \/ \* strsep found no second token: request_target keeps its value
              /\ token.target = NULL
              /\ http_method' = "http_method"
              /\ heap' = heap \cup {"http_method"}
              /\ target' \in StaleTarget
              /\ handler' = "validate"
              /\ UNCHANGED request_target
           \/ /\ token.target # NULL
              /\ http_method' = "http_method"
              /\ \/ /\ request_target' = "request_target"
                    /\ heap' = heap \cup {"http_method", "request_target"}
                    /\ target' = token.target
                    /\ handler' = "validate"
                 \/ \* no memory for request_target
                    /\ request_target' = NULL
                    /\ GiveBack({"http_method"}, {"http_method"},
                                "free_request")
                    /\ UNCHANGED target
    /\ UNCHANGED <<conn_from_client, rx, disk, response, owed, reply>>

\* Neither string may be missing or empty.
Reject ==
    /\ handler = "validate"
    /\ method = "" \/ target \in {NULL, ""}
    /\ Kfree({http_method, request_target}, "free_request")
    /\ UNCHANGED <<conn_from_client, rx, disk, http_method, request_target,
                   method, target, response, owed, reply>>

\* handle_http_response is called; afterwards later is freed.
Respond(status, later) ==
    /\ response' = status
    /\ owed' = later

\* Mutant: a status the server does not have.
NotImplementedAs405 ==
    /\ handler = "validate"
    /\ method = "other"
    /\ target \notin {NULL, ""}
    /\ handler' = "respond"
    /\ Respond(Status(405, NULL), {})
    /\ UNCHANGED <<conn_from_client, rx, disk, heap, http_method,
                   request_target, method, target, reply>>

NotImplemented ==
    /\ handler = "validate"
    /\ method = "other"
    /\ target \notin {NULL, ""}
    /\ handler' = "respond"
    /\ Respond(Status(501, NULL), {})
    /\ UNCHANGED <<conn_from_client, rx, disk, heap, http_method,
                   request_target, method, target, reply>>

AcceptGet ==
    /\ handler = "validate"
    /\ method = "GET"
    /\ target \notin {NULL, ""}
    /\ handler' = "open"
    /\ UNCHANGED <<conn_from_client, rx, disk, heap, http_method,
                   request_target, method, target, response, owed, reply>>

FreeStrings ==
    /\ handler = "free_strings"
    /\ Kfree({http_method, request_target}, "free_request")
    /\ UNCHANGED <<conn_from_client, rx, disk, http_method, request_target,
                   method, target, response, owed, reply>>

-----------------------------------------------------------------------------
(* determine_response                                                      *)

OpenFile ==
    /\ handler = "open"
    /\ LET answer == disk[PathOf(target)] IN
         \/ /\ answer = "missing"
            /\ handler' = "respond"
            /\ Respond(Status(404, NULL), {})
            /\ UNCHANGED heap
         \/ /\ answer = "denied"
            /\ handler' = "respond"
            /\ Respond(Status(500, NULL), {})
            /\ UNCHANGED heap
         \/ /\ answer \in {"file", "directory"}
            /\ heap' = heap \cup {"file"}
            /\ handler' = "read"
            /\ UNCHANGED <<response, owed>>
    /\ UNCHANGED <<conn_from_client, rx, disk, http_method, request_target,
                   method, target, reply>>

\* Mutant: bytes_read < 0 is not looked at.
ReadFileUnchecked ==
    /\ handler = "read"
    /\ heap' = heap \cup {"file_buffer"}
    /\ handler' = "format"
    /\ UNCHANGED <<conn_from_client, rx, disk, http_method, request_target,
                   method, target, response, owed, reply>>

ReadFile ==
    /\ handler = "read"
    /\ \/ \* no memory for file_buffer
          /\ GiveBack({}, {NULL}, "respond")
          /\ Respond(Status(500, NULL), {"file"})
       \/ /\ disk[PathOf(target)] = "directory"
          /\ GiveBack({"file_buffer"}, {"file", "file_buffer"}, "respond")
          /\ Respond(Status(500, NULL), {})
       \/ /\ disk[PathOf(target)] = "file"
          /\ heap' = heap \cup {"file_buffer"}
          /\ handler' = "format"
          /\ UNCHANGED <<response, owed>>
    /\ UNCHANGED <<conn_from_client, rx, disk, http_method, request_target,
                   method, target, reply>>

\* Mutant: the file is closed both before and after the 500.
FormatResponseClosingTwice ==
    /\ handler = "format"
    /\ \/ /\ GiveBack({}, {NULL, "file_buffer", "file"}, "respond")
          /\ Respond(Status(500, NULL), {"file"})
       \/ /\ heap' = heap \cup {"response"}
          /\ handler' = "respond"
          /\ Respond(Status(200, PathOf(target)),
                     {"response", "file_buffer", "file"})
    /\ UNCHANGED <<conn_from_client, rx, disk, http_method, request_target,
                   method, target, reply>>

FormatResponse ==
    /\ handler = "format"
    /\ \/ \* no memory for response
          /\ GiveBack({}, {NULL, "file_buffer", "file"}, "respond")
          /\ Respond(Status(500, NULL), {})
       \/ /\ heap' = heap \cup {"response"}
          /\ handler' = "respond"
          /\ Respond(Status(200, PathOf(target)),
                     {"response", "file_buffer", "file"})
    /\ UNCHANGED <<conn_from_client, rx, disk, http_method, request_target,
                   method, target, reply>>

\* Mutant: no return after the 501.
FreeResponseFallsThrough ==
    /\ handler = "free_response"
    /\ Kfree(owed, IF response.code = 501 THEN "open" ELSE "free_strings")
    /\ UNCHANGED <<conn_from_client, rx, disk, http_method, request_target,
                   method, target, response, owed, reply>>

\* What determine_response frees once handle_http_response has returned;
\* parse_http_request, which called one or the other, goes on.
FreeResponse ==
    /\ handler = "free_response"
    /\ Kfree(owed, "free_strings")
    /\ UNCHANGED <<conn_from_client, rx, disk, http_method, request_target,
                   method, target, response, owed, reply>>

-----------------------------------------------------------------------------
(* handle_http_response                                                    *)

ResponseAlloc ==
    /\ handler = "respond"
    /\ \/ /\ heap' = heap \cup {"reply_message", "reply_vec"}
          /\ handler' = "send"
       \/ \* no memory for message, or for vec
          \/ GiveBack({}, {NULL}, "free_response")
          \/ GiveBack({"reply_message"}, {NULL, "reply_message"},
                      "free_response")
    /\ UNCHANGED <<conn_from_client, rx, disk, http_method, request_target,
                   method, target, response, owed, reply>>

\* One non-blocking kernel_sendmsg.  It fails, or the socket takes all of
\* the text, or, when there is a page in it, the part it has room for.
Send ==
    /\ handler = "send"
    /\ \E sent \in {"whole", "failed"} \cup
                   (IF response.code = 200 THEN {"part"} ELSE {}) :
         reply' = [code |-> response.code, path |-> response.path,
                   sent |-> sent]
    /\ Kfree({"reply_vec", "reply_message"}, "free_response")
    /\ UNCHANGED <<conn_from_client, rx, disk, http_method, request_target,
                   method, target, response, owed>>

-----------------------------------------------------------------------------

\* Every step the thread takes between Begin and Return but the retry.
Work == RequestAlloc \/ Recv \/ RecvFails \/ Tokenize \/ Reject
        \/ NotImplemented \/ AcceptGet \/ OpenFile \/ ReadFile
        \/ FormatResponse \/ ResponseAlloc \/ Send \/ FreeResponse
        \/ FreeStrings \/ FreeRequest

HNext ==
    \/ \E c \in Conns : Begin(c)
    \/ RecvAgain
    \/ Work
    \/ Return
    \/ Reload
    \/ \E c \in Conns, a \in Arrivals : Arrive(c, a)

HSpec == HInit /\ [][HNext]_hvars

-----------------------------------------------------------------------------
(* Properties                                                              *)

\* Every variable holds a value of its type.
HTypeOK ==
    /\ handler \in HandlerStates
    /\ conn_from_client \in Conns \cup {NULL}
    /\ rx \in [Conns -> Arrival]
    /\ disk \in [Paths -> DiskStates]
    /\ heap \subseteq HeapObjects
    /\ http_method \in {NULL, "http_method"}
    /\ request_target \in {NULL, "request_target"}
    /\ method \in Methods
    /\ target \in Targets \cup {NULL}
    /\ response \in Responses
    /\ owed \subseteq HeapObjects
    /\ reply \in Replies

\* Whatever failed on the way, a connection leaves nothing allocated or open
\* behind: every return path of the four functions frees what it holds.
NothingHeldBetweenConnections ==
    handler \in {"idle", "return"} => heap = {}

\* A block is freed twice only when the message being handled reached the
\* server without a single separator: every other path, failed kmallocs
\* included, frees each block exactly once.
BadFreeOnlyWithoutSeparator ==
    handler = "oops" => rx[conn_from_client].kind \in {"fragment", "eof"}

\* The answers the code may give to a request that arrived in one piece.
\* 500 stands in for a page only when a file could not be read or held.
Expected(a, files) ==
    LET state == files[PathOf(a.target)] IN
    IF a.method = "" \/ a.target = "" THEN {}
    ELSE IF a.method # "GET" THEN {Status(501, NULL)}
    ELSE IF state = "file" THEN {Status(200, PathOf(a.target)),
                                 Status(500, NULL)}
    ELSE IF state = "missing" THEN {Status(404, NULL)}
    ELSE {Status(500, NULL)}

\* The response put on a connection is the one its own request calls for,
\* whatever earlier connections left in the static strings.
AnswerFitsRequest ==
    /\ conn_from_client # NULL
    /\ rx[conn_from_client].kind = "line"
    /\ reply # NoReply
    => Status(reply.code, reply.path) \in Expected(rx[conn_from_client], disk)

\* A connection is answered once: no error path falls through to a second
\* response after the first.
OneResponse ==
    handler \in {"respond", "send"} => reply = NoReply

\* How many steps the handler has at most before it returns, not counting the
\* polls of a connection that has nothing to read.
StepsToReturn ==
    CASE handler \in {"idle", "oops"} -> 0
      [] handler = "return"        -> 1
      [] handler = "free_request"  -> 2
      [] handler = "free_strings"  -> 3
      [] handler = "free_response" -> 4
      [] handler = "send"          -> 5
      [] handler = "respond"       -> 6
      [] handler = "format"        -> 7
      [] handler = "read"          -> 8
      [] handler = "open"          -> 9
      [] handler = "validate"      -> 10
      [] handler = "parse"         -> 11
      [] handler = "recv"          -> 12
      [] handler = "request"       -> 13

\* The four functions return: whichever calls fail, no error path leads back
\* to an earlier stage of the same connection, and 13 steps end it.
HandlerAdvances ==
    [][handler # "idle" => StepsToReturn' < StepsToReturn]_handler

\* "We only care about the first two tokens, which will give us the HTTP
\* method and the request-target" (kern-serve.c:299): the target that is
\* validated, opened and freed is a block cut from this message.
TargetIsOfThisMessage ==
    handler \in {"validate", "open"} /\ request_target # NULL =>
        request_target \in heap

\* "Response sent!" (kern-serve.c:425) is logged when the response went out,
\* all of it.
SentIsWhole ==
    handler = "free_response" /\ reply # NoReply =>
        reply.sent \in {"whole", "failed"}

=============================================================================
