-------------------------------- MODULE Phase5 --------------------------------
(***************************************************************************)
(* phase5.c, the other author's version of the server: EarlyServer with a  *)
(* handle_http_response that reads a file and sends a header and a body.   *)
(* LITERAL is the constant "/index.html".                                  *)
(***************************************************************************)
EXTENDS EarlyServer

CONSTANT LITERAL

Transient == Buffers \cup {"file_buf", "header_buf"}

ASSUME Phase5Assumption ==
    /\ LITERAL \notin Conns \cup {NULL}
    /\ (Transient \cup {"file"}) \cap Conns = {}

VARIABLES
    disk,               \* whether a path can be opened and read
    status, body,       \* the response being built, and its page if any
    no_memory           \* history: read_file gave up for want of memory

page5 == <<disk, status, body, no_memory>>

vars == <<listener, work, page5>>

Init ==
    /\ ServerInit
    /\ disk \in [Paths -> BOOLEAN]
    /\ status = 0
    /\ body = NULL
    /\ no_memory = FALSE

-----------------------------------------------------------------------------
(* "Copy and pasting phase 4.5"                                            *)

ks_init5 == (Insmod \/ Load) /\ UNCHANGED page5

ks_exit5 == (StopThread \/ ExitReleases(request_target)) /\ UNCHANGED page5

listen_loop5 == (Loop \/ Accept \/ Release) /\ UNCHANGED page5

handle_http_request5 ==
    (RequestAlloc \/ Recv \/ RecvFails) /\ UNCHANGED page5

-----------------------------------------------------------------------------
(* handle_http_response and read_file                                      *)

\* A target with ".." in it is replaced in the static pointer itself.
Path ==
    IF request_target # NULL /\ target = ".."
    THEN /\ request_target' = LITERAL
         /\ target' = Index
    ELSE UNCHANGED <<request_target, target>>

\* The page of a missing target is the index page.
Page == IF request_target = NULL THEN Index ELSE PathOf(target)

\* An empty target names SERVE_DIR itself, which cannot be read.
Readable == Page # "" /\ disk[Page]

Response == {"header_buf", "file_buf", "vec", "message"}

\* read_file: the contents, or NULL when the file cannot be opened or read or
\* there is no memory for either or for the buffer; an open file is closed.
read_file ==
    /\ no_memory' \in BOOLEAN
    /\ \/ /\ Readable' /\ ~no_memory'
          /\ Free({"file"}, heap \cup {"file", "file_buf"})
          /\ body' = Page'
       \/ /\ no_memory' \/ ~Readable'
          /\ \/ Free({}, heap)
             \/ no_memory' /\ Free({"file"}, heap \cup {"file"})
             \/ Free({"file", "file_buf"}, heap \cup {"file", "file_buf"})
          /\ body' = NULL

FindPage ==
    /\ handler = "respond"
    /\ handler' = "header"
    /\ UNCHANGED <<listener, rx, disk, status, reply>>
    /\ Path
    /\ read_file

\* Mutant: the header's status does not look at file_buf.
HeaderAlways200 ==
    /\ handler = "header"
    /\ handler' = "message"
    /\ heap' = heap \cup {"header_buf", "file_buf"}
    /\ status' = 200
    /\ UNCHANGED <<listener, rx, disk, request_target, target, body, no_memory,
                   reply, fault>>

\* The header, and a body for the 404 if it is one.
Header ==
    /\ handler = "header"
    /\ \/ /\ heap' = heap \cup {"header_buf", "file_buf"}
          /\ status' = IF "file_buf" \in heap THEN 200 ELSE 404
          /\ handler' = "message"
          /\ UNCHANGED fault
       \/ \* no memory for header_buf, or for the 404's body
          /\ \/ Free(heap \cap {"file_buf"}, heap)
             \/ /\ "file_buf" \notin heap
                /\ Free({"header_buf"}, heap \cup {"header_buf"})
          /\ handler' = "return"
          /\ UNCHANGED status
    /\ UNCHANGED <<listener, rx, disk, request_target, target, body, no_memory,
                   reply>>

\* message and vec; without one of them everything goes.
MessageAlloc ==
    /\ handler = "message"
    /\ \/ /\ heap' = heap \cup {"message", "vec"}
          /\ handler' = "send_header"
          /\ UNCHANGED fault
       \/ /\ \/ Free({"header_buf", "file_buf"}, heap)
             \/ Free(Response \ {"vec"}, heap \cup {"message"})
          /\ handler' = "return"
    /\ UNCHANGED <<listener, rx, request_target, target, reply, page5>>

\* The first kernel_sendmsg, repeated on -EAGAIN.
SendHeader ==
    /\ handler = "send_header"
    /\ \/ /\ handler' = "send_body"
          /\ reply' = [status |-> status, path |-> body, sent |-> "header"]
          /\ UNCHANGED <<heap, fault>>
       \/ /\ handler' = "return"
          /\ Free(Response, heap)
          /\ UNCHANGED reply
    /\ UNCHANGED <<listener, rx, request_target, target, page5>>

\* The second one, an error, a part of the body, or all of it; then the kfrees.
SendBodyAndFree(blocks) ==
    /\ handler = "send_body"
    /\ handler' = "return"
    /\ \E sent \in {"header", "part", "whole"} :
         reply' = [reply EXCEPT !.sent = sent]
    /\ Free(blocks, heap)
    /\ UNCHANGED <<listener, rx, request_target, target, page5>>

\* Mutant: the last four kfrees forget file_buf.
SendBodyLeaking == SendBodyAndFree(Response \ {"file_buf"})

\* Mutant: the target is freed with the rest, as kern-serve.c does.
SendBodyFreeingTarget == SendBodyAndFree(Response \cup {request_target})

SendBody == SendBodyAndFree(Response)

-----------------------------------------------------------------------------

Thread == listen_loop5 \/ handle_http_request5 \/ FindPage \/ Header
          \/ MessageAlloc \/ SendHeader \/ SendBody

Environment ==
    /\ \/ AcceptError
       \/ \E c \in Conns : Connect(c) \/ \E a \in Arrivals : Transmit(c, a)
    /\ UNCHANGED page5

\* Nothing is modelled after the first fault.
Next ==
    /\ fault = "none"
    /\ ks_init5 \/ ks_exit5 \/ Thread \/ Environment

\* insmod and rmmod come to their end once they were called.
Loading ==
    /\ fault = "none"
    /\ loader \notin {"absent", "loaded"}
    /\ ks_init5 \/ ks_exit5

Fairness ==
    /\ WF_vars(fault = "none" /\ Thread)
    /\ SF_vars(fault = "none" /\ Accept /\ UNCHANGED page5)
    /\ WF_vars(Loading)

Spec == Init /\ [][Next]_vars /\ Fairness

-----------------------------------------------------------------------------
(* Properties                                                              *)

\* Every variable holds a value of its type.
TypeOK ==
    /\ L!TypeOK
    /\ handler \in {"idle", "request", "recv", "respond", "header", "message",
                    "send_header", "send_body", "return"}
    /\ rx \in [Conns -> Arrival]
    /\ heap \subseteq Transient \cup Conns
    /\ request_target \in {NULL, LITERAL} \cup Conns
    /\ target \in Targets \cup {NULL}
    /\ reply \in Replies
    /\ disk \in [Paths -> BOOLEAN]
    /\ status \in {0, 200, 404}
    /\ body \in Paths \cup {NULL}
    /\ no_memory \in BOOLEAN
    /\ fault \in {"none", "null dereference", "bad free", "double release"}

\* A client gets the page of the current target if that can be read and there
\* was memory to read it with, and only then; otherwise it gets a 404 with no
\* page, which is how a file that is there is missed for want of memory.
PageOfTarget ==
    reply # NoReply /\ handler # "idle" =>
        IF Readable /\ ~no_memory
        THEN reply.status = 200 /\ reply.path = Page
        ELSE reply.status = 404 /\ reply.path = NULL

\* Every kfree of the handlers, on every return path, is of a block that is
\* allocated, and so is the one of the last target in ks_exit, unless that is
\* the literal.
BadFreeOnlyOfLiteral ==
    fault = "bad free" => loader = "absent" /\ request_target = LITERAL

\* What clients see is, up to the first fault, the service kern-serve.c
\* promises as well: in order, one at a time, one answer, none cut off.
ImplementsService == Service!Spec

(***************************************************************************)
(* Claims of the repository's comments and log lines that phase5.c breaks. *)
(***************************************************************************)

\* "conn_from_client released" (phase5.c:403): the socket ks_exit says it
\* releases is one the module still has.
ExitReleasesLiveSocket == fault # "double release"

\* "Objects allocated by kmalloc can be freed by kfree" (phase4.5.c:244):
\* kfree is called on such objects.
KfreeOnlyKmalloced == fault # "bad free"

=============================================================================
