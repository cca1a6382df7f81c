-------------------------------- MODULE KsPage --------------------------------
(***************************************************************************)
(* The arithmetic of determine_response (kern-serve.c): how much of the    *)
(* request target fits the path, how many bytes of the file are read, kept *)
(* and announced, how large the response is that snprintf puts together,   *)
(* and whether it fits the block allocated for it.  The numbers are the    *)
(* ones of the code, not scaled down; a file is the target that asks for   *)
(* it, its size and the place of its first zero byte.  Of a target there   *)
(* is its length and what the code tells apart: "root" is "/" or a null    *)
(* pointer, "dots" one with ".." in it, "name" any other.                  *)
(***************************************************************************)
EXTENDS Integers

CONSTANT Files    \* targets, sizes and offsets of the first zero byte

MAX_FILE_SIZE == 65536

\* The bytes of SERVE_DIR, of "/index.html", and of the array for the path.
ServeDir == 15
IndexHtml == 11
FilePath == 512

\* The 200 header with an empty Content-Length, the two bytes after the page,
\* and what the code adds to the page for both.
Header == 101
Trailer == 2
Slack == 124

\* Decimal digits of a length below ten million.
Digits(n) == CASE n < 10 -> 1
               [] n >= 10 /\ n < 100 -> 2
               [] n >= 100 /\ n < 1000 -> 3
               [] n >= 1000 /\ n < 10000 -> 4
               [] n >= 10000 /\ n < 100000 -> 5
               [] n >= 100000 /\ n < 1000000 -> 6
               [] OTHER -> 7

ASSUME PageAssumption ==
    \A f \in Files :
        /\ f.asks \in {"root", "dots", "name"}
        /\ f.name \in Nat
        /\ f.size \in Nat
        /\ f.zero \in 0 .. f.size

VARIABLES
    step,
    file,
    path_len,        \* bytes of filepath, its zero not counted
    bytes_read,
    terminator,      \* index of the zero written to file_buffer
    response_size,   \* bytes allocated for response
    wanted,          \* bytes snprintf has to write, its zero not counted
    written          \* bytes it wrote, its zero not counted

vars == <<step, file, path_len, bytes_read, terminator, response_size, wanted,
          written>>

Least(a, b) == IF a <= b THEN a ELSE b

Init ==
    /\ step = "path"
    /\ file \in Files
    /\ path_len = 0
    /\ bytes_read = 0
    /\ terminator = 0
    /\ response_size = 0
    /\ wanted = 0
    /\ written = 0

\* snprintf into filepath: the index page stands for a missing target and for
\* one with dots, however long; another target is cut where the array ends,
\* and what is left of the path is opened.
Path ==
    /\ step = "path"
    /\ step' = "read"
    /\ path_len' = LET asked == IF file.asks = "name" THEN file.name
                                                     ELSE IndexHtml
                   IN  Least(ServeDir + asked, FilePath - 1)
    /\ UNCHANGED <<file, bytes_read, terminator, response_size, wanted,
                   written>>

\* kernel_read: at most MAX_FILE_SIZE bytes.  A read that returns fewer than
\* the file has is the read of a shorter file.
Read ==
    /\ step = "read"
    /\ step' = "terminate"
    /\ bytes_read' = Least(file.size, MAX_FILE_SIZE)
    /\ UNCHANGED <<file, path_len, terminator, response_size, wanted, written>>

\* Mutant: > for >=.
TerminateOffByOne ==
    /\ step = "terminate"
    /\ step' = "allocate"
    /\ bytes_read' = IF bytes_read > MAX_FILE_SIZE THEN MAX_FILE_SIZE - 1
                                                   ELSE bytes_read
    /\ terminator' = bytes_read'
    /\ UNCHANGED <<file, path_len, response_size, wanted, written>>

\* The last byte of a full buffer gives way to the terminator.
Terminate ==
    /\ step = "terminate"
    /\ step' = "allocate"
    /\ bytes_read' = IF bytes_read >= MAX_FILE_SIZE THEN MAX_FILE_SIZE - 1
                                                    ELSE bytes_read
    /\ terminator' = bytes_read'
    /\ UNCHANGED <<file, path_len, response_size, wanted, written>>

\* Mutant: the slack with the wrong sign.
AllocateLess ==
    /\ step = "allocate"
    /\ step' = "format"
    /\ response_size' = bytes_read - 124
    /\ UNCHANGED <<file, path_len, bytes_read, terminator, wanted, written>>

\* Mutant: the slack is the header of a one-digit length.
AllocateTight ==
    /\ step = "allocate"
    /\ step' = "format"
    /\ response_size' = bytes_read + 102
    /\ UNCHANGED <<file, path_len, bytes_read, terminator, wanted, written>>

Allocate ==
    /\ step = "allocate"
    /\ step' = "format"
    /\ response_size' = bytes_read + Slack
    /\ UNCHANGED <<file, path_len, bytes_read, terminator, wanted, written>>

\* Mutant: file_buffer is not terminated.
TextUnterminated == file.zero

\* %s stops at the first zero byte.
Text == Least(file.zero, bytes_read)

\* snprintf: what does not fit the block is cut.
Format ==
    /\ step = "format"
    /\ step' = "send"
    /\ wanted' = Header + Digits(bytes_read) + Text + Trailer
    /\ written' = Least(wanted', response_size - 1)
    /\ UNCHANGED <<file, path_len, bytes_read, terminator, response_size>>

\* The response leaves, all blocks are freed, and another file is asked for.
Finish ==
    /\ step = "send"
    /\ step' = "path"
    /\ file' \in Files
    /\ path_len' = 0
    /\ bytes_read' = 0
    /\ terminator' = 0
    /\ response_size' = 0
    /\ wanted' = 0
    /\ written' = 0

Next == Path \/ Read \/ Terminate \/ Allocate \/ Format \/ Finish

Spec == Init /\ [][Next]_vars

-----------------------------------------------------------------------------
(* Properties                                                              *)

\* Every variable holds a value of its type; a path fits its array.
TypeOK ==
    /\ step \in {"path", "read", "terminate", "allocate", "format", "send"}
    /\ file \in Files
    /\ path_len \in 0 .. FilePath - 1
    /\ bytes_read \in 0 .. MAX_FILE_SIZE
    /\ terminator \in Nat
    /\ response_size \in Nat
    /\ wanted \in Nat
    /\ written \in Nat

\* The terminator lands inside file_buffer, at the end of the bytes kept,
\* for files below, at and above the size of the buffer.
TerminatorInBuffer ==
    step \in {"allocate", "format", "send"} =>
        /\ terminator < MAX_FILE_SIZE
        /\ terminator = bytes_read

\* response_size leaves room for the header, whatever the number of digits of
\* the length, for the page, for the trailing line end and for the zero byte:
\* snprintf never cuts a response short.
ResponseFits ==
    step = "send" =>
        /\ wanted < response_size
        /\ written = wanted

\* As many bytes of the page follow as Content-Length announced, up to the
\* trailing line end, exactly if no zero byte is among those that were kept: a
\* text page is never announced wrong, and a zero byte always leaves it short.
LengthIsOfThePage ==
    step = "send" =>
        (written = Header + Digits(bytes_read) + bytes_read + Trailer
            <=> file.zero >= bytes_read)

=============================================================================
