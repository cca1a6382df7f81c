----------------------------- MODULE KsPageProofs -----------------------------
(***************************************************************************)
(* The arithmetic of KsPage is right for files of any size, with a zero    *)
(* byte anywhere.  Each step of determine_response establishes what the    *)
(* next one needs, so the invariant says what holds from which step on.    *)
(***************************************************************************)
EXTENDS KsPage, TLAPS

Terminated == step \in {"allocate", "format", "send"}
Allocated == step \in {"format", "send"}

IInv ==
    /\ TypeOK
    /\ TerminatorInBuffer
    /\ Allocated => response_size = bytes_read + Slack
    /\ step = "send" => wanted = Header + Digits(bytes_read) + Text + Trailer
    /\ ResponseFits

\* All a proof needs of the buffer's size, but for the digits it can have.
LEMMA BufferSize == MAX_FILE_SIZE \in Nat /\ MAX_FILE_SIZE > 0
  BY DEF MAX_FILE_SIZE

\* A length that a buffer can hold has at most five digits.
LEMMA DigitsOfLength ==
    ASSUME NEW n \in 0 .. MAX_FILE_SIZE - 1 PROVE Digits(n) \in 1 .. 5
  <1>1. n \in Nat /\ n < 65536
    BY DEF MAX_FILE_SIZE
  <1> QED
    BY <1>1 DEF Digits

\* %s never yields more than the bytes kept, and all of them exactly when the
\* first zero byte of the file lies beyond them.
LEMMA TextOfPage ==
    ASSUME TypeOK
    PROVE  /\ Text \in 0 .. bytes_read
           /\ file.zero >= bytes_read <=> Text = bytes_read
  <1>1. file.zero \in Nat
    BY PageAssumption DEF PageAssumption, TypeOK
  <1>2. bytes_read \in Nat
    BY BufferSize DEF TypeOK
  <1> QED
    BY <1>1, <1>2 DEF Text, Least

\* The longest header, the page and the line end leave one byte for the zero.
LEMMA RoomForEveryResponse ==
    ASSUME TypeOK, bytes_read < MAX_FILE_SIZE
    PROVE  /\ Header + Digits(bytes_read) + Text + Trailer \in Nat
           /\ Header + Digits(bytes_read) + Text + Trailer < bytes_read + Slack
  <1>1. bytes_read \in 0 .. MAX_FILE_SIZE - 1 /\ bytes_read \in Nat
    BY BufferSize DEF TypeOK
  <1>2. Digits(bytes_read) \in 1 .. 5
    BY <1>1, DigitsOfLength
  <1>3. Text \in 0 .. bytes_read
    BY TextOfPage
  <1> QED
    BY <1>1, <1>2, <1>3 DEF Header, Trailer, Slack

\* Every step of determine_response keeps the invariant.
LEMMA Step == IInv /\ [Next]_vars => IInv'
  <1> SUFFICES ASSUME IInv, [Next]_vars PROVE IInv'
    OBVIOUS
  <1> USE DEF IInv, TerminatorInBuffer, Allocated, ResponseFits
  <1>0. CASE Path
    <2>1. file.name \in Nat
      BY PageAssumption DEF PageAssumption, TypeOK
    <2>2. path_len' \in 0 .. FilePath - 1
      BY <1>0, <2>1 DEF Path, Least, ServeDir, IndexHtml, FilePath
    <2> QED
      BY <1>0, <2>2 DEF Path, TypeOK
  <1>1. CASE Read
    <2>1. file.size \in Nat
      BY PageAssumption DEF PageAssumption, TypeOK
    <2>2. Least(file.size, MAX_FILE_SIZE) \in 0 .. MAX_FILE_SIZE
      BY <2>1, BufferSize DEF Least
    <2> QED
      BY <1>1, <2>2 DEF Read, TypeOK
  <1>2. CASE Terminate
    BY <1>2, BufferSize DEF Terminate, TypeOK
  <1>3. CASE Allocate
    BY <1>3, BufferSize DEF Allocate, TypeOK, Slack
  <1>4. CASE Format
    <2>1. bytes_read < MAX_FILE_SIZE
      BY <1>4 DEF Format
    <2> DEFINE full == Header + Digits(bytes_read) + Text + Trailer
    <2>2. full \in Nat /\ full < response_size
      BY <1>4, <2>1, RoomForEveryResponse DEF Format
    <2>3. wanted' = full /\ written' = full
      BY <1>4, <2>2 DEF Format, Least, TypeOK
    <2>4. UNCHANGED <<file, path_len, bytes_read, terminator, response_size>>
      BY <1>4 DEF Format
    <2>5. full' = full
      BY <2>4 DEF Text
    <2> HIDE DEF full
    <2>6. step' = "send" /\ TypeOK'
      BY <1>4, <2>2, <2>3, <2>4 DEF Format, TypeOK
    <2>7. wanted' = full'
      BY <2>3, <2>5
    <2>8. step = "format"
      BY <1>4 DEF Format
    <2> QED
      BY <2>2, <2>3, <2>4, <2>6, <2>7, <2>8 DEF full
  <1>5. CASE Finish
    BY <1>5, BufferSize DEF Finish, TypeOK, FilePath
  <1>6. CASE UNCHANGED vars
    BY <1>6 DEF vars, TypeOK, Text
  <1> QED
    BY <1>0, <1>1, <1>2, <1>3, <1>4, <1>5, <1>6 DEF Next

\* What holds at each step holds in every reachable state.
THEOREM Invariance == Spec => []IInv
  <1>1. Init => IInv
    BY BufferSize
    DEF Init, IInv, TypeOK, FilePath, TerminatorInBuffer, Allocated,
        ResponseFits
  <1> QED
    BY <1>1, Step, PTL DEF Spec

\* The variables of determine_response keep their types.
THEOREM PageTypes == Spec => []TypeOK
  <1>1. IInv => TypeOK
    BY DEF IInv
  <1> QED
    BY Invariance, <1>1, PTL

\* For files of every size the zero byte is written inside file_buffer.
THEOREM TerminatorIsInBuffer == Spec => []TerminatorInBuffer
  <1>1. IInv => TerminatorInBuffer
    BY DEF IInv
  <1> QED
    BY Invariance, <1>1, PTL

\* bytes_read + 124 is enough for every response the server can build.
THEOREM NoResponseIsCut == Spec => []ResponseFits
  <1>1. IInv => ResponseFits
    BY DEF IInv
  <1> QED
    BY Invariance, <1>1, PTL

\* The page that follows has its announced length, exactly if it is text.
THEOREM LengthIsRight == Spec => []LengthIsOfThePage
  <1>1. ASSUME IInv, step = "send" PROVE LengthIsOfThePage
    <2>1. /\ written = Header + Digits(bytes_read) + Text + Trailer
          /\ bytes_read \in 0 .. MAX_FILE_SIZE - 1
      BY <1>1, BufferSize
      DEF IInv, TypeOK, TerminatorInBuffer, ResponseFits
    <2>2. Digits(bytes_read) \in 1 .. 5 /\ bytes_read \in Nat
      BY <2>1, BufferSize, DigitsOfLength
    <2>3. Text \in 0 .. bytes_read /\ (file.zero >= bytes_read <=> Text = bytes_read)
      BY <1>1, TextOfPage DEF IInv
    <2> QED
      BY <2>1, <2>2, <2>3 DEF LengthIsOfThePage, Header, Trailer
  <1>2. IInv => LengthIsOfThePage
    BY <1>1 DEF LengthIsOfThePage
  <1> QED
    BY Invariance, <1>2, PTL

=============================================================================
