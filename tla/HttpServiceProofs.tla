--------------------------- MODULE HttpServiceProofs ---------------------------
(***************************************************************************)
(* What every implementation of HttpService inherits from it.              *)
(***************************************************************************)
EXTENDS HttpService, TLAPS

\* Appending a new value to a sequence without duplicates.
LEMMA AppendNew ==
    ASSUME NEW S, NEW q \in Seq(S), NEW e \in S,
           \A i, j \in DOMAIN q : q[i] = q[j] => i = j,
           \A i \in DOMAIN q : q[i] # e
    PROVE  LET r == Append(q, e) IN
           /\ r \in Seq(S)
           /\ \A i, j \in DOMAIN r : r[i] = r[j] => i = j
           /\ \A d : (\E i \in DOMAIN r : r[i] = d)
                     <=> (d = e \/ \E i \in DOMAIN q : q[i] = d)
  <1> DEFINE r == Append(q, e)
  <1>1. r \in Seq(S) /\ Len(r) = Len(q) + 1 /\ r[Len(q) + 1] = e
    OBVIOUS
  <1>2. \A i \in DOMAIN q : r[i] = q[i]
    OBVIOUS
  <1>3. DOMAIN q = 1..Len(q) /\ DOMAIN r = 1..(Len(q) + 1) /\ Len(q) \in Nat
    BY <1>1
  <1> HIDE DEF r
  <1>4. \A i \in DOMAIN r : i \in DOMAIN q \/ i = Len(q) + 1
    BY <1>3
  <1>5. DOMAIN q \subseteq DOMAIN r /\ Len(q) + 1 \in DOMAIN r
    BY <1>3
  <1>6. \A i, j \in DOMAIN r : r[i] = r[j] => i = j
    BY <1>1, <1>2, <1>4
  <1>7. ASSUME NEW d
        PROVE  (\E i \in DOMAIN r : r[i] = d)
               <=> (d = e \/ \E i \in DOMAIN q : q[i] = d)
    BY <1>1, <1>2, <1>4, <1>5
  <1> QED
    BY <1>1, <1>6, <1>7 DEF r

\* Taking the first value off a sequence without duplicates.
LEMMA TailWithoutHead ==
    ASSUME NEW S, NEW q \in Seq(S), q # <<>>,
           \A i, j \in DOMAIN q : q[i] = q[j] => i = j
    PROVE  LET r == Tail(q) IN
           /\ Head(q) \in S
           /\ Head(q) = q[1] /\ 1 \in DOMAIN q
           /\ r \in Seq(S)
           /\ \A i, j \in DOMAIN r : r[i] = r[j] => i = j
           /\ \A d : (\E i \in DOMAIN r : r[i] = d)
                     <=> (d # Head(q) /\ \E i \in DOMAIN q : q[i] = d)
  <1> DEFINE r == Tail(q)
  <1>1. /\ r \in Seq(S) /\ Len(r) = Len(q) - 1
        /\ Len(q) \in Nat /\ Len(q) > 0
        /\ Head(q) = q[1] /\ Head(q) \in S
    OBVIOUS
  <1>2. \A i \in 1..(Len(q) - 1) : r[i] = q[i + 1]
    BY <1>1
  <1>3. DOMAIN q = 1..Len(q) /\ DOMAIN r = 1..(Len(q) - 1)
    BY <1>1
  <1> HIDE DEF r
  <1>4. \A i \in DOMAIN r : i + 1 \in DOMAIN q /\ r[i] = q[i + 1] /\ i + 1 # 1
    BY <1>1, <1>2, <1>3
  <1>5. \A i \in DOMAIN q : i # 1 => i - 1 \in DOMAIN r /\ r[i - 1] = q[i]
    BY <1>1, <1>2, <1>3
  <1>6. 1 \in DOMAIN q
    BY <1>1, <1>3
  <1>7. \A i, j \in DOMAIN r : r[i] = r[j] => i = j
    BY <1>3, <1>4
  <1>8. ASSUME NEW d
        PROVE  (\E i \in DOMAIN r : r[i] = d)
               <=> (d # Head(q) /\ \E i \in DOMAIN q : q[i] = d)
    <2>1. ASSUME NEW i \in DOMAIN r, r[i] = d
          PROVE  d # Head(q) /\ \E j \in DOMAIN q : q[j] = d
      BY <1>1, <1>4, <1>6, <2>1
    <2>2. ASSUME NEW i \in DOMAIN q, q[i] = d, d # Head(q)
          PROVE  \E j \in DOMAIN r : r[j] = d
      BY <1>1, <1>5, <2>2
    <2> QED
      BY <2>1, <2>2
  <1> QED
    BY <1>1, <1>6, <1>7, <1>8 DEF r

\* Stages is a function on the connections: what EXCEPT needs to be told.
IInv ==
    /\ Orderly
    /\ DOMAIN stage = Conns
    /\ stage = [c \in Conns |-> stage[c]]

LEMMA InitIInv == ASSUME NULL \notin Conns, Init PROVE IInv
  <1>1. stage = [c \in Conns |-> "away"] /\ serving = NULL /\ queue = <<>>
        /\ code = 0
    BY DEF Init
  <1> QED
    BY <1>1 DEF IInv, Orderly

\* Each step of the service keeps its clients in order.
LEMMA StepIInv ==
    ASSUME NULL \notin Conns, IInv, [Next]_svars PROVE IInv'
  <1> USE DEF IInv, Orderly
  <1>1. CASE Start
    BY <1>1 DEF Start
  <1>2. ASSUME NEW c \in Conns, Wait(c) PROVE IInv'
    <2>1. \A i \in DOMAIN queue : queue[i] # c
      BY <1>2 DEF Wait
    <2>2. /\ queue' \in Seq(Conns)
          /\ \A i, j \in DOMAIN queue' : queue'[i] = queue'[j] => i = j
          /\ \A d : (\E i \in DOMAIN queue' : queue'[i] = d)
                    <=> (d = c \/ \E i \in DOMAIN queue : queue[i] = d)
      BY <1>2, <2>1, AppendNew DEF Wait
    <2>3. stage' = [stage EXCEPT ![c] = "waiting"] /\ stage[c] = "away"
      BY <1>2 DEF Wait
    <2>4. up /\ UNCHANGED <<up, serving, code>>
      BY <1>2 DEF Wait
    <2>5. ASSUME NEW d \in Conns
          PROVE  /\ stage'[d] = "waiting" <=> \E i \in DOMAIN queue' : queue'[i] = d
                 /\ stage'[d] = "served" <=> serving' = d
      BY <2>2, <2>3, <2>4
    <2>6. DOMAIN stage' = Conns /\ stage' = [d \in Conns |-> stage'[d]]
      BY <2>3
    <2> QED
      BY <2>2, <2>4, <2>5, <2>6
  <1>3. CASE Serve
    <2> DEFINE h == Head(queue)
    <2>1. queue # <<>> /\ up /\ serving = NULL
      BY <1>3 DEF Serve
    <2>2. /\ h \in Conns
          /\ h = queue[1] /\ 1 \in DOMAIN queue
          /\ queue' \in Seq(Conns)
          /\ \A i, j \in DOMAIN queue' : queue'[i] = queue'[j] => i = j
          /\ \A d : (\E i \in DOMAIN queue' : queue'[i] = d)
                    <=> (d # h /\ \E i \in DOMAIN queue : queue[i] = d)
      <3>1. queue' = Tail(queue)
        BY <1>3 DEF Serve
      <3>2. queue \in Seq(Conns)
            /\ \A i, j \in DOMAIN queue : queue[i] = queue[j] => i = j
        OBVIOUS
      <3> DEFINE t == Tail(queue)
      <3>3. /\ Head(queue) \in Conns
            /\ Head(queue) = queue[1] /\ 1 \in DOMAIN queue
            /\ t \in Seq(Conns)
            /\ \A i, j \in DOMAIN t : t[i] = t[j] => i = j
            /\ \A d : (\E i \in DOMAIN t : t[i] = d)
                      <=> (d # Head(queue)
                           /\ \E i \in DOMAIN queue : queue[i] = d)
        <4> HIDE DEF IInv, Orderly
        <4> QED
          BY <2>1, <3>2, TailWithoutHead
      <3> QED
        BY <3>1, <3>3
    <2>3. stage' = [stage EXCEPT ![h] = "served"] /\ serving' = h
      BY <1>3 DEF Serve
    <2>4. UNCHANGED <<up, code>>
      BY <1>3 DEF Serve
    <2> HIDE DEF h
    <2>5. ASSUME NEW d \in Conns
          PROVE  /\ stage'[d] = "waiting" <=> \E i \in DOMAIN queue' : queue'[i] = d
                 /\ stage'[d] = "served" <=> serving' = d
      BY <2>1, <2>2, <2>3
    <2>6. DOMAIN stage' = Conns /\ stage' = [d \in Conns |-> stage'[d]]
      BY <2>3
    <2> QED
      BY <2>1, <2>2, <2>3, <2>4, <2>5, <2>6
  <1>4. CASE Answer
    BY <1>4 DEF Answer
  <1>5. CASE Close
    <2>1. /\ stage' = [stage EXCEPT ![serving] = "closed"]
          /\ serving # NULL /\ serving' = NULL /\ code' = 0
          /\ UNCHANGED <<up, queue>>
      BY <1>5 DEF Close
    <2>2. ASSUME NEW d \in Conns
          PROVE  /\ stage'[d] = "waiting" <=> stage[d] = "waiting"
                 /\ stage'[d] # "served"
      BY <2>1
    <2>3. DOMAIN stage' = Conns /\ stage' = [d \in Conns |-> stage'[d]]
      BY <2>1
    <2> QED
      BY <2>1, <2>2, <2>3
  <1>6. CASE Stop
    <2>1. /\ stage' = [c \in Conns |-> IF stage[c] = "waiting"
                                       THEN "turned away" ELSE stage[c]]
          /\ serving = NULL /\ queue' = <<>> /\ UNCHANGED <<serving, code>>
      BY <1>6 DEF Stop
    <2>2. DOMAIN <<>> = {} /\ <<>> \in Seq(Conns)
      OBVIOUS
    <2>3. ASSUME NEW d \in Conns
          PROVE  stage'[d] # "waiting" /\ stage'[d] # "served"
      BY <2>1
    <2>4. DOMAIN stage' = Conns /\ stage' = [d \in Conns |-> stage'[d]]
      <3> HIDE DEF IInv, Orderly
      <3>1. DOMAIN stage' = Conns
        BY <2>1
      <3>2. \A d \in Conns : stage'[d] = IF stage[d] = "waiting"
                                         THEN "turned away" ELSE stage[d]
        BY <2>1
      <3> QED
        BY <2>1, <3>1, <3>2
    <2>5. serving' = NULL /\ code' = 0
      BY <2>1
    <2> QED
      <3>1. queue' = <<>> /\ DOMAIN queue' = {} /\ queue' \in Seq(Conns)
        BY <2>1, <2>2
      <3> QED
        BY <2>3, <2>4, <2>5, <3>1
  <1>7. CASE UNCHANGED svars
    BY <1>7 DEF svars
  <1> QED
    BY <1>1, <1>2, <1>3, <1>4, <1>5, <1>6, <1>7 DEF Next

\* Whatever implements the service keeps each waiting client in the queue,
\* once, and serves one at a time.
THEOREM ServiceIsOrderly ==
    ASSUME NULL \notin Conns PROVE Spec => []Orderly
  <1>1. Init => IInv
    BY InitIInv
  <1>2. IInv /\ [Next]_svars => IInv'
    BY StepIInv
  <1>3. IInv => Orderly
    BY DEF IInv
  <1> QED
    BY <1>1, <1>2, <1>3, PTL DEF Spec

\* A step of the service that starts to serve a client leaves nobody waiting
\* who came before that client.
LEMMA StepInTurn ==
    ASSUME NULL \notin Conns, IInv, Next,
           NEW i \in DOMAIN queue, NEW j \in DOMAIN queue, i < j
    PROVE  stage'[queue[j]] # "served"
  <1>1. queue[j] \in Conns /\ stage[queue[j]] = "waiting" /\ queue[i] # queue[j]
    BY DEF IInv, Orderly
  <1>2. CASE Serve
    <2>1. queue # <<>> /\ stage' = [stage EXCEPT ![queue[1]] = "served"]
      BY <1>2 DEF Serve, IInv, Orderly
    <2>2. j # 1 /\ 1 \in DOMAIN queue
      BY DEF IInv, Orderly
    <2>3. queue[j] # queue[1]
      BY <2>2 DEF IInv, Orderly
    <2> QED
      BY <1>1, <2>1, <2>3 DEF IInv
  <1>3. CASE Start \/ Answer
    BY <1>1, <1>3 DEF Start, Answer
  <1>4. CASE Close
    BY <1>1, <1>4 DEF Close, IInv
  <1>5. CASE Stop
    BY <1>1, <1>5 DEF Stop
  <1>6. ASSUME NEW c \in Conns, Wait(c) PROVE stage'[queue[j]] # "served"
    BY <1>1, <1>6 DEF Wait, IInv
  <1> QED
    BY <1>2, <1>3, <1>4, <1>5, <1>6 DEF Next

\* First come, first served.
THEOREM FirstComeFirstServed ==
    ASSUME NULL \notin Conns PROVE Spec => NobodyOvertakes
  <1>1. Init => IInv
    BY InitIInv
  <1>2. IInv /\ [Next]_svars => IInv'
    BY StepIInv
  <1>3. IInv /\ [Next]_svars =>
          [\A i, j \in DOMAIN queue :
             i < j /\ stage'[queue[j]] = "served"
             => stage'[queue[i]] # "waiting"]_svars
    BY StepInTurn
  <1> QED
    BY <1>1, <1>2, <1>3, PTL DEF Spec, NobodyOvertakes

=============================================================================
