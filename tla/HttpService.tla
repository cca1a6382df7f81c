----------------------------- MODULE HttpService -----------------------------
(***************************************************************************)
(* What Kern-Serve promises its clients, with nothing of how it is done:   *)
(* while the service is up it takes waiting connections first come first   *)
(* served, one at a time, answers each at most once, and goes down only    *)
(* between two connections, turning away those still waiting.              *)
(***************************************************************************)
EXTENDS Naturals, Sequences

CONSTANTS Conns, NULL

VARIABLES
    up,
    queue,      \* connections that wait, oldest first
    serving,    \* the connection being served
    code,       \* the status it was answered with, 0 before and after that
    stage       \* the life of each connection

svars == <<up, queue, serving, code, stage>>

Codes == {200, 404, 500, 501}

Init ==
    /\ up = FALSE
    /\ queue = <<>>
    /\ serving = NULL
    /\ code = 0
    /\ stage = [c \in Conns |-> "away"]

Start ==
    /\ ~up
    /\ up' = TRUE
    /\ UNCHANGED <<queue, serving, code, stage>>

Wait(c) ==
    /\ up
    /\ stage[c] = "away"
    /\ stage' = [stage EXCEPT ![c] = "waiting"]
    /\ queue' = Append(queue, c)
    /\ UNCHANGED <<up, serving, code>>

Serve ==
    /\ up
    /\ serving = NULL
    /\ queue # <<>>
    /\ serving' = Head(queue)
    /\ queue' = Tail(queue)
    /\ stage' = [stage EXCEPT ![Head(queue)] = "served"]
    /\ UNCHANGED <<up, code>>

Answer ==
    /\ serving # NULL
    /\ code = 0
    /\ code' \in Codes
    /\ UNCHANGED <<up, queue, serving, stage>>

Close ==
    /\ serving # NULL
    /\ stage' = [stage EXCEPT ![serving] = "closed"]
    /\ serving' = NULL
    /\ code' = 0
    /\ UNCHANGED <<up, queue>>

Stop ==
    /\ up
    /\ serving = NULL
    /\ up' = FALSE
    /\ queue' = <<>>
    /\ stage' = [c \in Conns |-> IF stage[c] = "waiting" THEN "turned away"
                                                         ELSE stage[c]]
    /\ UNCHANGED <<serving, code>>

Next ==
    Start \/ Serve \/ Answer \/ Close \/ Stop \/ \E c \in Conns : Wait(c)

Spec == Init /\ [][Next]_svars

-----------------------------------------------------------------------------
(* What follows from the promise                                           *)

\* The queue is the clients that wait, each of them once, and the connection
\* being served is the only one that is: no client is in two places or, as
\* long as it waits, in none.  A service that is down keeps nobody waiting.
Orderly ==
    /\ queue \in Seq(Conns)
    /\ \A i, j \in DOMAIN queue : queue[i] = queue[j] => i = j
    /\ \A c \in Conns :
         /\ stage[c] = "waiting" <=> \E i \in DOMAIN queue : queue[i] = c
         /\ stage[c] = "served" <=> serving = c
    /\ ~up => queue = <<>> /\ serving = NULL
    /\ serving = NULL => code = 0

\* A client is served only when everybody who waited before it no longer does.
NobodyOvertakes ==
    [][\A i, j \in DOMAIN queue :
         i < j /\ stage'[queue[j]] = "served" => stage'[queue[i]] # "waiting"
      ]_svars

=============================================================================
