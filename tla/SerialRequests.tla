--------------------------- MODULE SerialRequests ---------------------------
(***************************************************************************)
(* What a serialised request queue promises: requests are served one at a  *)
(* time in the order in which they were submitted; each gets at most one   *)
(* answer, its own; a request that is abandoned gets none, but one that is *)
(* already being served still has to run its course before the next.  Requests are *)
(* lost only when the server breaks down, which it does once.              *)
(***************************************************************************)
EXTENDS Sequences, FiniteSets, Subsequences

CONSTANT Request

VARIABLES
  queue,      \* requests not yet served, the first one is being served
  abandoned,  \* requests whose submitter is no longer interested
  answered,   \* requests whose submitter got an answer
  broken      \* has the server broken down?

vars == <<queue, abandoned, answered, broken>>

Elements(seq) == {seq[i] : i \in DOMAIN seq}

Init == queue = <<>> /\ abandoned = {} /\ answered = {} /\ ~broken

Submit(r) ==
  /\ ~broken
  /\ r \notin Elements(queue) \cup abandoned \cup answered
  /\ queue' = Append(queue, r)
  /\ UNCHANGED <<abandoned, answered, broken>>

\* The request being served is done.
Finish ==
  /\ ~broken
  /\ queue # <<>>
  /\ queue' = Tail(queue)
  /\ answered' = answered \cup ({Head(queue)} \ abandoned)
  /\ UNCHANGED <<abandoned, broken>>

\* The requests in A are abandoned; those not yet started never will be.
Abandon(A) ==
  /\ ~broken
  /\ queue # <<>>
  /\ queue' = Pick(queue, {i \in DOMAIN queue : i = 1 \/ queue[i] \notin A})
  /\ abandoned' = abandoned \cup (A \cap Elements(queue))
  /\ UNCHANGED <<answered, broken>>

\* The server broke down.
Collapse ==
  /\ ~broken
  /\ broken' = TRUE
  /\ queue' = <<>>
  /\ UNCHANGED <<abandoned, answered>>

Next ==
  \/ \E r \in Request : Submit(r)
  \/ Finish
  \/ \E A \in SUBSET Request : Abandon(A)
  \/ Collapse

Spec == Init /\ [][Next]_vars
=============================================================================
