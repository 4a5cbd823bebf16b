--------------------------- MODULE PreparedWrites ---------------------------
(***************************************************************************)
(* Long and reliable writes at the server end of an ATT bearer (the        *)
(* Prepare Write and Execute Write requests in lib/internal/gatt.js): each *)
(* piece is authorized on its own, pieces that follow each other are put   *)
(* together, and an execution starts every write at once and answers when  *)
(* the application has called back for all of them, or at the first error. *)
(* A callback of the application may come long after, also when the client *)
(* has gone on to prepare and execute other writes.                        *)
(***************************************************************************)
EXTENDS Naturals, Sequences

CONSTANTS
  Attribute,
  Handler,        (* who writes an attribute: "value", "onWrite" or "onPartialWrite"  *)
  MaxLength,      (* of every attribute                                               *)
  QueueSize,      (* pieces that may be prepared: 128                                 *)
  MaxPieces,      (* bound: Prepare Write requests in a behaviour, one of a set   *)
  MaxExecutions   (* bound: Execute Write requests in a behaviour                     *)

ASSUME PreparedAssumption ==
  /\ Handler \in [Attribute -> {"value", "onWrite", "onPartialWrite"}]
  /\ MaxLength \in Nat /\ QueueSize \in Nat /\ MaxExecutions \in Nat
  /\ MaxPieces \subseteq Nat

VARIABLES
  prepareWriteQueue,
  prepareWriteQueueSize,
  authorizing,       \* the piece the application is asked about, or none
  currentExecution,  \* the execution that is not answered yet, or 0
  executions,        \* what the callbacks of each execution close over
  lengths,           \* of the attributes the stack itself keeps the value of
  prepared,          \* history: the pieces the client was told are prepared
  pieces             \* how many may still be prepared

prepVars == <<prepareWriteQueue, prepareWriteQueueSize, authorizing, currentExecution,
              executions, lengths, prepared, pieces>>

Piece == [attribute : Attribute, offset : 0 .. MaxLength + 1, length : 1 .. 2]
NoPiece == <<>>

IsHandlingRequest == authorizing # NoPiece \/ currentExecution # 0

PrepInit ==
  /\ prepareWriteQueue = <<>> /\ prepareWriteQueueSize = 0
  /\ authorizing = NoPiece /\ currentExecution = 0
  /\ executions = <<>> /\ prepared = <<>>
  /\ lengths = [a \in Attribute |-> 0]
  /\ pieces \in MaxPieces

-----------------------------------------------------------------------------
(* Prepare Write *)

\* A full queue refuses the piece: it is not put to the application.
PrepareWriteRequest(piece) ==
  /\ ~IsHandlingRequest /\ pieces > 0 /\ Len(executions) < MaxExecutions
  /\ pieces' = pieces - 1
  /\ authorizing' = IF prepareWriteQueueSize >= QueueSize THEN NoPiece ELSE <<piece>>
  /\ UNCHANGED <<prepareWriteQueue, prepareWriteQueueSize, currentExecution, executions, lengths,
                 prepared>>

Follows(last, piece) ==
  last.attribute = piece.attribute /\ last.offset + last.length = piece.offset

Continues(queue, piece) == queue # <<>> /\ Follows(queue[Len(queue)], piece)

WithPiece(queue, piece) ==
  IF Continues(queue, piece)
  THEN [queue EXCEPT ![Len(queue)].length = @ + piece.length]
  ELSE Append(queue, piece)

Authorized(permitted) ==
  /\ authorizing # NoPiece
  /\ authorizing' = NoPiece
  /\ IF permitted
     THEN /\ prepareWriteQueue' = WithPiece(prepareWriteQueue, authorizing[1])
          /\ prepareWriteQueueSize' = prepareWriteQueueSize + 1
          /\ prepared' = Append(prepared, authorizing[1])
     ELSE UNCHANGED <<prepareWriteQueue, prepareWriteQueueSize, prepared>>
  /\ UNCHANGED <<currentExecution, executions, lengths, pieces>>

-----------------------------------------------------------------------------
(* Execute Write *)

DropQueue ==
  /\ prepareWriteQueue' = <<>> /\ prepareWriteQueueSize' = 0
  /\ prepared' = <<>>

CancelWriteRequest ==
  /\ ~IsHandlingRequest /\ prepareWriteQueue # <<>>
  /\ DropQueue
  /\ UNCHANGED <<authorizing, currentExecution, executions, lengths, pieces>>

TooLong(elem) == elem.offset + elem.length > MaxLength

\* A value the stack keeps ends where the last of n writes to it did.
LengthsAfter(queue, n) ==
  [a \in Attribute |->
     LET mine == {i \in 1 .. n : queue[i].attribute = a /\ Handler[a] = "value"}
     IN IF mine = {} THEN lengths[a]
        ELSE LET i == CHOOSE k \in mine : \A j \in mine : j <= k
             IN queue[i].offset + queue[i].length]

\* What the i-th write returns before the callback of the application, if it has one: the
\* stack keeps the value itself, and onWrite only takes values from their beginning.
Outcomes(queue, i) ==
  LET a == queue[i].attribute
  IN CASE Handler[a] = "value" ->
            IF queue[i].offset > LengthsAfter(queue, i - 1)[a] THEN {"error"} ELSE {"ok"}
       [] Handler[a] = "onWrite" /\ queue[i].offset # 0 -> {"error"}
       [] OTHER -> {"ok", "error", "later"}

\* The writes are started in order, up to the first that fails at once: it empties the
\* queue that the loop runs over.
Started(results) ==
  LET errors == {i \in DOMAIN results : results[i] = "error"}
  IN IF errors = {} THEN Len(results)
     ELSE CHOOSE i \in errors : \A j \in errors : i <= j

\* left counts the writes without an answer; 0 is an execution that is answered.
AnswerTo(results) ==
  CASE \E i \in DOMAIN results : results[i] = "error" -> "error"
    [] \A i \in DOMAIN results : results[i] = "ok" -> "ok"
    [] OTHER -> "none"

\* Slip: an execution that failed is not answered.
AnswerToSuccess(results) ==
  IF \A i \in DOMAIN results : results[i] = "ok" THEN "ok" ELSE "none"

AnswerAfter(results) == AnswerTo(results)

ExecuteWriteRequest ==
  /\ ~IsHandlingRequest /\ prepareWriteQueue # <<>> /\ Len(executions) < MaxExecutions
  /\ UNCHANGED <<authorizing, pieces>>
  /\ IF \E i \in DOMAIN prepareWriteQueue : TooLong(prepareWriteQueue[i])
     THEN DropQueue /\ UNCHANGED <<currentExecution, executions, lengths>>
     ELSE \E all \in [DOMAIN prepareWriteQueue -> {"ok", "error", "later"}] :
            /\ \A i \in DOMAIN all : all[i] \in Outcomes(prepareWriteQueue, i)
            /\ LET n == Started(all)
                   results == SubSeq(all, 1, n)
                   answer == AnswerAfter(results)
               IN /\ executions' = Append(executions,
                       [elems |-> prepareWriteQueue, results |-> results, answer |-> answer,
                        wanted |-> prepared])
                  /\ lengths' = LengthsAfter(prepareWriteQueue,
                                  IF all[n] = "error" THEN n - 1 ELSE n)
                  /\ IF answer = "none"
                     THEN /\ currentExecution' = Len(executions) + 1
                          /\ UNCHANGED <<prepareWriteQueue, prepareWriteQueueSize, prepared>>
                     ELSE DropQueue /\ UNCHANGED currentExecution

\* Slip: an execution that was answered is ended again by a late callback.
EndsAgain(e, results) == AnswerAfter(results) # "none"
Ends(e, results) == executions[e].answer = "none" /\ AnswerAfter(results) # "none"

\* The application calls back for the i-th write of an execution.
WriteCallback(e, i, result) ==
  /\ executions[e].results[i] = "later"
  /\ LET results == [executions[e].results EXCEPT ![i] = result]
     IN IF Ends(e, results)
        THEN /\ executions' = [executions EXCEPT ![e].results = results,
                                                 ![e].answer = AnswerAfter(results)]
             /\ prepareWriteQueue' = <<>> /\ prepareWriteQueueSize' = 0
             /\ prepared' = IF e = currentExecution THEN <<>> ELSE prepared
             /\ currentExecution' = 0
        ELSE /\ executions' = [executions EXCEPT ![e].results = results]
             /\ UNCHANGED <<prepareWriteQueue, prepareWriteQueueSize, prepared, currentExecution>>
  /\ UNCHANGED <<authorizing, lengths, pieces>>

PrepNext ==
  \/ \E piece \in Piece : PrepareWriteRequest(piece)
  \/ \E permitted \in BOOLEAN : Authorized(permitted)
  \/ CancelWriteRequest \/ ExecuteWriteRequest
  \/ \E e \in DOMAIN executions : \E i \in DOMAIN executions[e].results :
       \E result \in {"ok", "error"} : WriteCallback(e, i, result)

PrepSpec == PrepInit /\ [][PrepNext]_prepVars

-----------------------------------------------------------------------------
(* Properties. *)

\* The bytes a write carries, in order: attribute and position.
BytesOf(w) == [k \in 1 .. w.length |-> <<w.attribute, w.offset + k - 1>>]

\* The bytes a sequence of writes carries.
Bytes(writes) ==
  LET upTo[i \in 0 .. Len(writes)] ==
        IF i = 0 THEN <<>> ELSE upTo[i - 1] \o BytesOf(writes[i])
  IN upTo[Len(writes)]

\* An Execute Write response without error means that every byte the client was told is
\* prepared, and no other, was written in that order and that every write succeeded; an
\* error means that one failed.
ExecuteIsTruthful ==
  \A e \in DOMAIN executions :
    /\ Bytes(executions[e].elems) = Bytes(executions[e].wanted)
    /\ executions[e].answer = "ok" =>
         /\ Len(executions[e].results) = Len(executions[e].elems)
         /\ \A i \in DOMAIN executions[e].results : executions[e].results[i] = "ok"
    /\ executions[e].answer = "error" =>
         \E i \in DOMAIN executions[e].results : executions[e].results[i] = "error"

\* Pieces wait only for the client to execute or to cancel them: when no execution is
\* under way, what waits is what was prepared since the last, so that a late callback
\* takes nothing away from the writes prepared after its own execution.
QueueIsWhatWasPrepared ==
  currentExecution = 0 => Bytes(prepareWriteQueue) = Bytes(prepared)

\* What the client prepares, what is executed and what it is told of that are the same.
ExecutionsAreFaithful == ExecuteIsTruthful /\ QueueIsWhatWasPrepared
=============================================================================
