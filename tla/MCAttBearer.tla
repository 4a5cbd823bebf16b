---------------------------- MODULE MCAttBearer ----------------------------
(* Constants for checking AttBearer with TLC. *)
EXTENDS AttBearer

CONSTANTS end1, end2
MCSide == {end1, end2}
Ends(m, n) == [s \in MCSide |-> IF s = end1 THEN m ELSE n]
MCRxMtu == Ends(3, 2)

Sending(requests, commands, notifications, indications, timeouts) ==
  [type \in Counted \cup {"timeout"} |->
     CASE type = "request" -> requests [] type = "command" -> commands
       [] type = "notification" -> notifications [] type = "indication" -> indications
       [] type = "timeout" -> timeouts]

\* Requests of both ends beside indications; commands and notifications around a request;
\* everything at once from one end, with timeouts.
MCBudgets ==
  {Ends(Sending(2, 0, 0, 2, 0), Sending(1, 0, 0, 0, 0)),
   Ends(Sending(1, 1, 1, 0, 0), Sending(1, 0, 0, 0, 1)),
   Ends(Sending(2, 0, 1, 1, 1), Sending(0, 0, 0, 0, 1))}

\* A request and a Write Command.
MCCommands == {Ends(Sending(1, 1, 0, 0, 0), Sending(0, 0, 0, 0, 0))}
=============================================================================
