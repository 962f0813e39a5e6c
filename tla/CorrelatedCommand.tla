------------------------- MODULE CorrelatedCommand -------------------------
(***************************************************************************)
(* What snipl promises about the commands it sends to a Support Element    *)
(* (SE): a process has at most one command under way, and it reports a     *)
(* command as acknowledged only when the SE has carried out that very      *)
(* command.  Nothing is said of how an answer finds its command: that is   *)
(* the business of module HwmcaCommand, which implements this one.         *)
(***************************************************************************)
EXTENDS Naturals, Sequences

CONSTANTS
  Process,  \* the snipl processes
  Outcome   \* the ways a command may end for its process

VARIABLES
  issued,   \* issued[p]: the number of commands p has given to the management API
  executed, \* the commands <<p, i>> the SE has carried out successfully
  reported  \* reported[p]: the outcomes of p's commands, in order

promise == <<issued, executed, reported>>

Init ==
  /\ issued = [p \in Process |-> 0]
  /\ executed = {}
  /\ reported = [p \in Process |-> <<>>]

\* A process starts its next command once the one before it is reported.
Issue(p) ==
  /\ Len(reported[p]) = issued[p]
  /\ issued' = [issued EXCEPT ![p] = @ + 1]
  /\ UNCHANGED <<executed, reported>>

\* The SE carries out a command that was issued, reported or not.
Execute(p) ==
  /\ \E i \in 1..issued[p] : executed' = executed \cup {<<p, i>>}
  /\ UNCHANGED <<issued, reported>>

\* The command under way ends; it is acknowledged only if it was carried out.
Report(p, o) ==
  /\ Len(reported[p]) < issued[p]
  /\ o = "acknowledged" => <<p, issued[p]>> \in executed
  /\ reported' = [reported EXCEPT ![p] = Append(@, o)]
  /\ UNCHANGED <<issued, executed>>

\* The management API returns an error at once: the command is issued and reported.
\* Whether the SE got it stays open.
Abandon(p, o) ==
  /\ Len(reported[p]) = issued[p]
  /\ o # "acknowledged"
  /\ issued' = [issued EXCEPT ![p] = @ + 1]
  /\ reported' = [reported EXCEPT ![p] = Append(@, o)]
  /\ UNCHANGED executed

Next ==
  \E p \in Process :
    Issue(p) \/ Execute(p) \/ \E o \in Outcome : Report(p, o) \/ Abandon(p, o)

Spec == Init /\ [][Next]_promise
=============================================================================
