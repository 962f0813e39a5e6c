----------------------------- MODULE LparDialog -----------------------------
(***************************************************************************)
(* snipl --dialog: after the login the process forks.  The child polls the *)
(* operating system messages of the SE and prints those of its LPAR, the   *)
(* parent reads commands, sends them, and at the end kills the child and   *)
(* logs out (sniplapi.c).  Each process has its own copy of the handle of  *)
(* the session for messages.  What is typed is left to LineEditor, what    *)
(* becomes of a command to HwmcaCommand.                                   *)
(***************************************************************************)
EXTENDS Naturals, Sequences, FiniteSets

CONSTANTS
  Lpar,         \* the LPARs of the SE
  Own,          \* the LPAR of the dialog
  Batch,        \* bound: messages in one event buffer
  MaxMessage,   \* bound: messages of all LPARs
  MaxSession,   \* bound: sessions for messages
  MaxCommand    \* bound: commands

ASSUME LparDialogAssumption ==
  /\ Own \in Lpar /\ Batch \in Nat \ {0}
  /\ MaxMessage \in Nat /\ MaxSession \in Nat \ {0} /\ MaxCommand \in Nat

VARIABLES
  parent,     \* where the parent is
  ret,        \* whether snipl_image_dialog and the logout returned 0
  commands,   \* commands sent
  child,      \* where the child is
  handle,     \* the session in the child's copy of the handle; the parent's copy holds session 1
  buffer,     \* the event buffer of the child, or what is left of it
  shown,      \* the messages printed
  pending,    \* per session, the messages the SE has not handed over yet
  connected,  \* the connection of the child's session works
  opened,     \* sessions opened
  terminated, \* sessions somebody asked to terminate
  emitted,    \* messages of the LPARs
  answered    \* the SE answered the last command

user == <<parent, ret, commands, answered>>
poll == <<child, handle, buffer, shown>>
se == <<pending, connected, opened, terminated, emitted>>
vars == <<user, poll, se>>

Session == 1..MaxSession
Message == [lpar : Lpar, number : 1..MaxMessage]

\* After the login; the session for messages is the first one (invoke_HwmcaInitialize).
Init ==
  /\ parent = "fork" /\ ret = TRUE /\ commands = 0 /\ answered = TRUE
  /\ child = "none" /\ handle = 1 /\ buffer = <<>> /\ shown = <<>>
  /\ pending = [s \in Session |-> <<>>] /\ connected = TRUE
  /\ opened = {1} /\ terminated = {} /\ emitted = <<>>

-----------------------------------------------------------------------------
(* The parent. *)

ForkFails ==
  /\ parent = "fork" /\ parent' = "logout" /\ ret' = FALSE
  /\ UNCHANGED <<commands, answered, poll, se>>

Fork ==
  /\ parent = "fork" /\ child' = "waiting"
  /\ \/ parent' = "reading" /\ UNCHANGED ret
     \/ parent' = "kill" /\ ret' = FALSE      \* no terminal: STDIN_PROBLEM
  /\ UNCHANGED <<commands, answered, handle, buffer, shown, se>>

Command ==
  /\ parent = "reading" /\ commands < MaxCommand
  /\ parent' = "sending" /\ commands' = commands + 1 /\ answered' = FALSE
  /\ UNCHANGED <<ret, poll, se>>

\* The SE acknowledges the command, or it is refused: a refused command ends the dialog.
CommandEnds ==
  /\ parent = "sending" /\ answered
  /\ \/ parent' = "reading" /\ UNCHANGED ret
     \/ parent' = "kill" /\ ret' = FALSE
  /\ UNCHANGED <<commands, answered, poll, se>>

CtrlD ==
  /\ parent = "reading" /\ parent' = "kill"
  /\ UNCHANGED <<ret, commands, answered, poll, se>>

\* End of the input: an empty line, and the next read meets the end of the input again.
EndOfInput ==
  /\ parent \in {"reading", "hungup"}
  /\ parent' = "hungup"
  /\ UNCHANGED <<ret, commands, answered, poll, se>>

\* Mutated form: the child is left alone.
BugNoKill ==
  /\ parent = "kill" /\ parent' = "logout"
  /\ UNCHANGED <<ret, commands, answered, poll, se>>

Kill ==
  /\ parent = "kill" /\ parent' = "logout"
  /\ child' = IF child = "gone" THEN child ELSE "killed"
  /\ UNCHANGED <<ret, commands, answered, handle, buffer, shown, se>>

\* The logout terminates the session of the parent's handle.
Logout ==
  /\ parent = "logout" /\ parent' = "ended"
  /\ terminated' = terminated \cup {1}
  /\ ret' \in {ret, FALSE}
  /\ UNCHANGED <<commands, answered, poll, pending, connected, opened, emitted>>

Parent == ForkFails \/ Fork \/ Command \/ CommandEnds \/ CtrlD \/ EndOfInput \/ Kill \/ Logout

-----------------------------------------------------------------------------
(* The child: poll_opsys_messages. *)

\* HwmcaWaitEvent hands over an event buffer with one message or more.
WaitEvent ==
  /\ child = "waiting" /\ connected /\ pending[handle] # <<>>
  /\ \E n \in 1..Batch :
       /\ n <= Len(pending[handle])
       /\ buffer' = SubSeq(pending[handle], 1, n)
       /\ pending' = [pending EXCEPT ![handle] = SubSeq(@, n + 1, Len(@))]
  /\ child' = "parsing"
  /\ UNCHANGED <<user, handle, shown, connected, opened, terminated, emitted>>

\* Any other error than a timeout and a broken connection, or an event that does not fit.
PollFails ==
  /\ child = "waiting" /\ connected /\ child' = "gone"
  /\ UNCHANGED <<user, handle, buffer, shown, se>>

\* Mutated form: messages of other LPARs are printed too.
BugPrintsAll ==
  /\ child = "parsing"
  /\ shown' = Append(shown, Head(buffer)) /\ buffer' = Tail(buffer)
  /\ child' = IF buffer' = <<>> THEN "waiting" ELSE "parsing"
  /\ UNCHANGED <<user, handle, se>>

\* A message of the LPAR is printed; one of another LPAR ends the buffer.
Parse ==
  /\ child = "parsing"
  /\ IF Head(buffer).lpar = Own
     THEN shown' = Append(shown, Head(buffer)) /\ buffer' = Tail(buffer)
     ELSE buffer' = <<>> /\ UNCHANGED shown
  /\ child' = IF buffer' = <<>> THEN "waiting" ELSE "parsing"
  /\ UNCHANGED <<user, handle, se>>

\* The connection is broken: terminate the session,
Terminate ==
  /\ child = "waiting" /\ ~connected
  /\ terminated' = terminated \cup {handle}
  /\ child' \in {"opening", "gone"}
  /\ UNCHANGED <<user, handle, buffer, shown, pending, connected, opened, emitted>>

\* Mutated form: the new session stays unknown.
BugOldHandle ==
  /\ child = "opening" /\ child' = "waiting" /\ connected' = TRUE
  /\ opened' = opened \cup {Cardinality(opened) + 1}
  /\ UNCHANGED <<user, handle, buffer, shown, pending, terminated, emitted>>

\* and open another one, which only the child's copy of the handle knows.
Initialize ==
  /\ child = "opening"
  /\ \/ /\ child' = "waiting" /\ connected' = TRUE
        /\ handle' = Cardinality(opened) + 1 /\ opened' = opened \cup {handle'}
     \/ child' = "gone" /\ UNCHANGED <<connected, handle, opened>>
  /\ UNCHANGED <<user, buffer, shown, pending, terminated, emitted>>

Child == WaitEvent \/ PollFails \/ Parse \/ Terminate \/ Initialize

-----------------------------------------------------------------------------
(* The SE and the network. *)

Emit(l) ==
  LET new == [lpar |-> l, number |-> Len(emitted) + 1] IN
  /\ Len(emitted) < MaxMessage /\ emitted' = Append(emitted, new)
  /\ pending' = [s \in Session |->
       IF s \in opened \ terminated THEN Append(pending[s], new) ELSE pending[s]]
  /\ UNCHANGED <<user, poll, connected, opened, terminated>>

Answer ==
  /\ parent = "sending" /\ ~answered /\ answered' = TRUE
  /\ UNCHANGED <<parent, ret, commands, poll, se>>

Break ==
  /\ connected /\ Cardinality(opened) < MaxSession /\ connected' = FALSE
  /\ UNCHANGED <<user, poll, pending, opened, terminated, emitted>>

Done == parent = "ended" /\ UNCHANGED vars

Next == Parent \/ Child \/ (\E l \in Lpar : Emit(l)) \/ Answer \/ Break \/ Done

Spec == Init /\ [][Next]_vars

\* Both processes run, and the user, who may stop typing commands, at last types Ctrl-D.  Nothing
\* forces a fault, a message or the acknowledgement of a command.
FairSpec ==
  /\ Spec /\ WF_vars(ForkFails \/ Fork) /\ WF_vars(CommandEnds)
  /\ WF_vars(CtrlD \/ EndOfInput) /\ WF_vars(Kill) /\ WF_vars(Logout)
  /\ WF_vars(WaitEvent) /\ WF_vars(Parse) /\ WF_vars(Terminate) /\ WF_vars(Initialize)

(***************************************************************************)
(* Properties.                                                             *)
(***************************************************************************)

TypeOK ==
  /\ parent \in {"fork", "reading", "sending", "hungup", "kill", "logout", "ended"}
  /\ ret \in BOOLEAN /\ answered \in BOOLEAN /\ commands \in 0..MaxCommand
  /\ child \in {"none", "waiting", "parsing", "opening", "gone", "killed"}
  /\ handle \in opened /\ buffer \in Seq(Message) /\ shown \in Seq(Message)
  /\ pending \in [Session -> Seq(Message)] /\ connected \in BOOLEAN
  /\ opened \subseteq Session /\ terminated \subseteq opened /\ emitted \in Seq(Message)
  /\ child = "parsing" => buffer # <<>>
  /\ parent = "fork" => child = "none"

Ours(m) == m.lpar = Own

\* Messages of the LPARs, each once and in the order it was written.
InOrder(q) ==
  /\ \A i \in DOMAIN q : q[i].number \in DOMAIN emitted /\ q[i] = emitted[q[i].number]
  /\ \A i, j \in DOMAIN q : i < j => q[i].number < q[j].number

\* Messages are printed in the order of the LPAR, none twice and none of another LPAR, over
\* broken connections and event buffers with messages of several LPARs
\* (poll_opsys_messages, parse_opsys_message).
ShownInOrder == InOrder(shown) /\ \A i \in DOMAIN shown : Ours(shown[i])

\* The messages on their way to the child stand in line behind the printed ones: first what is
\* left of the event buffer, then what the SE holds for its session.
OnTheWay ==
  /\ \A n \in DOMAIN emitted : emitted[n].number = n
  /\ InOrder(shown \o buffer \o pending[handle])

\* Sessions are numbered as they are opened; a session nobody has opened holds nothing, and a
\* child that opens one has lost its connection.
SessionsInOrder ==
  /\ opened = 1..Cardinality(opened)
  /\ \A s \in Session \ opened : pending[s] = <<>>
  /\ ~connected => Cardinality(opened) < MaxSession
  /\ child = "opening" => ~connected

\* ShownInOrder with what makes it inductive: the type invariant, which relates the two processes
\* and the sessions they have opened, and the messages that are not printed yet
\* (snipl_image_dialog, poll_opsys_messages).
IInv == TypeOK /\ ShownInOrder /\ OnTheWay /\ SessionsInOrder

\* What is printed is what the LPAR wrote, up to some point: no message in between is missing
\* ("prepares filtering (in) for those which are for us", snipl_image_dialog).
ShownIsPrefix ==
  LET ours == SelectSeq(emitted, Ours) IN
  Len(shown) <= Len(ours) /\ shown = SubSeq(ours, 1, Len(shown))

\* Every session for messages is terminated in the end, whoever opened it (snipl_lpar_logout:
\* "shuts down the snmp connections").
SessionsAreTerminated == parent = "ended" => opened \subseteq terminated

\* A child that meets a broken connection opens another session before it can end
\* ("broken connection, try to reconnect", poll_opsys_messages).
ReconnectIsTried ==
  [][child = "waiting" /\ ~connected => child' \in {"waiting", "opening", "killed"}]_vars

Over == parent \in {"kill", "logout", "ended"} \/ child = "gone"

\* A message the SE holds for an open session is printed, unless the dialog ends or the session
\* is given up: the child goes on with the session it opened (poll_opsys_messages).
EveryMessageIsShown ==
  \A s \in Session, n \in 1..MaxMessage : LET m == [lpar |-> Own, number |-> n] IN
    (\E i \in DOMAIN pending[s] : pending[s][i] = m)
      ~> (Over \/ s \in terminated \/ \E i \in DOMAIN shown : shown[i] = m)

Finished == parent = "ended" /\ child \in {"none", "gone", "killed"}

\* The parent waits for the acknowledgement of a command, for which there is no time limit.
Unanswered == parent = "sending" /\ ~answered

\* The dialog ends, and no process is left behind, unless the terminal is hung up or the SE never
\* acknowledges a command (snipl_image_dialog).
DialogEnds == <>[]Finished \/ <>(parent = "hungup") \/ <>[]Unanswered

\* However the dialog ends, the child does not outlive it ("It is killed from the parent
\* process", poll_opsys_messages).  A hung-up terminal refutes it.
DialogAlwaysEnds == <>[]Finished
=============================================================================
