---------------------------- MODULE HwmcaCommand ----------------------------
(***************************************************************************)
(* Correlated commands between snipl processes and one Support Element or  *)
(* HMC: command_handling and parse_command_response of sniplapi.c.  Every  *)
(* process owns a command session of its own; the SE sends each command    *)
(* response to every open session, and a process must find the response to *)
(* its own command by target, correlator and contents.                     *)
(***************************************************************************)
EXTENDS Integers, Sequences

CONSTANTS
  Process,   \* snipl processes logged in to the same SE
  Image,     \* image objects (LPARs) of the SE
  Command,   \* command identifiers (activate, reset, send_opsys, ...)
  Tick,      \* values of stime, the time in units of two seconds
  Rand,      \* Rand[t]: the first rand() after srand(t)
  Pid,       \* Pid[p]: the process id of p
  Plan,      \* Plan[p]: the commands p gives, [image, command] in order
  Dialog,    \* the processes that run snipl_image_dialog
  Faults,    \* which failures the environment may show
  MaxNoise   \* bound: events of other applications

FaultKind == {"lost", "large", "send_error", "wait_error", "partial", "untyped"}

\* Two processes never draw the same correlator, whenever they draw it.  rand() + getpid()
\* makes that likely, not certain.
CorrelatorsDistinct ==
  \A p, q \in Process : p # q => \A t, u \in Tick : Rand[t] + Pid[p] # Rand[u] + Pid[q]

\* Outside a dialog a process names every image once.  The command line allows otherwise.
ImagesDistinct ==
  \A p \in Process \ Dialog : \A i, j \in 1..Len(Plan[p]) :
    Plan[p][i].image = Plan[p][j].image => i = j

ASSUME PlanAssumption ==
  /\ Tick \subseteq Nat /\ 0 \in Tick
  /\ Rand \in [Tick -> Int] /\ Pid \in [Process -> Int]
  /\ Plan \in [Process -> Seq([image : Image, command : Command])]
  /\ Dialog \subseteq Process
  /\ Faults \subseteq FaultKind
  /\ MaxNoise \in Nat

(***************************************************************************)
(* Events.  The fields of a received event that the code looks at.  kind   *)
(* stands for the shape of the field list: "short" has fewer than twelve   *)
(* fields; "untyped" has a twelfth field that is no octet string; "alien"  *)
(* a correlator of another length; "notice" another notification type than *)
(* command response; "garbled" a wrong or missing object id; "response" is *)
(* a well-formed command response.  origin is the command an event answers *)
(* (none for another application's): no code reads it.  The command of     *)
(* another application's event is "other": such an event is skipped before *)
(* its command is looked at.                                               *)
(***************************************************************************)
Kind == {"short", "untyped", "alien", "notice", "garbled", "response"}

CommandId == Process \X (Nat \ {0})
None == <<>>

Correlators == {Rand[t] + Pid[p] : t \in Tick, p \in Process}

Event ==
  [object : Image, kind : Kind, correlator : Correlators \cup {0}, command : Command \cup {"other"},
   code : {0, 1}, last : {0, 1}, large : BOOLEAN, origin : CommandId \cup {None}]

Outcome == {"acknowledged", "refused", "fatal", "overflow"}
ProblemClass == {"OK", "FATAL"}

VARIABLES
  stime,      \* current time, in units of two seconds
  pc,         \* control state of each process
  correlator, \* the correlator of a process's command under way
  outcome,    \* outcome[p]: what command_handling returned for each command of p
  problem_class, \* server->problem_class of each process
  queue,      \* queue[p]: events the session of p has received, not yet waited for
  pending,    \* commands the SE has accepted and not yet answered in full
  executed,   \* commands the SE has carried out with condition code 0
  noise       \* number of events of other applications so far

processVars == <<pc, correlator, outcome, problem_class>>
seVars == <<pending, executed>>
vars == <<stime, processVars, queue, seVars, noise>>

\* The index of the command a process works on, and what that command is.
Current(p) == Len(outcome[p]) + 1
Target(p) == Plan[p][Current(p)].image
Wanted(p) == Plan[p][Current(p)].command

Pending == [process : Process, index : Nat \ {0}, correlator : Correlators, partial : BOOLEAN]

Init ==
  /\ stime = 0
  /\ pc = [p \in Process |-> "idle"]
  /\ correlator = [p \in Process |-> 0]
  /\ outcome = [p \in Process |-> <<>>]
  /\ problem_class = [p \in Process |-> "OK"]
  /\ queue = [p \in Process |-> <<>>]
  /\ pending = {}
  /\ executed = {}
  /\ noise = 0

(***************************************************************************)
(* Mutated forms of definitions below: each is a mistake that one of the   *)
(* properties must find.  No action of the specification uses them.        *)
(***************************************************************************)

\* The correlator is not compared.
BugAnyCorrelator(e, corr) ==
  e.kind \in {"short", "alien", "notice"}

\* A response that reports a failure is taken for another application's.
BugFailuresSkipped(e, corr) ==
  \/ e.kind \in {"short", "alien", "notice"}
  \/ e.kind # "untyped" /\ e.correlator # corr
  \/ e.code # 0

\* The condition code is not looked at.
BugAnyCode(e, corr, cmd) ==
  /\ e.kind = "response"
  /\ e.correlator = corr
  /\ e.command = cmd
  /\ e.last = 1

\* A dialog goes on after a command that failed.
BugReturnAndGoOn(p, o) ==
  /\ outcome' = [outcome EXCEPT ![p] = Append(@, o)]
  /\ problem_class' = [problem_class EXCEPT ![p] = IF o = "acknowledged" THEN "OK" ELSE "FATAL"]
  /\ pc' = [pc EXCEPT ![p] = IF Current(p) = Len(Plan[p]) THEN "done" ELSE "idle"]

(***************************************************************************)
(* parse_command_response.  Foreign is its return value 2 (look at the     *)
(* next event), Accepted its return value 1; whatever is neither is 0.     *)
(***************************************************************************)
Foreign(e, corr) ==
  \/ e.kind \in {"short", "alien", "notice"}
  \/ e.kind # "untyped" /\ e.correlator # corr

Accepted(e, corr, cmd) ==
  /\ e.kind = "response"
  /\ e.correlator = corr
  /\ e.command = cmd
  /\ e.code = 0
  /\ e.last = 1

(***************************************************************************)
(* The processes.                                                          *)
(***************************************************************************)

\* Leave command_handling with outcome o.  A dialog ends with its first command
\* that fails; snipl goes on to the next image whatever the outcome.
Return(p, o) ==
  /\ outcome' = [outcome EXCEPT ![p] = Append(@, o)]
  /\ problem_class' = [problem_class EXCEPT ![p] = IF o = "acknowledged" THEN "OK" ELSE "FATAL"]
  /\ pc' = [pc EXCEPT ![p] =
              IF (p \in Dialog /\ o # "acknowledged") \/ Current(p) = Len(Plan[p])
              THEN "done" ELSE "idle"]

\* The correlator of a new command: rand() after srand(time / 2), plus the process id.
NewCorrelator(p) == Rand[stime] + Pid[p]

\* HwmcaCorrelatedCommand reaches the SE: the command is accepted.
Deliver(p, corr) ==
  pending' = pending \cup
    {[process |-> p, index |-> Current(p), correlator |-> corr, partial |-> FALSE]}

SendCommand(p) ==
  /\ pc[p] = "idle" /\ Current(p) <= Len(Plan[p])
  /\ LET corr == NewCorrelator(p)
     IN  /\ correlator' = [correlator EXCEPT ![p] = corr]
         /\ Deliver(p, corr)
  /\ pc' = [pc EXCEPT ![p] = "waiting"]
  /\ UNCHANGED <<stime, outcome, problem_class, queue, executed, noise>>

\* HwmcaCorrelatedCommand fails; the SE may have got the command all the same.
SendFails(p) ==
  /\ "send_error" \in Faults
  /\ pc[p] = "idle" /\ Current(p) <= Len(Plan[p])
  /\ LET corr == NewCorrelator(p)
     IN  /\ correlator' = [correlator EXCEPT ![p] = corr]
         /\ Deliver(p, corr) \/ UNCHANGED pending
  /\ Return(p, "fatal")
  /\ UNCHANGED <<stime, queue, executed, noise>>

\* HwmcaWaitEvent hands over the next event of the session.
TakeEvent(p) ==
  /\ pc[p] = "waiting" /\ queue[p] # <<>>
  /\ queue' = [queue EXCEPT ![p] = Tail(@)]

\* The event is about another object, or parse_command_response says 2.
SkipEvent(p) ==
  /\ TakeEvent(p)
  /\ LET e == Head(queue[p])
     IN  \/ e.object # Target(p)
         \/ ~e.large /\ Foreign(e, correlator[p])
  /\ UNCHANGED <<stime, processVars, seVars, noise>>

\* The response to the command: 1 acknowledges it, 0 refuses it.
Decide(p) ==
  /\ TakeEvent(p)
  /\ LET e == Head(queue[p])
     IN  /\ e.object = Target(p) /\ ~e.large
         /\ ~Foreign(e, correlator[p])
         /\ Return(p, IF Accepted(e, correlator[p], Wanted(p)) THEN "acknowledged" ELSE "refused")
  /\ UNCHANGED <<stime, correlator, seVars, noise>>

\* An event that does not fit the buffer ends the wait when the object id in the
\* buffer is the target's.  What such a call leaves in the buffer is up to the
\* library: the test may also fail, and then the event is lost.
LargeEvent(p) ==
  /\ TakeEvent(p)
  /\ LET e == Head(queue[p])
     IN  /\ e.large
         /\ \/ Return(p, "overflow")
            \/ UNCHANGED <<outcome, problem_class, pc>>
  /\ UNCHANGED <<stime, correlator, seVars, noise>>

\* A timeout prints a dot and the wait is repeated, without limit: the code counts nothing.
WaitTimeout(p) ==
  /\ pc[p] = "waiting" /\ queue[p] = <<>>
  /\ UNCHANGED vars

\* Any other error of HwmcaWaitEvent ends the command.
WaitFails(p) ==
  /\ "wait_error" \in Faults
  /\ pc[p] = "waiting"
  /\ Return(p, "fatal")
  /\ UNCHANGED <<stime, correlator, queue, seVars, noise>>

\* After its last command a process logs out: HwmcaTerminate ends the session.
Terminate(p) ==
  /\ pc[p] = "done"
  /\ pc' = [pc EXCEPT ![p] = "closed"]
  /\ queue' = [queue EXCEPT ![p] = <<>>]
  /\ UNCHANGED <<stime, correlator, outcome, problem_class, seVars, noise>>

(***************************************************************************)
(* The SE and the network (not under src/: as the code uses them).         *)
(***************************************************************************)

\* An event goes to every open session, except those whose copy is lost.
Broadcast(e) ==
  \E missed \in SUBSET Process :
    /\ missed # {} => "lost" \in Faults
    /\ queue' = [q \in Process |->
                   IF pc[q] = "closed" \/ q \in missed THEN queue[q] ELSE Append(queue[q], e)]

Answer(c, kind, code, last, large) ==
  [object |-> Plan[c.process][c.index].image, kind |-> kind, correlator |-> c.correlator,
   command |-> Plan[c.process][c.index].command, code |-> code, last |-> last,
   large |-> large, origin |-> <<c.process, c.index>>]

\* Mutated form of Complete: the SE answers a command for the last time again and again.
BugAnsweredTwice(c) ==
  /\ c \in pending
  /\ \E code \in {0, 1} :
       /\ executed' = IF code = 0 THEN executed \cup {<<c.process, c.index>>} ELSE executed
       /\ Len(queue[c.process]) < 2
       /\ Broadcast(Answer(c, "response", code, 1, FALSE))
  /\ UNCHANGED <<stime, processVars, pending, noise>>

\* The SE finishes a command and answers it for the last time.
Complete(c) ==
  /\ c \in pending
  /\ pending' = pending \ {c}
  /\ \E code \in {0, 1}, kind \in {"response", "garbled"}, large \in BOOLEAN :
       /\ large => "large" \in Faults
       /\ kind = "garbled" => code = 0 /\ ~large
       /\ executed' = IF code = 0 THEN executed \cup {<<c.process, c.index>>} ELSE executed
       /\ Broadcast(Answer(c, kind, code, 1, large))
  /\ UNCHANGED <<stime, processVars, noise>>

\* Before that it may send a response that is not the last one, or a notice.
Progress(c) ==
  /\ c \in pending /\ ~c.partial /\ "partial" \in Faults
  /\ pending' = (pending \ {c}) \cup {[c EXCEPT !.partial = TRUE]}
  /\ \E kind \in {"response", "notice"} : Broadcast(Answer(c, kind, 0, 0, FALSE))
  /\ UNCHANGED <<stime, processVars, executed, noise>>

\* Events caused by other applications: none of them carries a correlator of snipl's
\* size, and only "untyped" ones have an unexpected type where snipl looks for it.
OtherApplication ==
  /\ noise < MaxNoise
  /\ noise' = noise + 1
  /\ \E i \in Image, kind \in {"short", "alien"} \cup ({"untyped"} \cap Faults) :
       Broadcast([object |-> i, kind |-> kind, correlator |-> 0, command |-> "other",
                  code |-> 0, last |-> 1, large |-> FALSE, origin |-> None])
  /\ UNCHANGED <<stime, processVars, seVars>>

Clock ==
  /\ stime + 1 \in Tick
  /\ stime' = stime + 1
  /\ UNCHANGED <<processVars, queue, seVars, noise>>

ProcessStep(p) ==
  \/ SendCommand(p) \/ SendFails(p)
  \/ SkipEvent(p) \/ Decide(p) \/ LargeEvent(p)
  \/ WaitTimeout(p) \/ WaitFails(p)
  \/ Terminate(p)

SupportElement == \E c \in pending : Complete(c) \/ Progress(c)

Next == (\E p \in Process : ProcessStep(p)) \/ SupportElement \/ OtherApplication \/ Clock

Spec == Init /\ [][Next]_vars

(***************************************************************************)
(* The SE answers every command it has accepted, and a process that finds  *)
(* an event waiting takes it.                                              *)
(***************************************************************************)
Fairness ==
  /\ \A p \in Process : WF_vars(SkipEvent(p) \/ Decide(p) \/ LargeEvent(p))
  /\ WF_vars(\E c \in pending : Complete(c))

FairSpec == Spec /\ Fairness

(***************************************************************************)
(* Properties.                                                             *)
(***************************************************************************)

\* Type invariant: every variable keeps its kind; an unanswered command was given.
TypeOK ==
  /\ stime \in Tick
  /\ pc \in [Process -> {"idle", "waiting", "done", "closed"}]
  /\ correlator \in [Process -> Correlators \cup {0}]
  /\ outcome \in [Process -> Seq(Outcome)]
  /\ problem_class \in [Process -> ProblemClass]
  /\ queue \in [Process -> Seq(Event)]
  /\ pending \subseteq Pending
  /\ executed \subseteq CommandId
  /\ noise \in Nat
  /\ \A p \in Process : pc[p] = "waiting" => Current(p) <= Len(Plan[p])

\* "acknowledged." is printed for a command only when the SE carried out that very
\* command: command_handling never takes the response to another process's command,
\* or to another command of its own, for the response it waits for.
AckIsOwn ==
  \A p \in Process : \A i \in 1..Len(outcome[p]) :
    outcome[p][i] = "acknowledged" => <<p, i>> \in executed

\* Only the response to the command under way can end it as acknowledged or refused:
\* whatever else the SE broadcasts leaves the wait of command_handling as it is.
OwnEventDecides ==
  [][\A p \in Process :
       (outcome'[p] # outcome[p] /\ outcome'[p][Current(p)] \in {"acknowledged", "refused"})
       => /\ queue[p] # <<>>
          /\ Head(queue[p]).origin = <<p, Current(p)>>]_vars

\* When no event is lost and the SE answers, every command_handling call returns.
EveryCommandReturns ==
  \A p \in Process : (pc[p] = "waiting") ~> (pc[p] # "waiting")

\* The number of commands p has given so far.
Given(p) == IF pc[p] = "waiting" THEN Current(p) ELSE Len(outcome[p])

\* HwmcaCommand implements CorrelatedCommand: every command given to the management
\* API is issued, every outcome reported.
Promise == INSTANCE CorrelatedCommand WITH
  issued <- [p \in Process |-> Given(p)],
  reported <- outcome

ImplementsPromise == Promise!Spec

(***************************************************************************)
(* The inductive invariant behind AckIsOwn.                                *)
(***************************************************************************)
Drawn(p, corr) == \E t \in Tick : corr = Rand[t] + Pid[p]

IsGiven(c) ==
  /\ c[1] \in Process
  /\ c[2] \in 1..Given(c[1])
  /\ c[2] \in 1..Len(Plan[c[1]])

\* The SE works only on commands that were given, with a correlator of their process,
\* and on each of them once.
PendingInv ==
  /\ \A c \in pending : IsGiven(<<c.process, c.index>>) /\ Drawn(c.process, c.correlator)
  /\ \A c, d \in pending : c.process = d.process /\ c.index = d.index => c = d

\* An event that carries a correlator answers a command; a successful last response
\* is sent only for a command that was carried out.
EventInv(e) ==
  /\ e.origin = None => e.kind \in {"short", "alien", "untyped"}
  /\ e.origin # None =>
       /\ IsGiven(e.origin)
       /\ e.object = Plan[e.origin[1]][e.origin[2]].image
       /\ Drawn(e.origin[1], e.correlator)
       /\ e.last = 1 /\ e.code = 0 => e.origin \in executed

QueueInv == \A p \in Process : \A j \in 1..Len(queue[p]) : EventInv(queue[p][j])

\* A command is answered for the last time once, and is not pending after that.
LastInv ==
  \A p \in Process : \A j \in 1..Len(queue[p]) :
    LET e == queue[p][j]
    IN  e.origin # None /\ e.last = 1 =>
          /\ \A c \in pending : <<c.process, c.index>> # e.origin
          /\ \A k \in 1..Len(queue[p]) :
               queue[p][k].origin = e.origin /\ queue[p][k].last = 1 => k = j

\* The last response to an acknowledged command is behind its process.
AckedInv ==
  \A p \in Process : \A i \in 1..Len(outcome[p]) : outcome[p][i] = "acknowledged" =>
    /\ \A c \in pending : <<c.process, c.index>> # <<p, i>>
    /\ \A j \in 1..Len(queue[p]) : queue[p][j].last = 1 => queue[p][j].origin # <<p, i>>

\* A dialog that still runs has had nothing but acknowledged commands.
DialogInv ==
  \A p \in Dialog : pc[p] \in {"idle", "waiting"} =>
    \A i \in 1..Len(outcome[p]) : outcome[p][i] = "acknowledged"

WaitInv == \A p \in Process : pc[p] = "waiting" => Drawn(p, correlator[p])

IInv ==
  /\ TypeOK /\ PendingInv /\ QueueInv /\ LastInv /\ AckedInv /\ DialogInv /\ WaitInv
  /\ AckIsOwn
=============================================================================
