------------------------ MODULE HwmcaCommandProofs ------------------------
(***************************************************************************)
(* Theorems about HwmcaCommand for every set of processes, images and      *)
(* plans, with their proofs.                                               *)
(***************************************************************************)
EXTENDS HwmcaCommand, TLAPS

\* The elements of an extended sequence are the old ones and the new one.
LEMMA AppendFacts ==
  ASSUME NEW S, NEW s \in Seq(S), NEW e \in S
  PROVE  /\ Append(s, e) \in Seq(S)
         /\ Len(Append(s, e)) = Len(s) + 1
         /\ \A j \in 1..Len(s) : Append(s, e)[j] = s[j]
         /\ Append(s, e)[Len(s) + 1] = e
  OBVIOUS

\* What is behind the head of a sequence keeps its order.
LEMMA TailFacts ==
  ASSUME NEW S, NEW s \in Seq(S), s # <<>>
  PROVE  /\ Head(s) = s[1] /\ Head(s) \in S
         /\ Tail(s) \in Seq(S)
         /\ Len(s) \in Nat \ {0}
         /\ Len(Tail(s)) = Len(s) - 1
         /\ \A j \in 1..Len(Tail(s)) : Tail(s)[j] = s[j + 1]
  OBVIOUS

\* An element of a sequence is one of its set.
LEMMA ElementOf ==
  ASSUME NEW S, NEW s \in Seq(S), NEW i \in 1..Len(s)
  PROVE  s[i] \in S
  OBVIOUS

\* A command that is pending, or given, has a plan entry, and its answer is an event.
LEMMA AnswerType ==
  ASSUME NEW c \in pending, TypeOK, PendingInv,
         NEW kind \in Kind, NEW code \in {0, 1}, NEW last \in {0, 1}, NEW large \in BOOLEAN
  PROVE  /\ Answer(c, kind, code, last, large) \in Event
         /\ c.process \in Process /\ c.index \in Nat \ {0}
         /\ Plan[c.process][c.index] \in [image : Image, command : Command]
<1>1. c \in Pending
  BY DEF TypeOK
<1>2. IsGiven(<<c.process, c.index>>)
  BY DEF PendingInv
<1>3. c.index \in 1..Len(Plan[c.process]) /\ Plan[c.process] \in Seq([image : Image, command : Command])
  BY <1>1, <1>2, PlanAssumption DEF IsGiven, Pending
<1>4. Plan[c.process][c.index] \in [image : Image, command : Command]
  <2> DEFINE S == [image : Image, command : Command]
  <2> HIDE DEF S
  <2>1. Plan[c.process] \in Seq(S) /\ c.index \in 1..Len(Plan[c.process])
    BY <1>3 DEF S
  <2>2. Plan[c.process][c.index] \in S
    BY <2>1, ElementOf
  <2> QED
    BY <2>2 DEF S
<1>5. <<c.process, c.index>> \in CommandId /\ c.correlator \in Correlators
  BY <1>1 DEF Pending, CommandId
<1> QED
  BY <1>1, <1>4, <1>5 DEF Answer, Event, Pending

\* The correlator drawn for a command is one of Correlators.
LEMMA DrawnType ==
  ASSUME NEW p \in Process, NEW corr, Drawn(p, corr)
  PROVE  corr \in Correlators
  BY DEF Drawn, Correlators

\* Leaving command_handling keeps the types of what it changes.
LEMMA ReturnType ==
  ASSUME TypeOK, NEW p \in Process, NEW o \in Outcome, Return(p, o)
  PROVE  /\ outcome' \in [Process -> Seq(Outcome)]
         /\ problem_class' \in [Process -> ProblemClass]
         /\ pc' \in [Process -> {"idle", "waiting", "done", "closed"}]
         /\ pc'[p] \in {"idle", "done"}
         /\ \A q \in Process \ {p} : pc'[q] = pc[q] /\ outcome'[q] = outcome[q]
<1>1. Append(outcome[p], o) \in Seq(Outcome)
  BY DEF TypeOK
<1> QED
  BY <1>1 DEF Return, TypeOK, ProblemClass

\* An event that is broadcast keeps the queues sequences of events.
LEMMA BroadcastType ==
  ASSUME TypeOK, NEW e \in Event, Broadcast(e)
  PROVE  queue' \in [Process -> Seq(Event)]
  BY DEF TypeOK, Broadcast

\* Taking an event keeps the queues sequences of events.
LEMMA TakeType ==
  ASSUME TypeOK, NEW p \in Process, TakeEvent(p)
  PROVE  queue' \in [Process -> Seq(Event)]
  BY TailFacts DEF TypeOK, TakeEvent

\* A command that reaches the SE is pending there.
LEMMA DeliverType ==
  ASSUME TypeOK, NEW p \in Process, NEW corr \in Correlators, Deliver(p, corr)
  PROVE  pending' \subseteq Pending
<1>1. Current(p) \in Nat \ {0}
  BY DEF TypeOK, Current
<1>2. [process |-> p, index |-> Current(p), correlator |-> corr, partial |-> FALSE] \in Pending
  BY <1>1 DEF Pending
<1> QED
  BY <1>2 DEF Deliver, TypeOK

\* TypeOK is kept by every step, given that the SE works on given commands only.
LEMMA TypeStep ==
  ASSUME TypeOK, PendingInv, [Next]_vars
  PROVE  TypeOK'
<1>1. ASSUME NEW p \in Process, SendCommand(p) PROVE TypeOK'
  <2>1. NewCorrelator(p) \in Correlators
    BY PlanAssumption DEF TypeOK, Correlators, NewCorrelator
  <2>2. pending' \subseteq Pending
    BY <1>1, <2>1, DeliverType DEF SendCommand
  <2> QED
    BY <1>1, <2>1, <2>2 DEF SendCommand, TypeOK, Current
<1>2. ASSUME NEW p \in Process, SendFails(p) PROVE TypeOK'
  <2>1. NewCorrelator(p) \in Correlators
    BY PlanAssumption DEF TypeOK, Correlators, NewCorrelator
  <2>3. Return(p, "fatal") /\ "fatal" \in Outcome
    BY <1>2 DEF SendFails, Outcome
  <2>4. pending' \subseteq Pending
    BY <1>2, <2>1, DeliverType DEF SendFails, TypeOK
  <2>5. /\ stime' = stime /\ queue' = queue /\ executed' = executed /\ noise' = noise
        /\ correlator' \in [Process -> Correlators \cup {0}]
    BY <1>2, <2>1 DEF SendFails, TypeOK
  <2> QED
    BY <2>3, <2>4, <2>5, ReturnType DEF TypeOK, Current
<1>3. ASSUME NEW p \in Process, SkipEvent(p) PROVE TypeOK'
  BY <1>3, TakeType DEF SkipEvent, TypeOK, processVars, seVars, Current
<1>4. ASSUME NEW p \in Process, Decide(p) PROVE TypeOK'
  <2>1. PICK o \in Outcome : Return(p, o)
    BY <1>4 DEF Decide, Outcome
  <2>2. TakeEvent(p)
    BY <1>4 DEF Decide
  <2>3. UNCHANGED <<stime, correlator, pending, executed, noise>>
    BY <1>4 DEF Decide, seVars
  <2> QED
    BY <2>1, <2>2, <2>3, ReturnType, TakeType DEF TypeOK, Current
<1>5. ASSUME NEW p \in Process, LargeEvent(p) PROVE TypeOK'
  <2>1. TakeEvent(p) /\ UNCHANGED <<stime, correlator, pending, executed, noise>>
    BY <1>5 DEF LargeEvent, seVars
  <2>2. CASE Return(p, "overflow")
    BY <2>1, <2>2, ReturnType, TakeType DEF TypeOK, Outcome, Current
  <2>3. CASE UNCHANGED <<outcome, problem_class, pc>>
    BY <2>1, <2>3, TakeType DEF TypeOK, Current
  <2> QED
    BY <1>5, <2>2, <2>3 DEF LargeEvent
<1>6. ASSUME NEW p \in Process, WaitTimeout(p) PROVE TypeOK'
  BY <1>6 DEF WaitTimeout, vars, processVars, TypeOK, seVars, Current
<1>7. ASSUME NEW p \in Process, WaitFails(p) PROVE TypeOK'
  <2>1. Return(p, "fatal") /\ UNCHANGED <<stime, correlator, queue, pending, executed, noise>>
    BY <1>7 DEF WaitFails, seVars
  <2> QED
    BY <2>1, ReturnType DEF TypeOK, Outcome, Current
<1>8. ASSUME NEW p \in Process, Terminate(p) PROVE TypeOK'
  BY <1>8 DEF Terminate, TypeOK, seVars, Current
<1>9. ASSUME NEW c \in pending, Complete(c) PROVE TypeOK'
  <2>1. PICK code \in {0, 1}, kind \in {"response", "garbled"}, large \in BOOLEAN :
          /\ executed' = IF code = 0 THEN executed \cup {<<c.process, c.index>>} ELSE executed
          /\ Broadcast(Answer(c, kind, code, 1, large))
    BY <1>9 DEF Complete
  <2>2. Answer(c, kind, code, 1, large) \in Event /\ c.process \in Process /\ c.index \in Nat \ {0}
    BY AnswerType DEF Kind
  <2>3. queue' \in [Process -> Seq(Event)]
    BY <2>1, <2>2, BroadcastType
  <2>4. executed' \subseteq CommandId
    BY <2>1, <2>2 DEF TypeOK, CommandId
  <2> QED
    BY <1>9, <2>3, <2>4 DEF Complete, TypeOK, processVars, Current
<1>10. ASSUME NEW c \in pending, Progress(c) PROVE TypeOK'
  <2>1. PICK kind \in {"response", "notice"} : Broadcast(Answer(c, kind, 0, 0, FALSE))
    BY <1>10 DEF Progress
  <2>2. Answer(c, kind, 0, 0, FALSE) \in Event
    BY AnswerType DEF Kind
  <2>3. queue' \in [Process -> Seq(Event)]
    BY <2>1, <2>2, BroadcastType
  <2>4. pending' \subseteq Pending
    BY <1>10 DEF Progress, TypeOK, Pending
  <2> QED
    BY <1>10, <2>3, <2>4 DEF Progress, TypeOK, processVars, Current
<1>11. ASSUME OtherApplication PROVE TypeOK'
  <2>1. PICK e \in Event : Broadcast(e)
    BY <1>11 DEF OtherApplication, Event, Kind
  <2>2. queue' \in [Process -> Seq(Event)]
    BY <2>1, BroadcastType
  <2> QED
    BY <1>11, <2>2 DEF OtherApplication, TypeOK, processVars, seVars, Current
<1>12. ASSUME Clock PROVE TypeOK'
  BY <1>12 DEF Clock, TypeOK, processVars, seVars, Current
<1>13. CASE UNCHANGED vars
  BY <1>13 DEF vars, TypeOK, processVars, seVars, Current
<1> QED
  BY <1>1, <1>2, <1>3, <1>4, <1>5, <1>6, <1>7, <1>8, <1>9, <1>10, <1>11, <1>12, <1>13
  DEF Next, ProcessStep, SupportElement

\* Leaving command_handling reports the command under way and gives no other.
LEMMA ReturnGiven ==
  ASSUME TypeOK, NEW p \in Process, NEW o \in Outcome, Return(p, o), pc[p] \in {"idle", "waiting"}
  PROVE  /\ Len(outcome'[p]) = Current(p) /\ Current(p) \in Nat \ {0}
         /\ outcome'[p][Current(p)] = o
         /\ \A i \in 1..Len(outcome[p]) : outcome'[p][i] = outcome[p][i]
         /\ \A q \in Process : Given(q)' >= Given(q)
<1>1. outcome[p] \in Seq(Outcome) /\ outcome'[p] = Append(outcome[p], o)
  BY DEF TypeOK, Return
<1>2. /\ Len(outcome'[p]) = Len(outcome[p]) + 1 /\ Len(outcome[p]) \in Nat
      /\ \A i \in 1..Len(outcome[p]) : outcome'[p][i] = outcome[p][i]
      /\ outcome'[p][Len(outcome[p]) + 1] = o
  BY <1>1
<1>3. pc'[p] \in {"idle", "done"} /\ \A q \in Process \ {p} : pc'[q] = pc[q] /\ outcome'[q] = outcome[q]
  BY ReturnType
<1>4. \A q \in Process : Len(outcome[q]) \in Nat
  BY DEF TypeOK
<1> QED
  BY <1>2, <1>3, <1>4 DEF Given, Current

\* No step takes a given command back, or an execution.
LEMMA GivenKept ==
  ASSUME TypeOK, [Next]_vars
  PROVE  /\ \A q \in Process : Given(q)' >= Given(q) /\ Given(q) \in Nat
         /\ executed \subseteq executed'
<1>0. \A q \in Process : Len(outcome[q]) \in Nat /\ Given(q) \in Nat
  BY DEF TypeOK, Given, Current
<1>1. ASSUME NEW p \in Process, SendCommand(p)
      PROVE  (\A q \in Process : Given(q)' >= Given(q)) /\ executed \subseteq executed'
  <2>1. /\ pc[p] = "idle" /\ pc' = [pc EXCEPT ![p] = "waiting"]
        /\ outcome' = outcome /\ executed' = executed
    BY <1>1 DEF SendCommand
  <2> QED
    BY <2>1, <1>0 DEF TypeOK, Given, Current
<1>2. ASSUME NEW p \in Process, NEW o \in Outcome, Return(p, o), pc[p] \in {"idle", "waiting"},
             UNCHANGED executed
      PROVE  (\A q \in Process : Given(q)' >= Given(q)) /\ executed \subseteq executed'
  BY <1>2, ReturnGiven
<1>3. ASSUME NEW p \in Process, SkipEvent(p) \/ WaitTimeout(p)
      PROVE  UNCHANGED <<pc, outcome, executed>>
  BY <1>3 DEF SkipEvent, WaitTimeout, vars, processVars, seVars
<1>4. ASSUME NEW p \in Process, Terminate(p)
      PROVE  (\A q \in Process : Given(q)' >= Given(q)) /\ executed \subseteq executed'
  <2>1. pc[p] = "done" /\ pc' = [pc EXCEPT ![p] = "closed"] /\ UNCHANGED <<outcome, executed>>
    BY <1>4 DEF Terminate, seVars
  <2> QED
    BY <2>1, <1>0 DEF TypeOK, Given, Current
<1>5. ASSUME NEW p \in Process, SendFails(p) \/ WaitFails(p) \/ Decide(p)
      PROVE  (\A q \in Process : Given(q)' >= Given(q)) /\ executed \subseteq executed'
  <2>1. pc[p] \in {"idle", "waiting"} /\ UNCHANGED executed
    BY <1>5 DEF SendFails, WaitFails, Decide, TakeEvent, seVars
  <2>2. \E o \in Outcome : Return(p, o)
    BY <1>5 DEF SendFails, WaitFails, Decide, Outcome
  <2> QED
    BY <2>1, <2>2, <1>2
<1>6. ASSUME NEW p \in Process, LargeEvent(p)
      PROVE  (\A q \in Process : Given(q)' >= Given(q)) /\ executed \subseteq executed'
  <2>1. pc[p] \in {"idle", "waiting"} /\ UNCHANGED executed
    BY <1>6 DEF LargeEvent, TakeEvent, seVars
  <2>2. CASE Return(p, "overflow")
    BY <2>1, <2>2, <1>2 DEF Outcome
  <2>3. CASE UNCHANGED <<outcome, problem_class, pc>>
    BY <2>1, <2>3, <1>0 DEF Given, Current
  <2> QED
    BY <1>6, <2>2, <2>3 DEF LargeEvent
<1>7. ASSUME NEW c \in pending, Complete(c) \/ Progress(c)
      PROVE  UNCHANGED <<pc, outcome>> /\ executed \subseteq executed'
  BY <1>7 DEF Complete, Progress, processVars
<1>8. ASSUME OtherApplication \/ Clock \/ UNCHANGED vars
      PROVE  UNCHANGED <<pc, outcome, executed>>
  BY <1>8 DEF OtherApplication, Clock, vars, processVars, seVars
<1>9. ASSUME UNCHANGED <<pc, outcome>>
      PROVE  \A q \in Process : Given(q)' >= Given(q)
  BY <1>9, <1>0 DEF Given, Current
<1> QED
  BY <1>0, <1>1, <1>3, <1>4, <1>5, <1>6, <1>7, <1>8, <1>9 DEF Next, ProcessStep, SupportElement

\* So what the invariant says of a single event is never lost.
LEMMA EventKept ==
  ASSUME TypeOK, [Next]_vars
  PROVE  /\ \A c \in CommandId : IsGiven(c) => IsGiven(c)'
         /\ \A e \in Event : EventInv(e) => EventInv(e)'
<1>1. ASSUME NEW c \in CommandId, IsGiven(c) PROVE IsGiven(c)'
  <2>1. /\ c[1] \in Process /\ c[2] \in Nat \ {0}
        /\ c[2] <= Given(c[1])
        /\ c[2] \in 1..Len(Plan[c[1]])
    BY <1>1 DEF IsGiven, CommandId
  <2>2. Given(c[1])' >= Given(c[1]) /\ Given(c[1]) \in Nat
    BY <2>1, GivenKept
  <2>3. Given(c[1])' \in Nat
    <3>1. c[1] \in Process BY <2>1
    <3> QED BY <2>2 DEF Given, Current
  <2> QED
    BY <2>1, <2>2, <2>3 DEF IsGiven
<1>2. ASSUME NEW e \in Event, EventInv(e) PROVE EventInv(e)'
  <2>1. e.origin # None => e.origin \in CommandId
    BY DEF Event
  <2> QED
    BY <1>1, <1>2, <2>1, GivenKept DEF EventInv, Drawn
<1> QED
  BY <1>1, <1>2

\* The SE never works on a command twice, nor on one that was not given.
LEMMA PendingStep ==
  ASSUME TypeOK, PendingInv, [Next]_vars
  PROVE  PendingInv'
<1>0. \A c \in pending : c \in Pending /\ <<c.process, c.index>> \in CommandId
  BY DEF TypeOK, Pending, CommandId
<1>1. ASSUME NEW p \in Process, SendCommand(p) \/ SendFails(p), pending' # pending
      PROVE  PendingInv'
  <2>1. /\ pending' = pending \cup {[process |-> p, index |-> Current(p),
                                     correlator |-> Rand[stime] + Pid[p], partial |-> FALSE]}
        /\ pc[p] = "idle" /\ Current(p) <= Len(Plan[p])
    BY <1>1 DEF SendCommand, SendFails, Deliver, NewCorrelator
  <2>2. Current(p) \in Nat \ {0} /\ Given(p) = Current(p) - 1
    BY <2>1 DEF TypeOK, Current, Given
  <2>3. PICK n \in Nat \ {0} : n = Current(p)
    BY <2>2
  <2>4. PICK corr : corr = Rand[stime] + Pid[p]
    OBVIOUS
  <2> DEFINE new == [process |-> p, index |-> n, correlator |-> corr, partial |-> FALSE]
  <2>5. pending' = pending \cup {new}
    BY <2>1, <2>3, <2>4
  <2>6. \A c \in pending : c.process = p => c.index # n
    BY <2>2, <2>3, <1>0 DEF PendingInv, IsGiven, Pending
  <2>7. Given(p)' = n
    <3>1. CASE SendCommand(p)
      BY <3>1, <2>2, <2>3 DEF SendCommand, Given, Current, TypeOK
    <3>2. CASE SendFails(p)
      <4>1. Return(p, "fatal") /\ "fatal" \in Outcome
        BY <3>2 DEF SendFails, Outcome
      <4>2. Len(outcome'[p]) = Current(p) /\ pc'[p] \in {"idle", "done"}
        BY <4>1, <2>1, ReturnGiven, ReturnType
      <4> QED
        BY <4>2, <2>3 DEF Given
    <3> QED
      BY <1>1, <3>1, <3>2
  <2>8. IsGiven(<<p, n>>)'
    <3>1. Len(Plan[p]) \in Nat
      BY PlanAssumption
    <3> QED
      BY <2>1, <2>3, <2>7, <3>1 DEF IsGiven
  <2>9. Drawn(p, corr)
    BY <2>4 DEF Drawn, TypeOK
  <2>10. \A c \in pending' : IsGiven(<<c.process, c.index>>)' /\ Drawn(c.process, c.correlator)
    <3> SUFFICES ASSUME NEW c \in pending'
                 PROVE  IsGiven(<<c.process, c.index>>)' /\ Drawn(c.process, c.correlator)
      OBVIOUS
    <3>1. CASE c = new
      BY <3>1, <2>8, <2>9
    <3>2. CASE c \in pending
      BY <3>2, <1>0, EventKept DEF PendingInv
    <3> QED
      BY <3>1, <3>2, <2>5
  <2>11. \A c, d \in pending' : c.process = d.process /\ c.index = d.index => c = d
    <3>1. new.process = p /\ new.index = n
      OBVIOUS
    <3> HIDE DEF new
    <3> QED
      BY <2>5, <2>6, <3>1 DEF PendingInv
  <2> QED
    BY <2>10, <2>11 DEF PendingInv, Drawn
<1>2. ASSUME NEW c \in pending, Progress(c)
      PROVE  PendingInv'
  <2> DEFINE new == [c EXCEPT !.partial = TRUE]
  <2>1. pending' = (pending \ {c}) \cup {new}
    BY <1>2 DEF Progress
  <2>2. new.process = c.process /\ new.index = c.index /\ new.correlator = c.correlator
    BY <1>0 DEF Pending
  <2> HIDE DEF new
  <2>3. \A d \in pending' : IsGiven(<<d.process, d.index>>)' /\ Drawn(d.process, d.correlator)
    <3> SUFFICES ASSUME NEW d \in pending'
                 PROVE  IsGiven(<<d.process, d.index>>)' /\ Drawn(d.process, d.correlator)
      OBVIOUS
    <3>1. PICK b \in pending : b.process = d.process /\ b.index = d.index /\ b.correlator = d.correlator
      BY <2>1, <2>2
    <3>2. IsGiven(<<b.process, b.index>>)' /\ Drawn(b.process, b.correlator)
      BY <1>0, EventKept DEF PendingInv
    <3> QED
      BY <3>1, <3>2
  <2>4. \A d, b \in pending' : d.process = b.process /\ d.index = b.index => d = b
    BY <2>1, <2>2 DEF PendingInv
  <2> QED
    BY <2>3, <2>4 DEF PendingInv, Drawn
<1>3. ASSUME pending' \subseteq pending PROVE PendingInv'
  BY <1>3, <1>0, EventKept DEF PendingInv, Drawn
<1>4. ASSUME NEW p \in Process, SkipEvent(p) \/ Decide(p) \/ LargeEvent(p) \/ WaitTimeout(p)
                                 \/ WaitFails(p) \/ Terminate(p)
      PROVE  pending' \subseteq pending
  BY <1>4 DEF SkipEvent, Decide, LargeEvent, WaitTimeout, vars, WaitFails, Terminate, seVars
<1>5. ASSUME NEW c \in pending, Complete(c) PROVE pending' \subseteq pending
  BY <1>5 DEF Complete
<1>6. ASSUME OtherApplication \/ Clock \/ UNCHANGED vars PROVE pending' \subseteq pending
  BY <1>6 DEF OtherApplication, Clock, vars, seVars
<1> QED
  BY <1>1, <1>2, <1>3, <1>4, <1>5, <1>6 DEF Next, ProcessStep, SupportElement

\* How a step changes the queues: an event is taken from one of them, all copies of a
\* new event are appended, a queue is emptied, or nothing happens.
LEMMA QueueSteps ==
  ASSUME TypeOK, [Next]_vars
  PROVE  \/ queue' = queue
         \/ \E p \in Process : TakeEvent(p)
         \/ \E p \in Process : queue' = [queue EXCEPT ![p] = <<>>]
         \/ \E c \in pending : Complete(c) \/ Progress(c)
         \/ OtherApplication
  BY DEF Next, ProcessStep, SupportElement, SendCommand, SendFails, SkipEvent, Decide, LargeEvent,
         WaitTimeout, WaitFails, Terminate, Clock, vars

\* A broadcast appends the event to some queues and leaves the others alone.
LEMMA BroadcastFacts ==
  ASSUME TypeOK, NEW e \in Event, Broadcast(e), NEW q \in Process
  PROVE  \/ queue'[q] = queue[q]
         \/ /\ Len(queue'[q]) = Len(queue[q]) + 1
            /\ \A j \in 1..Len(queue[q]) : queue'[q][j] = queue[q][j]
            /\ queue'[q][Len(queue[q]) + 1] = e
<1>1. queue'[q] = queue[q] \/ queue'[q] = Append(queue[q], e)
  BY DEF Broadcast
<1>2. queue[q] \in Seq(Event)
  BY DEF TypeOK
<1> QED
  BY <1>1, <1>2, AppendFacts

\* Taking an event shifts one queue and leaves the others alone.
LEMMA TakeFacts ==
  ASSUME TypeOK, NEW p \in Process, TakeEvent(p)
  PROVE  /\ \A q \in Process \ {p} : queue'[q] = queue[q]
         /\ Len(queue[p]) \in Nat \ {0}
         /\ Len(queue'[p]) = Len(queue[p]) - 1
         /\ \A j \in 1..Len(queue'[p]) : queue'[p][j] = queue[p][j + 1]
         /\ Head(queue[p]) = queue[p][1] /\ Head(queue[p]) \in Event
<1>1. queue[p] \in Seq(Event) /\ queue[p] # <<>> /\ queue'[p] = Tail(queue[p])
  BY DEF TypeOK, TakeEvent
<1>2. \A q \in Process \ {p} : queue'[q] = queue[q]
  BY DEF TypeOK, TakeEvent
<1> QED
  BY <1>1, <1>2, TailFacts

\* What the SE says of a command: an answer carries the command's identity, correlator
\* and object.
LEMMA AnswerFacts ==
  ASSUME NEW c, NEW kind, NEW code, NEW last, NEW large
  PROVE  LET e == Answer(c, kind, code, last, large)
         IN  /\ e.origin = <<c.process, c.index>> /\ e.origin # None
             /\ e.object = Plan[c.process][c.index].image
             /\ e.correlator = c.correlator /\ e.last = last /\ e.code = code /\ e.kind = kind
  BY DEF Answer, None

\* The shapes of what the SE says of a command.
AnswerKind == {"response", "garbled", "notice"}

\* Every event that a step leaves in a queue was there before, or is the answer the SE
\* has just given, or comes from another application.
LEMMA QueueContents ==
  ASSUME TypeOK, PendingInv, [Next]_vars, NEW q \in Process, NEW j \in 1..Len(queue'[q])
  PROVE  \/ \E k \in 1..Len(queue[q]) : queue'[q][j] = queue[q][k]
         \/ \E c \in pending, kind \in AnswerKind, code \in {0, 1}, last \in {0, 1}, large \in BOOLEAN :
              /\ queue'[q][j] = Answer(c, kind, code, last, large)
              /\ last = 1 => pending' = pending \ {c}
              /\ last = 1 /\ code = 0 => <<c.process, c.index>> \in executed'
         \/ /\ queue'[q][j].origin = None
            /\ queue'[q][j].kind \in {"short", "alien"} \cup ({"untyped"} \cap Faults)
<1>0. Len(queue[q]) \in Nat
  BY DEF TypeOK
<1>1. CASE queue' = queue
  BY <1>1
<1>2. ASSUME NEW p \in Process, TakeEvent(p)
      PROVE  \E k \in 1..Len(queue[q]) : queue'[q][j] = queue[q][k]
  <2>1. CASE q = p
    <3>1. Len(queue'[p]) = Len(queue[p]) - 1 /\ queue'[p][j] = queue[p][j + 1] /\ Len(queue[p]) \in Nat
      BY <1>2, <2>1, TakeFacts
    <3>2. j + 1 \in 1..Len(queue[p])
      BY <3>1, <2>1
    <3> QED
      BY <3>1, <3>2, <2>1
  <2>2. CASE q # p
    BY <1>2, <2>2, TakeFacts
  <2> QED
    BY <2>1, <2>2
<1>3. ASSUME NEW p \in Process, queue' = [queue EXCEPT ![p] = <<>>]
      PROVE  \E k \in 1..Len(queue[q]) : queue'[q][j] = queue[q][k]
  <2>1. CASE q = p
    BY <1>3, <2>1 DEF TypeOK
  <2>2. CASE q # p
    BY <1>3, <2>2 DEF TypeOK
  <2> QED
    BY <2>1, <2>2
<1>4. ASSUME NEW e \in Event, Broadcast(e)
      PROVE  queue'[q][j] = e \/ \E k \in 1..Len(queue[q]) : queue'[q][j] = queue[q][k]
  BY <1>0, <1>4, BroadcastFacts
<1>5. ASSUME NEW c \in pending, Complete(c)
      PROVE  \E kind \in AnswerKind, code \in {0, 1}, last \in {0, 1}, large \in BOOLEAN :
               /\ Answer(c, kind, code, last, large) \in Event
               /\ Broadcast(Answer(c, kind, code, last, large))
               /\ last = 1 => pending' = pending \ {c}
               /\ last = 1 /\ code = 0 => <<c.process, c.index>> \in executed'
  <2>1. PICK code \in {0, 1}, kind \in {"response", "garbled"}, large \in BOOLEAN :
          /\ executed' = IF code = 0 THEN executed \cup {<<c.process, c.index>>} ELSE executed
          /\ Broadcast(Answer(c, kind, code, 1, large))
    BY <1>5 DEF Complete
  <2>2. kind \in AnswerKind /\ kind \in Kind /\ pending' = pending \ {c}
    BY <1>5 DEF Complete, AnswerKind, Kind
  <2>3. Answer(c, kind, code, 1, large) \in Event
    BY <2>2, AnswerType
  <2> QED
    BY <2>1, <2>2, <2>3
<1>6. ASSUME NEW c \in pending, Progress(c)
      PROVE  \E kind \in AnswerKind : /\ Answer(c, kind, 0, 0, FALSE) \in Event
                                      /\ Broadcast(Answer(c, kind, 0, 0, FALSE))
  <2>1. PICK kind \in {"response", "notice"} : Broadcast(Answer(c, kind, 0, 0, FALSE))
    BY <1>6 DEF Progress
  <2>2. kind \in AnswerKind /\ kind \in Kind
    BY DEF AnswerKind, Kind
  <2> QED
    BY <2>1, <2>2, AnswerType
<1>7. ASSUME OtherApplication
      PROVE  \E e \in Event : /\ Broadcast(e) /\ e.origin = None
                              /\ e.kind \in {"short", "alien"} \cup ({"untyped"} \cap Faults)
  <2>1. PICK i \in Image, kind \in {"short", "alien"} \cup ({"untyped"} \cap Faults) :
          Broadcast([object |-> i, kind |-> kind, correlator |-> 0, command |-> "other",
                     code |-> 0, last |-> 1, large |-> FALSE, origin |-> None])
    BY <1>7 DEF OtherApplication
  <2> DEFINE e == [object |-> i, kind |-> kind, correlator |-> 0, command |-> "other",
                   code |-> 0, last |-> 1, large |-> FALSE, origin |-> None]
  <2>2. kind \in Kind
    BY DEF Kind
  <2>3. e \in Event
    BY <2>2 DEF Event
  <2> QED
    BY <2>1, <2>2, <2>3
<1>8. CASE \E c \in pending : Complete(c)
  BY <1>8, <1>5, <1>4
<1>9. CASE \E c \in pending : Progress(c)
  <2>1. PICK c \in pending : Progress(c)
    BY <1>9
  <2>2. PICK kind \in AnswerKind : /\ Answer(c, kind, 0, 0, FALSE) \in Event
                                   /\ Broadcast(Answer(c, kind, 0, 0, FALSE))
    BY <2>1, <1>6
  <2>3. \/ queue'[q][j] = Answer(c, kind, 0, 0, FALSE)
        \/ \E k \in 1..Len(queue[q]) : queue'[q][j] = queue[q][k]
    BY <2>2, <1>4
  <2>4. ASSUME queue'[q][j] = Answer(c, kind, 0, 0, FALSE)
        PROVE  \E d \in pending, k \in AnswerKind, code \in {0, 1}, last \in {0, 1}, large \in BOOLEAN :
                 /\ queue'[q][j] = Answer(d, k, code, last, large)
                 /\ last = 1 => pending' = pending \ {d}
                 /\ last = 1 /\ code = 0 => <<d.process, d.index>> \in executed'
    <3> WITNESS c \in pending, kind \in AnswerKind, 0 \in {0, 1}, 0 \in {0, 1}, FALSE \in BOOLEAN
    <3> QED
      BY <2>4
  <2> QED
    BY <2>3, <2>4
<1>10. CASE OtherApplication
  BY <1>10, <1>7, <1>4
<1> QED
  BY <1>1, <1>2, <1>3, <1>8, <1>9, <1>10, QueueSteps

\* What the invariant says of the events stays true of every queue.
LEMMA QueueStep ==
  ASSUME TypeOK, PendingInv, QueueInv, [Next]_vars
  PROVE  QueueInv'
<1> SUFFICES ASSUME NEW q \in Process, NEW j \in 1..Len(queue'[q]),
                    NEW e \in Event, e = queue'[q][j]
             PROVE  EventInv(e)'
  <2>1. \A q \in Process : \A j \in 1..Len(queue'[q]) : queue'[q][j] \in Event
    BY TypeStep, ElementOf DEF TypeOK
  <2> QED
    BY <2>1 DEF QueueInv, EventInv
<1>1. ASSUME NEW k \in 1..Len(queue[q]), e = queue[q][k] PROVE EventInv(e)'
  BY <1>1, EventKept DEF QueueInv
<1>2. ASSUME NEW c \in pending, NEW kind \in AnswerKind, NEW code \in {0, 1}, NEW last \in {0, 1},
             NEW large \in BOOLEAN, e = Answer(c, kind, code, last, large),
             last = 1 /\ code = 0 => <<c.process, c.index>> \in executed'
      PROVE  EventInv(e)'
  <2>1. c \in Pending /\ IsGiven(<<c.process, c.index>>) /\ Drawn(c.process, c.correlator)
    BY DEF PendingInv, TypeOK
  <2>2. <<c.process, c.index>> \in CommandId
    BY <2>1 DEF Pending, CommandId
  <2>3. IsGiven(<<c.process, c.index>>)'
    BY <2>1, <2>2, EventKept
  <2> QED
    BY <1>2, <2>1, <2>3, AnswerFacts DEF EventInv, Drawn
<1>3. ASSUME e.origin = None, e.kind \in {"short", "alien"} \cup ({"untyped"} \cap Faults) PROVE EventInv(e)'
  BY <1>3 DEF EventInv
<1> QED
  BY <1>1, <1>2, <1>3, QueueContents

\* A process that decides with "acknowledged" has the last, successful response to its
\* own command at the head of its queue: the heart of the argument.
LEMMA AckedEvent ==
  ASSUME CorrelatorsDistinct, ImagesDistinct, IInv, NEW p \in Process, TakeEvent(p),
         Head(queue[p]).object = Target(p),
         Accepted(Head(queue[p]), correlator[p], Wanted(p))
  PROVE  /\ Head(queue[p]).origin = <<p, Current(p)>>
         /\ <<p, Current(p)>> \in executed
<1> DEFINE e == Head(queue[p])
<1>1. /\ e \in Event /\ EventInv(e) /\ e = queue[p][1] /\ Len(queue[p]) \in Nat \ {0}
      /\ 1 \in 1..Len(queue[p])
  BY TakeFacts DEF IInv, QueueInv
<1> HIDE DEF e
<1>2. e.kind = "response" /\ e.correlator = correlator[p] /\ e.code = 0 /\ e.last = 1
  BY DEF Accepted, e
<1>3. e.origin # None /\ e.origin \in CommandId
  BY <1>1, <1>2 DEF EventInv, Event
<1>4. PICK q \in Process, i \in Nat \ {0} : e.origin = <<q, i>>
  BY <1>3 DEF CommandId
<1>5. /\ IsGiven(<<q, i>>) /\ e.object = Plan[q][i].image
      /\ Drawn(q, e.correlator) /\ <<q, i>> \in executed
  BY <1>1, <1>2, <1>3, <1>4 DEF EventInv
<1>6. pc[p] = "waiting" /\ Drawn(p, correlator[p]) /\ Current(p) <= Len(Plan[p])
  BY DEF TakeEvent, IInv, WaitInv, TypeOK
<1>7. q = p
  BY <1>2, <1>5, <1>6 DEF CorrelatorsDistinct, Drawn
<1>8. Current(p) \in Nat \ {0} /\ Given(p) = Current(p) /\ i \in 1..Current(p) /\ i \in 1..Len(Plan[p])
  BY <1>5, <1>6, <1>7 DEF IInv, TypeOK, Given, Current, IsGiven
<1>9. Current(p) \in 1..Len(Plan[p])
  <2>1. Len(Plan[p]) \in Nat
    BY PlanAssumption
  <2> QED
    BY <2>1, <1>6, <1>8
<1>10. i = Current(p)
  <2>1. CASE p \in Dialog
    <3>1. i < Current(p) => outcome[p][i] = "acknowledged" /\ i \in 1..Len(outcome[p])
      BY <2>1, <1>6, <1>8 DEF IInv, DialogInv, Current
    <3>2. i < Current(p) => e.origin # <<p, i>>
      BY <3>1, <1>1, <1>2 DEF IInv, AckedInv
    <3> QED
      BY <3>2, <1>4, <1>7, <1>8
  <2>2. CASE p \notin Dialog
    <3>1. Plan[p][i].image = Plan[p][Current(p)].image
      BY <1>5, <1>7 DEF Target, e
    <3> QED
      BY <2>2, <3>1, <1>8, <1>9 DEF ImagesDistinct
  <2> QED
    BY <2>1, <2>2
<1> QED
  BY <1>4, <1>5, <1>7, <1>10 DEF e

\* The other parts of IInv.  A process reports a new outcome only by Return.
LEMMA OutcomeSteps ==
  ASSUME TypeOK, [Next]_vars
  PROVE  \/ UNCHANGED <<outcome, pc>>
         \/ \E p \in Process : SendCommand(p)
         \/ \E p \in Process : Terminate(p)
         \/ \E p \in Process : Decide(p)
         \/ \E p \in Process, o \in Outcome \ {"acknowledged", "refused"} :
              Return(p, o) /\ pc[p] \in {"idle", "waiting"}
  BY DEF Next, ProcessStep, SupportElement, SendFails, SkipEvent, LargeEvent, TakeEvent,
         WaitTimeout, WaitFails, Clock, vars, Complete, Progress, OtherApplication,
         processVars, Outcome

\* A waiting process holds a correlator of its own.
LEMMA WaitStep ==
  ASSUME TypeOK, WaitInv, [Next]_vars
  PROVE  WaitInv'
<1> SUFFICES ASSUME NEW q \in Process, pc'[q] = "waiting" PROVE Drawn(q, correlator'[q])
  BY DEF WaitInv, Drawn
<1>1. ASSUME NEW p \in Process, SendCommand(p) PROVE Drawn(q, correlator'[q])
  <2>1. CASE q = p
    BY <1>1, <2>1 DEF SendCommand, TypeOK, Drawn, NewCorrelator
  <2>2. CASE q # p
    BY <1>1, <2>2 DEF SendCommand, TypeOK, WaitInv
  <2> QED
    BY <2>1, <2>2
<1>2. ASSUME NEW p \in Process, SendFails(p) PROVE Drawn(q, correlator'[q])
  <2>1. Return(p, "fatal") /\ "fatal" \in Outcome
    BY <1>2 DEF SendFails, Outcome
  <2>2. q # p /\ pc[q] = "waiting"
    BY <2>1, ReturnType
  <2> QED
    BY <1>2, <2>2 DEF SendFails, TypeOK, WaitInv
<1>3. ASSUME UNCHANGED correlator, pc[q] = "waiting" PROVE Drawn(q, correlator'[q])
  BY <1>3 DEF WaitInv
<1>4. ASSUME NEW p \in Process, Decide(p) \/ LargeEvent(p) \/ WaitFails(p)
      PROVE  UNCHANGED correlator /\ pc[q] = "waiting"
  <2>1. UNCHANGED correlator
    BY <1>4 DEF Decide, LargeEvent, WaitFails
  <2>2. (\E o \in Outcome : Return(p, o)) \/ UNCHANGED pc
    BY <1>4 DEF Decide, LargeEvent, WaitFails, Outcome
  <2> QED
    BY <2>1, <2>2, ReturnType
<1>5. ASSUME NEW p \in Process, SkipEvent(p) \/ WaitTimeout(p) \/ Terminate(p)
      PROVE  UNCHANGED correlator /\ pc[q] = "waiting"
  BY <1>5 DEF SkipEvent, WaitTimeout, vars, Terminate, processVars, TypeOK
<1>6. ASSUME SupportElement \/ OtherApplication \/ Clock \/ UNCHANGED vars
      PROVE  UNCHANGED correlator /\ pc[q] = "waiting"
  BY <1>6 DEF SupportElement, Complete, Progress, OtherApplication, Clock, processVars, vars
<1> QED
  BY <1>1, <1>2, <1>3, <1>4, <1>5, <1>6 DEF Next, ProcessStep

\* An outcome is new, or it was reported before; "acknowledged" is new only by Decide,
\* on the response that AckedEvent speaks of.
LEMMA NewOutcome ==
  ASSUME CorrelatorsDistinct, ImagesDistinct, IInv, [Next]_vars,
         NEW p \in Process, NEW i \in 1..Len(outcome'[p]), outcome'[p][i] = "acknowledged"
  PROVE  \/ i \in 1..Len(outcome[p]) /\ outcome[p][i] = "acknowledged"
         \/ /\ i = Current(p) /\ Decide(p)
            /\ Head(queue[p]).origin = <<p, i>> /\ Head(queue[p]).last = 1
            /\ <<p, i>> \in executed
<1>0. TypeOK
  BY DEF IInv
<1>1. CASE UNCHANGED outcome
  BY <1>1
<1>2. ASSUME NEW q \in Process, SendCommand(q) \/ Terminate(q) PROVE UNCHANGED outcome
  BY <1>2 DEF SendCommand, Terminate
<1>3. ASSUME NEW q \in Process, NEW o \in Outcome, Return(q, o), pc[q] \in {"idle", "waiting"}
      PROVE  \/ i \in 1..Len(outcome[p]) /\ outcome'[p][i] = outcome[p][i]
             \/ p = q /\ i = Current(p) /\ outcome'[p][i] = o
  <2>1. CASE p = q
    <3>1. /\ Len(outcome'[p]) = Current(p) /\ Current(p) \in Nat \ {0}
          /\ outcome'[p][Current(p)] = o
          /\ \A k \in 1..Len(outcome[p]) : outcome'[p][k] = outcome[p][k]
      BY <1>0, <1>3, <2>1, ReturnGiven
    <3>2. Current(p) = Len(outcome[p]) + 1 /\ Len(outcome[p]) \in Nat
      BY <1>0 DEF Current, TypeOK
    <3> QED
      BY <2>1, <3>1, <3>2
  <2>2. CASE p # q
    BY <1>0, <1>3, <2>2, ReturnType
  <2> QED
    BY <2>1, <2>2
<1>4. ASSUME NEW q \in Process, Decide(q)
      PROVE  \/ i \in 1..Len(outcome[p]) /\ outcome[p][i] = "acknowledged"
             \/ /\ i = Current(p) /\ p = q
                /\ Head(queue[p]).origin = <<p, i>> /\ Head(queue[p]).last = 1
                /\ <<p, i>> \in executed
  <2>1. PICK o \in Outcome :
          /\ Return(q, o)
          /\ o = "acknowledged" => Accepted(Head(queue[q]), correlator[q], Wanted(q))
    BY <1>4 DEF Decide, Outcome
  <2>2. TakeEvent(q) /\ Head(queue[q]).object = Target(q) /\ pc[q] = "waiting"
    BY <1>4 DEF Decide, TakeEvent
  <2>3. o = "acknowledged" =>
          /\ Head(queue[q]).origin = <<q, Current(q)>> /\ <<q, Current(q)>> \in executed
          /\ Head(queue[q]).last = 1
    BY <2>1, <2>2, AckedEvent DEF Accepted
  <2> QED
    BY <2>1, <2>2, <2>3, <1>3
<1> QED
  BY <1>0, <1>1, <1>2, <1>3, <1>4, OutcomeSteps

\* Whatever is pending after a step was pending before, or its process has just sent it.
LEMMA PendingIds ==
  ASSUME TypeOK, [Next]_vars, NEW c \in pending'
  PROVE  \/ \E d \in pending : d.process = c.process /\ d.index = c.index
         \/ /\ c.process \in Process /\ c.index = Given(c.process) + 1
            /\ Given(c.process) = Len(outcome[c.process])
<1>0. pending \subseteq Pending
  BY DEF TypeOK
<1>1. ASSUME NEW p \in Process, SendCommand(p) \/ SendFails(p)
      PROVE  c \in pending \/ (c.process = p /\ c.index = Given(p) + 1 /\ Given(p) = Len(outcome[p]))
  <2>1. pc[p] = "idle"
    BY <1>1 DEF SendCommand, SendFails
  <2>2. c \in pending \/ (c.process = p /\ c.index = Current(p))
    BY <1>1 DEF SendCommand, SendFails, Deliver
  <2> QED
    BY <2>1, <2>2 DEF Given, Current
<1>2. ASSUME NEW d \in pending, Progress(d)
      PROVE  \E b \in pending : b.process = c.process /\ b.index = c.index
  <2>1. c \in pending \/ c = [d EXCEPT !.partial = TRUE]
    BY <1>2 DEF Progress
  <2>2. d \in Pending
    BY <1>0
  <2> QED
    BY <2>1, <2>2 DEF Pending
<1>3. ASSUME NEW p \in Process, SkipEvent(p) \/ Decide(p) \/ LargeEvent(p) \/ WaitTimeout(p)
                                 \/ WaitFails(p) \/ Terminate(p)
      PROVE  c \in pending
  BY <1>3 DEF SkipEvent, Decide, LargeEvent, WaitTimeout, vars, WaitFails, Terminate, seVars
<1>4. ASSUME NEW d \in pending, Complete(d) PROVE c \in pending
  BY <1>4 DEF Complete
<1>5. ASSUME OtherApplication \/ Clock \/ UNCHANGED vars PROVE c \in pending
  BY <1>5 DEF OtherApplication, Clock, vars, seVars
<1> QED
  BY <1>1, <1>2, <1>3, <1>4, <1>5 DEF Next, ProcessStep, SupportElement

\* The last response to an acknowledged command is gone for good.
LEMMA AckedStep ==
  ASSUME CorrelatorsDistinct, ImagesDistinct, IInv, [Next]_vars
  PROVE  AckedInv'
<1>0. TypeOK /\ PendingInv /\ AckedInv /\ LastInv
  BY DEF IInv
<1> SUFFICES ASSUME NEW p \in Process, NEW i \in 1..Len(outcome'[p]), outcome'[p][i] = "acknowledged"
             PROVE  /\ \A c \in pending' : <<c.process, c.index>> # <<p, i>>
                    /\ \A j \in 1..Len(queue'[p]) : queue'[p][j].last = 1 => queue'[p][j].origin # <<p, i>>
  BY DEF AckedInv
<1>1. CASE i \in 1..Len(outcome[p]) /\ outcome[p][i] = "acknowledged"
  <2>1. \A d \in pending : <<d.process, d.index>> # <<p, i>>
    BY <1>0, <1>1 DEF AckedInv
  <2>2. \A j \in 1..Len(queue[p]) : queue[p][j].last = 1 => queue[p][j].origin # <<p, i>>
    BY <1>0, <1>1 DEF AckedInv
  <2>3. Len(outcome[p]) \in Nat
    BY <1>0 DEF TypeOK
  <2>4. \A c \in pending' : <<c.process, c.index>> # <<p, i>>
    BY <1>0, <1>1, <2>1, <2>3, PendingIds
  <2>5. ASSUME NEW j \in 1..Len(queue'[p]), queue'[p][j].last = 1
        PROVE  queue'[p][j].origin # <<p, i>>
    <3>1. CASE \E k \in 1..Len(queue[p]) : queue'[p][j] = queue[p][k]
      BY <2>2, <2>5, <3>1
    <3>2. ASSUME NEW c \in pending, NEW kind \in AnswerKind, NEW code \in {0, 1}, NEW last \in {0, 1},
                 NEW large \in BOOLEAN,
                 queue'[p][j] = Answer(c, kind, code, last, large)
          PROVE  queue'[p][j].origin # <<p, i>>
      BY <2>1, <3>2, AnswerFacts
    <3>3. CASE queue'[p][j].origin = None
      <4>1. <<p, i>> # None
        BY DEF None
      <4> QED
        BY <3>3, <4>1
    <3> QED
      BY <1>0, <3>1, <3>2, <3>3, QueueContents
  <2> QED
    BY <2>4, <2>5
<1>2. CASE /\ Decide(p)
           /\ Head(queue[p]).origin = <<p, i>> /\ Head(queue[p]).last = 1
  <2>1. TakeEvent(p) /\ pending' = pending
    BY <1>2 DEF Decide, seVars
  <2>2. /\ Len(queue[p]) \in Nat \ {0}
        /\ Len(queue'[p]) = Len(queue[p]) - 1
        /\ \A j \in 1..Len(queue'[p]) : queue'[p][j] = queue[p][j + 1]
        /\ Head(queue[p]) = queue[p][1]
    BY <1>0, <2>1, TakeFacts
  <2>3. 1 \in 1..Len(queue[p]) /\ queue[p][1].origin = <<p, i>> /\ queue[p][1].last = 1
        /\ queue[p][1].origin # None
    <3>1. <<p, i>> # None
      BY DEF None
    <3>2. Head(queue[p]) = queue[p][1]
      BY <2>2
    <3>3. queue[p][1].origin = <<p, i>> /\ queue[p][1].last = 1
      BY <1>2, <3>2
    <3>4. 1 \in 1..Len(queue[p])
      BY <2>2
    <3> QED
      BY <3>1, <3>3, <3>4
  <2>4. /\ \A c \in pending : <<c.process, c.index>> # <<p, i>>
        /\ \A k \in 1..Len(queue[p]) : queue[p][k].origin = <<p, i>> /\ queue[p][k].last = 1 => k = 1
    <3>1. \A j \in 1..Len(queue[p]) : queue[p][j].origin # None /\ queue[p][j].last = 1 =>
            /\ \A c \in pending : <<c.process, c.index>> # queue[p][j].origin
            /\ \A k \in 1..Len(queue[p]) :
                 queue[p][k].origin = queue[p][j].origin /\ queue[p][k].last = 1 => k = j
      BY <1>0 DEF LastInv
    <3>2. /\ \A c \in pending : <<c.process, c.index>> # queue[p][1].origin
          /\ \A k \in 1..Len(queue[p]) :
               queue[p][k].origin = queue[p][1].origin /\ queue[p][k].last = 1 => k = 1
      BY <2>3, <3>1
    <3> QED
      BY <2>3, <3>2
  <2>5. \A j \in 1..Len(queue'[p]) : j + 1 \in 1..Len(queue[p]) /\ j + 1 # 1
    BY <2>2
  <2> QED
    BY <2>1, <2>2, <2>4, <2>5
<1> QED
  BY <1>1, <1>2, NewOutcome

\* A last response stays the only one, and its command stays answered.
LEMMA LastStep ==
  ASSUME TypeOK, PendingInv, QueueInv, LastInv, [Next]_vars
  PROVE  LastInv'
<1> SUFFICES ASSUME NEW q \in Process, NEW j \in 1..Len(queue'[q]),
                    queue'[q][j].origin # None, queue'[q][j].last = 1
             PROVE  /\ \A c \in pending' : <<c.process, c.index>> # queue'[q][j].origin
                    /\ \A k \in 1..Len(queue'[q]) :
                         queue'[q][k].origin = queue'[q][j].origin /\ queue'[q][k].last = 1 => k = j
  BY DEF LastInv
<1>0. Len(queue[q]) \in Nat /\ pending \subseteq Pending
  BY DEF TypeOK
<1>1. ASSUME NEW c \in pending', <<c.process, c.index>> = queue'[q][j].origin PROVE FALSE
  <2>1. CASE \E k \in 1..Len(queue[q]) : queue'[q][j] = queue[q][k]
    <3>1. PICK k \in 1..Len(queue[q]) : queue'[q][j] = queue[q][k]
      BY <2>1
    <3>2. IsGiven(<<c.process, c.index>>) /\ \A d \in pending : <<d.process, d.index>> # <<c.process, c.index>>
      BY <1>1, <3>1 DEF QueueInv, EventInv, LastInv
    <3>3. c.process \in Process => Given(c.process) \in Nat
      BY DEF TypeOK, Given, Current
    <3> QED
      BY <3>2, <3>3, PendingIds DEF IsGiven
  <2>2. ASSUME NEW d \in pending, NEW kind \in AnswerKind, NEW code \in {0, 1}, NEW last \in {0, 1},
               NEW large \in BOOLEAN,
               queue'[q][j] = Answer(d, kind, code, last, large), last = 1 => pending' = pending \ {d}
        PROVE  FALSE
    <3>1. queue'[q][j].origin = <<d.process, d.index>> /\ last = 1
      BY <2>2, AnswerFacts
    <3> QED
      BY <1>1, <2>2, <3>1 DEF PendingInv
  <2> QED
    BY <2>1, <2>2, QueueContents
<1>2. ASSUME NEW k \in 1..Len(queue'[q]), queue'[q][k].origin = queue'[q][j].origin, queue'[q][k].last = 1
      PROVE  k = j
  <2>1. CASE queue' = queue
    BY <1>2, <2>1 DEF LastInv
  <2>2. ASSUME NEW p \in Process, TakeEvent(p) PROVE k = j
    <3>1. CASE q = p
      <4>1. /\ Len(queue'[q]) = Len(queue[q]) - 1
            /\ queue'[q][j] = queue[q][j + 1] /\ queue'[q][k] = queue[q][k + 1]
        BY <2>2, <3>1, TakeFacts
      <4>2. j + 1 \in 1..Len(queue[q]) /\ k + 1 \in 1..Len(queue[q])
        BY <4>1, <1>0
      <4>3. k + 1 = j + 1
        BY <1>2, <4>1, <4>2 DEF LastInv
      <4> QED
        BY <4>3
    <3>2. CASE q # p
      BY <1>2, <2>2, <3>2, TakeFacts DEF LastInv
    <3> QED
      BY <3>1, <3>2
  <2>3. ASSUME NEW p \in Process, queue' = [queue EXCEPT ![p] = <<>>] PROVE k = j
    <3>1. q # p
      BY <2>3 DEF TypeOK
    <3> QED
      BY <1>2, <2>3, <3>1 DEF LastInv, TypeOK
  <2>4. ASSUME NEW e \in Event, Broadcast(e),
               e.origin # None /\ e.last = 1 => \E d \in pending : e.origin = <<d.process, d.index>>
        PROVE  k = j
    <3>1. CASE j \in 1..Len(queue[q]) /\ k \in 1..Len(queue[q])
      <4>1. queue'[q][j] = queue[q][j] /\ queue'[q][k] = queue[q][k]
        BY <2>4, <3>1, BroadcastFacts
      <4> QED
        BY <1>2, <3>1, <4>1 DEF LastInv
    <3>2. ASSUME NEW m \in 1..Len(queue[q]), queue[q][m].origin = e.origin, queue[q][m].last = 1,
                 e.last = 1, e.origin # None
          PROVE  FALSE
      BY <2>4, <3>2 DEF LastInv
    <3>3. CASE j \notin 1..Len(queue[q]) /\ k \in 1..Len(queue[q])
      <4>1. queue'[q][j] = e /\ queue'[q][k] = queue[q][k]
        BY <1>0, <2>4, <3>3, BroadcastFacts
      <4> QED
        BY <1>2, <3>2, <3>3, <4>1
    <3>4. CASE j \in 1..Len(queue[q]) /\ k \notin 1..Len(queue[q])
      <4>1. queue'[q][j] = queue[q][j] /\ queue'[q][k] = e
        BY <1>0, <2>4, <3>4, BroadcastFacts
      <4> QED
        BY <1>2, <3>2, <3>4, <4>1
    <3>5. CASE j \notin 1..Len(queue[q]) /\ k \notin 1..Len(queue[q])
      BY <1>0, <2>4, <3>5, BroadcastFacts
    <3> QED
      BY <3>1, <3>3, <3>4, <3>5
  <2>5. ASSUME NEW c \in pending, Complete(c) \/ Progress(c) PROVE k = j
    <3>1. PICK kind \in Kind, code \in {0, 1}, last \in {0, 1}, large \in BOOLEAN :
            Broadcast(Answer(c, kind, code, last, large))
      BY <2>5 DEF Complete, Progress, Kind
    <3>2. Answer(c, kind, code, last, large) \in Event
      BY AnswerType
    <3> QED
      BY <2>4, <3>1, <3>2, AnswerFacts
  <2>6. CASE OtherApplication
    <3>1. PICK e \in Event : Broadcast(e) /\ e.origin = None
      <4>1. PICK i \in Image, kind \in {"short", "alien"} \cup ({"untyped"} \cap Faults) :
              Broadcast([object |-> i, kind |-> kind, correlator |-> 0, command |-> "other",
                         code |-> 0, last |-> 1, large |-> FALSE, origin |-> None])
        BY <2>6 DEF OtherApplication
      <4>2. [object |-> i, kind |-> kind, correlator |-> 0, command |-> "other",
             code |-> 0, last |-> 1, large |-> FALSE, origin |-> None] \in Event
        BY DEF Event, Kind
      <4> QED
        BY <4>1, <4>2
    <3> QED
      BY <2>4, <3>1
  <2> QED
    BY <2>1, <2>2, <2>3, <2>5, <2>6, QueueSteps
<1> QED
  BY <1>1, <1>2

\* A dialog goes on only after an acknowledged command.
LEMMA DialogStep ==
  ASSUME TypeOK, DialogInv, [Next]_vars
  PROVE  DialogInv'
<1> SUFFICES ASSUME NEW p \in Dialog, pc'[p] \in {"idle", "waiting"}, NEW i \in 1..Len(outcome'[p])
             PROVE  outcome'[p][i] = "acknowledged"
  BY DEF DialogInv
<1>0. p \in Process
  BY PlanAssumption
<1>1. CASE UNCHANGED <<outcome, pc>>
  BY <1>1 DEF DialogInv
<1>2. ASSUME NEW q \in Process, SendCommand(q) PROVE outcome'[p][i] = "acknowledged"
  <2>1. outcome' = outcome /\ pc[p] \in {"idle", "waiting"}
    BY <1>0, <1>2 DEF SendCommand, TypeOK
  <2> QED
    BY <2>1 DEF DialogInv
<1>3. ASSUME NEW q \in Process, Terminate(q) PROVE outcome'[p][i] = "acknowledged"
  <2>1. outcome' = outcome /\ pc[p] \in {"idle", "waiting"}
    BY <1>0, <1>3 DEF Terminate, TypeOK
  <2> QED
    BY <2>1 DEF DialogInv
<1>4. ASSUME NEW q \in Process, NEW o \in Outcome, Return(q, o), pc[q] \in {"idle", "waiting"}
      PROVE  outcome'[p][i] = "acknowledged"
  <2>1. CASE p = q
    <3>1. /\ Len(outcome'[p]) = Current(p) /\ Current(p) \in Nat \ {0}
          /\ outcome'[p][Current(p)] = o
          /\ \A k \in 1..Len(outcome[p]) : outcome'[p][k] = outcome[p][k]
      BY <1>4, <2>1, ReturnGiven
    <3>2. Current(p) = Len(outcome[p]) + 1 /\ Len(outcome[p]) \in Nat
      BY <1>0 DEF Current, TypeOK
    <3>3. o = "acknowledged"
      BY <1>0, <1>4, <2>1 DEF Return, TypeOK
    <3>4. i = Current(p) \/ i \in 1..Len(outcome[p])
      BY <3>1, <3>2
    <3>5. i \in 1..Len(outcome[p]) => outcome[p][i] = "acknowledged"
      BY <1>4, <2>1 DEF DialogInv
    <3> QED
      BY <3>1, <3>3, <3>4, <3>5
  <2>2. CASE p # q
    <3>1. outcome'[p] = outcome[p] /\ pc'[p] = pc[p]
      BY <1>0, <1>4, <2>2, ReturnType
    <3> QED
      BY <3>1 DEF DialogInv
  <2> QED
    BY <2>1, <2>2
<1>5. ASSUME NEW q \in Process, Decide(q)
      PROVE  (\E o \in Outcome : Return(q, o)) /\ pc[q] \in {"idle", "waiting"}
  BY <1>5 DEF Decide, TakeEvent, Outcome
<1> QED
  BY <1>1, <1>2, <1>3, <1>4, <1>5, OutcomeSteps

\* An acknowledged command is one the SE has carried out.
LEMMA AckStep ==
  ASSUME CorrelatorsDistinct, ImagesDistinct, IInv, [Next]_vars
  PROVE  AckIsOwn'
<1>1. TypeOK /\ AckIsOwn
  BY DEF IInv
<1>2. executed \subseteq executed'
  BY <1>1, GivenKept
<1> QED
  BY <1>1, <1>2, NewOutcome DEF AckIsOwn

\* IInv is inductive for every plan, whatever fails in the environment.
LEMMA Inductive ==
  ASSUME CorrelatorsDistinct, ImagesDistinct
  PROVE  /\ Init => IInv
         /\ IInv /\ [Next]_vars => IInv'
<1>1. ASSUME Init PROVE IInv
  <2>1. \A p \in Process : outcome[p] = <<>> /\ queue[p] = <<>> /\ pc[p] = "idle"
    BY <1>1 DEF Init
  <2>2. TypeOK
    BY <1>1, <2>1, PlanAssumption DEF Init, TypeOK, ProblemClass
  <2>3. PendingInv /\ WaitInv
    BY <1>1 DEF Init, PendingInv, WaitInv
  <2>4. QueueInv /\ LastInv /\ AckedInv /\ AckIsOwn
    BY <2>1 DEF QueueInv, LastInv, AckedInv, AckIsOwn
  <2>5. DialogInv
    BY <2>1, PlanAssumption DEF DialogInv
  <2> QED
    BY <2>2, <2>3, <2>4, <2>5 DEF IInv
<1>2. ASSUME IInv, [Next]_vars PROVE IInv'
  <2>1. TypeOK /\ PendingInv /\ QueueInv /\ LastInv /\ DialogInv /\ WaitInv
    BY <1>2 DEF IInv
  <2>2. TypeOK'
    BY <1>2, <2>1, TypeStep
  <2>3. PendingInv'
    BY <1>2, <2>1, PendingStep
  <2>4. QueueInv' /\ LastInv'
    BY <1>2, <2>1, QueueStep, LastStep
  <2>5. DialogInv' /\ WaitInv'
    BY <1>2, <2>1, DialogStep, WaitStep
  <2>6. AckedInv' /\ AckIsOwn'
    BY <1>2, AckedStep, AckStep
  <2> QED
    BY <2>2, <2>3, <2>4, <2>5, <2>6 DEF IInv
<1> QED
  BY <1>1, <1>2

\* The inductive invariant holds for every number of processes, images, commands and ticks of the
\* clock and with every fault of the environment (command_handling, parse_command_response).
THEOREM InductiveInvariant ==
  ASSUME CorrelatorsDistinct, ImagesDistinct
  PROVE  Spec => []IInv
<1>1. Init => IInv
  BY Inductive
<1>2. IInv /\ [Next]_vars => IInv'
  BY Inductive
<1> QED
  BY <1>1, <1>2, PTL DEF Spec

\* Every variable keeps its kind in every behaviour, and the SE works on commands that were
\* given, each once: this needs no condition on correlators and plans.
THEOREM TypeCorrect == Spec => []TypeOK
<1> DEFINE TInv == TypeOK /\ PendingInv
<1>1. Init => TInv
  <2> SUFFICES ASSUME Init PROVE TypeOK /\ PendingInv
    OBVIOUS
  <2>1. \A p \in Process : outcome[p] = <<>> /\ queue[p] = <<>> /\ pc[p] = "idle"
    BY DEF Init
  <2>2. TypeOK
    BY <2>1, PlanAssumption DEF Init, TypeOK, ProblemClass
  <2>3. PendingInv
    BY DEF Init, PendingInv
  <2> QED
    BY <2>2, <2>3
<1>2. TInv /\ [Next]_vars => TInv'
  BY TypeStep, PendingStep
<1>3. TInv => TypeOK
  OBVIOUS
<1> HIDE DEF TInv
<1> QED
  BY <1>1, <1>2, <1>3, PTL DEF Spec

\* "acknowledged." is never printed for a command the SE did not carry out, with any
\* number of processes, images and commands and with every fault of the environment,
\* if correlators of different processes differ and no image is named twice.
THEOREM Acknowledgement ==
  ASSUME CorrelatorsDistinct, ImagesDistinct
  PROVE  Spec => []AckIsOwn
<1>1. Init => IInv
  BY Inductive
<1>2. IInv /\ [Next]_vars => IInv'
  BY Inductive
<1>3. IInv => AckIsOwn
  BY DEF IInv
<1> QED
  BY <1>1, <1>2, <1>3, PTL DEF Spec

\* A step that leaves the outcomes, the control states that matter and the executions
\* alone is a stutter of the promise.
LEMMA Stutter ==
  ASSUME TypeOK, UNCHANGED <<outcome, executed>>, \A p \in Process : Given(p)' = Given(p)
  PROVE  UNCHANGED Promise!promise
  BY DEF Promise!promise

\* A command that ends is reported; one that is acknowledged was carried out.
LEMMA ReportStep ==
  ASSUME TypeOK, NEW p \in Process, NEW o \in Outcome, pc[p] = "waiting", Return(p, o),
         UNCHANGED executed, o = "acknowledged" => <<p, Current(p)>> \in executed
  PROVE  Promise!Next
<1>1. /\ Len(outcome'[p]) = Current(p) /\ pc'[p] \in {"idle", "done"}
      /\ \A q \in Process \ {p} : pc'[q] = pc[q] /\ outcome'[q] = outcome[q]
  BY ReturnGiven, ReturnType
<1>2. Given(p) = Current(p) /\ Given(p)' = Current(p) /\ Len(outcome[p]) < Current(p)
  BY <1>1 DEF Given, Current, TypeOK
<1>3. \A q \in Process : Given(q)' = Given(q)
  BY <1>1, <1>2 DEF Given, Current
<1>4. outcome' = [outcome EXCEPT ![p] = Append(@, o)]
  BY DEF Return
<1>5. Promise!Report(p, o)
  BY <1>2, <1>3, <1>4 DEF Promise!Report
<1> QED
  BY <1>5 DEF Promise!Next

\* Every step of the detailed specification is a step of the promise, or a stutter.
LEMMA StepRefines ==
  ASSUME CorrelatorsDistinct, ImagesDistinct, IInv, [Next]_vars
  PROVE  [Promise!Next]_(Promise!promise)
<1>0. TypeOK /\ PendingInv
  BY DEF IInv
<1>1. ASSUME NEW p \in Process, SendCommand(p) PROVE Promise!Next
  <2>1. /\ pc[p] = "idle" /\ pc' = [pc EXCEPT ![p] = "waiting"]
        /\ UNCHANGED <<outcome, executed>>
    BY <1>1 DEF SendCommand
  <2>2. /\ Given(p) = Len(outcome[p]) /\ Given(p)' = Given(p) + 1
        /\ \A q \in Process \ {p} : Given(q)' = Given(q)
    BY <1>0, <2>1 DEF Given, Current, TypeOK
  <2>3. Promise!Issue(p)
    BY <2>1, <2>2 DEF Promise!Issue
  <2> QED
    BY <2>3 DEF Promise!Next
<1>2. ASSUME NEW p \in Process, SendFails(p) PROVE Promise!Next
  <2>1. pc[p] = "idle" /\ Return(p, "fatal") /\ "fatal" \in Outcome /\ UNCHANGED executed
    BY <1>2 DEF SendFails, Outcome
  <2>2. /\ Len(outcome'[p]) = Current(p) /\ pc'[p] \in {"idle", "done"}
        /\ \A q \in Process \ {p} : pc'[q] = pc[q] /\ outcome'[q] = outcome[q]
    BY <1>0, <2>1, ReturnGiven, ReturnType
  <2>3. /\ Given(p) = Len(outcome[p]) /\ Given(p)' = Given(p) + 1
        /\ \A q \in Process \ {p} : Given(q)' = Given(q)
    BY <2>1, <2>2 DEF Given, Current
  <2>4. outcome' = [outcome EXCEPT ![p] = Append(@, "fatal")]
    BY <2>1 DEF Return
  <2>5. Promise!Abandon(p, "fatal")
    BY <2>1, <2>3, <2>4 DEF Promise!Abandon
  <2> QED
    BY <2>1, <2>5 DEF Promise!Next
<1>3. ASSUME NEW p \in Process, Decide(p) PROVE Promise!Next
  <2>1. PICK o \in Outcome :
          /\ Return(p, o)
          /\ o = "acknowledged" => Accepted(Head(queue[p]), correlator[p], Wanted(p))
    BY <1>3 DEF Decide, Outcome
  <2>2. /\ TakeEvent(p) /\ Head(queue[p]).object = Target(p) /\ pc[p] = "waiting"
        /\ UNCHANGED executed
    BY <1>3 DEF Decide, TakeEvent, seVars
  <2>3. o = "acknowledged" => <<p, Current(p)>> \in executed
    BY <2>1, <2>2, AckedEvent
  <2> QED
    BY <1>0, <2>1, <2>2, <2>3, ReportStep
<1>4. ASSUME NEW p \in Process, LargeEvent(p) PROVE Promise!Next \/ UNCHANGED Promise!promise
  <2>1. pc[p] = "waiting" /\ UNCHANGED executed
    BY <1>4 DEF LargeEvent, TakeEvent, seVars
  <2>2. CASE Return(p, "overflow")
    BY <1>0, <2>1, <2>2, ReportStep DEF Outcome
  <2>3. CASE UNCHANGED <<outcome, problem_class, pc>>
    BY <1>0, <2>1, <2>3, Stutter DEF Given, Current
  <2> QED
    BY <1>4, <2>2, <2>3 DEF LargeEvent
<1>5. ASSUME NEW p \in Process, WaitFails(p) PROVE Promise!Next
  <2>1. pc[p] = "waiting" /\ Return(p, "fatal") /\ UNCHANGED executed
    BY <1>5 DEF WaitFails, seVars
  <2> QED
    BY <1>0, <2>1, ReportStep DEF Outcome
<1>6. ASSUME NEW p \in Process, Terminate(p) PROVE UNCHANGED Promise!promise
  <2>1. pc[p] = "done" /\ pc' = [pc EXCEPT ![p] = "closed"] /\ UNCHANGED <<outcome, executed>>
    BY <1>6 DEF Terminate, seVars
  <2>2. \A q \in Process : Given(q)' = Given(q)
    BY <1>0, <2>1 DEF Given, Current, TypeOK
  <2> QED
    BY <1>0, <2>1, <2>2, Stutter
<1>7. ASSUME UNCHANGED <<outcome, pc, executed>> PROVE UNCHANGED Promise!promise
  BY <1>0, <1>7, Stutter DEF Given, Current
<1>8. ASSUME NEW p \in Process, SkipEvent(p) \/ WaitTimeout(p)
      PROVE  UNCHANGED <<outcome, pc, executed>>
  BY <1>8 DEF SkipEvent, WaitTimeout, vars, processVars, seVars
<1>9. ASSUME NEW c \in pending, Complete(c) PROVE Promise!Next \/ UNCHANGED Promise!promise
  <2>1. UNCHANGED <<outcome, pc>> /\ (executed' = executed \cup {<<c.process, c.index>>} \/ executed' = executed)
    BY <1>9 DEF Complete, processVars
  <2>2. c.process \in Process /\ c.index \in 1..Given(c.process)
    BY <1>0 DEF PendingInv, IsGiven
  <2>3. \A q \in Process : Given(q)' = Given(q)
    BY <2>1 DEF Given, Current
  <2>4. CASE executed' = executed \cup {<<c.process, c.index>>}
    <3>1. Promise!Execute(c.process)
      BY <2>1, <2>2, <2>3, <2>4 DEF Promise!Execute
    <3> QED
      BY <2>2, <3>1 DEF Promise!Next
  <2>5. CASE executed' = executed
    BY <1>0, <2>1, <2>3, <2>5, Stutter
  <2> QED
    BY <2>1, <2>4, <2>5
<1>10. ASSUME (\E c \in pending : Progress(c)) \/ OtherApplication \/ Clock \/ UNCHANGED vars
       PROVE  UNCHANGED <<outcome, pc, executed>>
  BY <1>10 DEF Progress, OtherApplication, Clock, vars, processVars, seVars
<1> QED
  BY <1>1, <1>2, <1>3, <1>4, <1>5, <1>6, <1>7, <1>8, <1>9, <1>10 DEF Next, ProcessStep, SupportElement

\* HwmcaCommand implements CorrelatedCommand.
THEOREM Refinement ==
  ASSUME CorrelatorsDistinct, ImagesDistinct
  PROVE  Spec => ImplementsPromise
<1>1. Init => IInv
  BY Inductive
<1>2. IInv /\ [Next]_vars => IInv'
  BY Inductive
<1>3. Init => Promise!Init
  BY DEF Init, Promise!Init, Given
<1>4. IInv /\ [Next]_vars => [Promise!Next]_(Promise!promise)
  BY StepRefines
<1> QED
  BY <1>1, <1>2, <1>3, <1>4, PTL DEF Spec, ImplementsPromise, Promise!Spec

(***************************************************************************)
(* Whatever ends a wait with a verdict is the response to the command      *)
(* under way.  AckIsOwn needed the last, successful response only; here    *)
(* refusals and responses that are not the last one count too, so that no  *)
(* trace of an acknowledged command may be left in the queue.              *)
(***************************************************************************)

\* The last response to a command is behind all others to it.
OrderInv ==
  \A p \in Process : \A j, k \in 1..Len(queue[p]) :
    queue[p][j].origin # None /\ queue[p][j].last = 1 /\ queue[p][k].origin = queue[p][j].origin => k <= j

\* Every response to an acknowledged command is behind its process.
GoneInv ==
  \A p \in Process : \A i \in 1..Len(outcome[p]) : outcome[p][i] = "acknowledged" =>
    \A j \in 1..Len(queue[p]) : queue[p][j].origin # <<p, i>>

\* No event has an unexpected type where snipl looks for the correlator.
NoUntyped == \A p \in Process : \A j \in 1..Len(queue[p]) : queue[p][j].kind # "untyped"

DecisionInv == IInv /\ OrderInv /\ GoneInv /\ NoUntyped

\* A broadcast keeps the order of responses: what answers a pending command comes last.
LEMMA BroadcastOrder ==
  ASSUME TypeOK, LastInv, OrderInv, NEW e \in Event, Broadcast(e),
         e.origin # None => \E d \in pending : e.origin = <<d.process, d.index>>
  PROVE  OrderInv'
<1> SUFFICES ASSUME NEW q \in Process, NEW j \in 1..Len(queue'[q]), NEW k \in 1..Len(queue'[q]),
                    queue'[q][j].origin # None, queue'[q][j].last = 1,
                    queue'[q][k].origin = queue'[q][j].origin
             PROVE  k <= j
  BY DEF OrderInv
<1>0. Len(queue[q]) \in Nat
  BY DEF TypeOK
<1>1. CASE queue'[q] = queue[q]
  BY <1>1 DEF OrderInv
<1>2. CASE /\ Len(queue'[q]) = Len(queue[q]) + 1
           /\ \A m \in 1..Len(queue[q]) : queue'[q][m] = queue[q][m]
           /\ queue'[q][Len(queue[q]) + 1] = e
  <2>1. CASE j \in 1..Len(queue[q]) /\ k \in 1..Len(queue[q])
    <3>1. queue'[q][j] = queue[q][j] /\ queue'[q][k] = queue[q][k]
      BY <1>2, <2>1
    <3> QED
      BY <2>1, <3>1 DEF OrderInv
  <2>2. CASE j \in 1..Len(queue[q]) /\ k \notin 1..Len(queue[q])
    <3>1. queue'[q][j] = queue[q][j] /\ queue'[q][k] = e
      BY <1>0, <1>2, <2>2
    <3>2. PICK d \in pending : e.origin = <<d.process, d.index>>
      BY <3>1
    <3> QED
      BY <2>2, <3>1, <3>2 DEF LastInv
  <2>3. CASE j \notin 1..Len(queue[q])
    BY <1>0, <1>2, <2>3
  <2> QED
    BY <2>1, <2>2, <2>3
<1> QED
  BY <1>1, <1>2, BroadcastFacts

\* The order of responses is kept by every step.
LEMMA OrderStep ==
  ASSUME TypeOK, PendingInv, LastInv, OrderInv, [Next]_vars
  PROVE  OrderInv'
<1>1. CASE queue' = queue
  BY <1>1 DEF OrderInv
<1>2. ASSUME NEW p \in Process, TakeEvent(p) PROVE OrderInv'
  <2> SUFFICES ASSUME NEW q \in Process, NEW j \in 1..Len(queue'[q]), NEW k \in 1..Len(queue'[q]),
                      queue'[q][j].origin # None, queue'[q][j].last = 1,
                      queue'[q][k].origin = queue'[q][j].origin
               PROVE  k <= j
    BY DEF OrderInv
  <2>1. CASE q = p
    <3>1. /\ Len(queue[q]) \in Nat \ {0} /\ Len(queue'[q]) = Len(queue[q]) - 1
          /\ queue'[q][j] = queue[q][j + 1] /\ queue'[q][k] = queue[q][k + 1]
      BY <1>2, <2>1, TakeFacts
    <3>2. j + 1 \in 1..Len(queue[q]) /\ k + 1 \in 1..Len(queue[q])
      BY <3>1
    <3>3. k + 1 <= j + 1
      BY <3>1, <3>2 DEF OrderInv
    <3> QED
      BY <3>3
  <2>2. CASE q # p
    BY <1>2, <2>2, TakeFacts DEF OrderInv
  <2> QED
    BY <2>1, <2>2
<1>3. ASSUME NEW p \in Process, queue' = [queue EXCEPT ![p] = <<>>] PROVE OrderInv'
  <2>1. queue'[p] = <<>> /\ \A q \in Process \ {p} : queue'[q] = queue[q]
    BY <1>3 DEF TypeOK
  <2>2. Len(queue'[p]) = 0
    BY <2>1
  <2> QED
    BY <2>1, <2>2 DEF OrderInv
<1>4. ASSUME NEW c \in pending, Complete(c) \/ Progress(c) PROVE OrderInv'
  <2>1. PICK kind \in Kind, code \in {0, 1}, last \in {0, 1}, large \in BOOLEAN :
          Broadcast(Answer(c, kind, code, last, large))
    BY <1>4 DEF Complete, Progress, Kind
  <2>2. Answer(c, kind, code, last, large) \in Event
    BY AnswerType
  <2> QED
    BY <2>1, <2>2, AnswerFacts, BroadcastOrder
<1>5. CASE OtherApplication
  <2>1. PICK i \in Image, kind \in {"short", "alien"} \cup ({"untyped"} \cap Faults) :
          Broadcast([object |-> i, kind |-> kind, correlator |-> 0, command |-> "other",
                     code |-> 0, last |-> 1, large |-> FALSE, origin |-> None])
    BY <1>5 DEF OtherApplication
  <2> DEFINE e == [object |-> i, kind |-> kind, correlator |-> 0, command |-> "other",
                   code |-> 0, last |-> 1, large |-> FALSE, origin |-> None]
  <2>2. e \in Event /\ e.origin = None
    BY DEF Event, Kind
  <2> QED
    BY <2>1, <2>2, BroadcastOrder
<1> QED
  BY <1>1, <1>2, <1>3, <1>4, <1>5, QueueSteps

\* An acknowledged command leaves no response behind.
LEMMA GoneStep ==
  ASSUME CorrelatorsDistinct, ImagesDistinct, IInv, OrderInv, GoneInv, [Next]_vars
  PROVE  GoneInv'
<1>0. TypeOK /\ PendingInv /\ AckedInv
  BY DEF IInv
<1> SUFFICES ASSUME NEW p \in Process, NEW i \in 1..Len(outcome'[p]), outcome'[p][i] = "acknowledged",
                    NEW j \in 1..Len(queue'[p]), queue'[p][j].origin = <<p, i>>
             PROVE  FALSE
  BY DEF GoneInv
<1>1. <<p, i>> # None
  BY DEF None
<1>2. CASE i \in 1..Len(outcome[p]) /\ outcome[p][i] = "acknowledged"
  <2>1. CASE \E k \in 1..Len(queue[p]) : queue'[p][j] = queue[p][k]
    BY <1>2, <2>1 DEF GoneInv
  <2>2. ASSUME NEW c \in pending, NEW kind \in AnswerKind, NEW code \in {0, 1}, NEW last \in {0, 1},
               NEW large \in BOOLEAN, queue'[p][j] = Answer(c, kind, code, last, large)
        PROVE  FALSE
    BY <1>0, <1>2, <2>2, AnswerFacts DEF AckedInv
  <2> QED
    BY <1>0, <1>1, <2>1, <2>2, QueueContents
<1>3. CASE /\ Decide(p)
           /\ Head(queue[p]).origin = <<p, i>> /\ Head(queue[p]).last = 1
  <2>1. TakeEvent(p)
    BY <1>3 DEF Decide
  <2>2. /\ Len(queue[p]) \in Nat \ {0} /\ Len(queue'[p]) = Len(queue[p]) - 1
        /\ queue'[p][j] = queue[p][j + 1] /\ Head(queue[p]) = queue[p][1]
    BY <1>0, <2>1, TakeFacts
  <2>3. 1 \in 1..Len(queue[p]) /\ j + 1 \in 1..Len(queue[p])
    BY <2>2
  <2>4. j + 1 <= 1
    BY <1>1, <1>3, <2>2, <2>3 DEF OrderInv
  <2> QED
    BY <2>4
<1> QED
  BY <1>2, <1>3, NewOutcome

\* Without events of an unexpected type none gets into a queue.
LEMMA UntypedStep ==
  ASSUME "untyped" \notin Faults, TypeOK, PendingInv, NoUntyped, [Next]_vars
  PROVE  NoUntyped'
<1> SUFFICES ASSUME NEW p \in Process, NEW j \in 1..Len(queue'[p])
             PROVE  queue'[p][j].kind # "untyped"
  BY DEF NoUntyped
<1>1. CASE \E k \in 1..Len(queue[p]) : queue'[p][j] = queue[p][k]
  BY <1>1 DEF NoUntyped
<1>2. CASE \E c \in pending, kind \in AnswerKind, code \in {0, 1}, last \in {0, 1}, large \in BOOLEAN :
             queue'[p][j] = Answer(c, kind, code, last, large)
  <2>1. PICK c \in pending, kind \in AnswerKind, code \in {0, 1}, last \in {0, 1}, large \in BOOLEAN :
          queue'[p][j] = Answer(c, kind, code, last, large)
    BY <1>2
  <2> QED
    BY <2>1, AnswerFacts DEF AnswerKind
<1>3. CASE queue'[p][j].kind \in {"short", "alien"} \cup ({"untyped"} \cap Faults)
  BY <1>3
<1>4. \/ \E k \in 1..Len(queue[p]) : queue'[p][j] = queue[p][k]
      \/ \E c \in pending, kind \in AnswerKind, code \in {0, 1}, last \in {0, 1}, large \in BOOLEAN :
           /\ queue'[p][j] = Answer(c, kind, code, last, large)
           /\ last = 1 => pending' = pending \ {c}
           /\ last = 1 /\ code = 0 => <<c.process, c.index>> \in executed'
      \/ /\ queue'[p][j].origin = None
         /\ queue'[p][j].kind \in {"short", "alien"} \cup ({"untyped"} \cap Faults)
  BY QueueContents
<1> QED
  BY <1>1, <1>2, <1>3, <1>4

\* A process that decides at all has a response to its own command at the head of its queue.
LEMMA OwnEvent ==
  ASSUME CorrelatorsDistinct, ImagesDistinct, DecisionInv, NEW p \in Process, TakeEvent(p),
         Head(queue[p]).object = Target(p), ~Foreign(Head(queue[p]), correlator[p])
  PROVE  Head(queue[p]).origin = <<p, Current(p)>>
<1> DEFINE e == Head(queue[p])
<1>0. IInv /\ TypeOK
  BY DEF DecisionInv, IInv
<1>1. /\ e \in Event /\ EventInv(e) /\ e.kind # "untyped" /\ e = queue[p][1]
      /\ Len(queue[p]) \in Nat \ {0} /\ 1 \in 1..Len(queue[p])
  BY <1>0, TakeFacts DEF DecisionInv, IInv, QueueInv, NoUntyped
<1> HIDE DEF e
<1>2. e.kind \notin {"short", "alien", "untyped"} /\ e.correlator = correlator[p]
  BY <1>1 DEF Foreign, e
<1>3. e.origin # None /\ e.origin \in CommandId
  BY <1>1, <1>2 DEF EventInv, Event
<1>4. PICK q \in Process, i \in Nat \ {0} : e.origin = <<q, i>>
  BY <1>3 DEF CommandId
<1>5. /\ IsGiven(<<q, i>>) /\ e.object = Plan[q][i].image
      /\ Drawn(q, e.correlator)
  BY <1>1, <1>3, <1>4 DEF EventInv
<1>6. pc[p] = "waiting" /\ Drawn(p, correlator[p]) /\ Current(p) <= Len(Plan[p])
  BY <1>0 DEF TakeEvent, IInv, WaitInv, TypeOK
<1>7. q = p
  BY <1>2, <1>5, <1>6 DEF CorrelatorsDistinct, Drawn
<1>8. Current(p) \in Nat \ {0} /\ Given(p) = Current(p) /\ i \in 1..Current(p) /\ i \in 1..Len(Plan[p])
  BY <1>0, <1>5, <1>6, <1>7 DEF TypeOK, Given, Current, IsGiven
<1>9. Current(p) \in 1..Len(Plan[p])
  <2>1. Len(Plan[p]) \in Nat
    BY PlanAssumption
  <2> QED
    BY <2>1, <1>6, <1>8
<1>10. i = Current(p)
  <2>1. CASE p \in Dialog
    <3>1. i < Current(p) => outcome[p][i] = "acknowledged" /\ i \in 1..Len(outcome[p])
      BY <1>0, <2>1, <1>6, <1>8 DEF IInv, DialogInv, Current
    <3>2. i < Current(p) => e.origin # <<p, i>>
      BY <3>1, <1>1 DEF DecisionInv, GoneInv
    <3> QED
      BY <3>2, <1>4, <1>7, <1>8
  <2>2. CASE p \notin Dialog
    <3>1. Plan[p][i].image = Plan[p][Current(p)].image
      BY <1>5, <1>7 DEF Target, e
    <3> QED
      BY <2>2, <3>1, <1>8, <1>9 DEF ImagesDistinct
  <2> QED
    BY <2>1, <2>2
<1> QED
  BY <1>4, <1>7, <1>10 DEF e

\* What a step may decide, and on what.
Decided(p) ==
  (outcome'[p] # outcome[p] /\ outcome'[p][Current(p)] \in {"acknowledged", "refused"})
  => /\ queue[p] # <<>>
     /\ Head(queue[p]).origin = <<p, Current(p)>>

\* A step decides only on the response to the command under way.
LEMMA DecisionStep ==
  ASSUME CorrelatorsDistinct, ImagesDistinct, DecisionInv, [Next]_vars, NEW p \in Process
  PROVE  Decided(p)
<1>0. TypeOK
  BY DEF DecisionInv, IInv
<1>1. CASE UNCHANGED outcome
  BY <1>1 DEF Decided
<1>2. ASSUME NEW q \in Process, SendCommand(q) \/ Terminate(q) PROVE UNCHANGED outcome
  BY <1>2 DEF SendCommand, Terminate
<1>3. ASSUME NEW q \in Process, Decide(q) PROVE Decided(p)
  <2>1. /\ TakeEvent(q) /\ queue[q] # <<>>
        /\ Head(queue[q]).object = Target(q) /\ ~Foreign(Head(queue[q]), correlator[q])
    BY <1>3 DEF Decide, TakeEvent
  <2>2. \E o \in Outcome : Return(q, o)
    BY <1>3 DEF Decide, Outcome
  <2>3. CASE p = q
    BY <2>1, <2>3, OwnEvent DEF Decided
  <2>4. CASE p # q
    BY <1>0, <2>2, <2>4, ReturnType DEF Decided
  <2> QED
    BY <2>3, <2>4
<1>4. ASSUME NEW q \in Process, NEW o \in Outcome \ {"acknowledged", "refused"}, Return(q, o),
             pc[q] \in {"idle", "waiting"}
      PROVE  Decided(p)
  <2>1. CASE p = q
    <3>1. outcome'[p][Current(p)] = o
      BY <1>0, <1>4, <2>1, ReturnGiven
    <3> QED
      BY <1>4, <3>1 DEF Decided
  <2>2. CASE p # q
    BY <1>0, <1>4, <2>2, ReturnType DEF Decided
  <2> QED
    BY <2>1, <2>2
<1> QED
  BY <1>0, <1>1, <1>2, <1>3, <1>4, OutcomeSteps

\* Only the response to the command under way ends it as acknowledged or refused, with any
\* number of processes, images and commands, whatever is lost, delayed or sent in parts: if
\* correlators of different processes differ, no image is named twice, and no event has an
\* unexpected type where snipl looks for the correlator.
THEOREM OwnResponseDecides ==
  ASSUME CorrelatorsDistinct, ImagesDistinct, "untyped" \notin Faults
  PROVE  Spec => OwnEventDecides
<1>1. Init => DecisionInv
  <2> SUFFICES ASSUME Init PROVE DecisionInv
    OBVIOUS
  <2>1. \A p \in Process : outcome[p] = <<>> /\ queue[p] = <<>>
    BY DEF Init
  <2>2. OrderInv /\ GoneInv /\ NoUntyped
    BY <2>1 DEF OrderInv, GoneInv, NoUntyped
  <2> QED
    BY <2>2, Inductive DEF DecisionInv
<1>2. DecisionInv /\ [Next]_vars => DecisionInv'
  <2> SUFFICES ASSUME DecisionInv, [Next]_vars PROVE DecisionInv'
    OBVIOUS
  <2>1. IInv /\ OrderInv /\ GoneInv /\ NoUntyped /\ TypeOK /\ PendingInv /\ LastInv
    BY DEF DecisionInv, IInv
  <2>2. IInv'
    BY <2>1, Inductive
  <2>3. OrderInv' /\ GoneInv' /\ NoUntyped'
    BY <2>1, OrderStep, GoneStep, UntypedStep
  <2> QED
    BY <2>2, <2>3 DEF DecisionInv
<1>3. DecisionInv /\ [Next]_vars => \A p \in Process : Decided(p)
  BY DecisionStep
<1>4. (\A p \in Process : Decided(p)) =>
      [\A p \in Process :
         (outcome'[p] # outcome[p] /\ outcome'[p][Current(p)] \in {"acknowledged", "refused"})
         => /\ queue[p] # <<>>
            /\ Head(queue[p]).origin = <<p, Current(p)>>]_vars
  BY DEF Decided
<1> QED
  BY <1>1, <1>2, <1>3, <1>4, PTL DEF Spec, OwnEventDecides
=============================================================================
