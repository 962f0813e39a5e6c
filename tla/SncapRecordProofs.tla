------------------------- MODULE SncapRecordProofs -------------------------
(***************************************************************************)
(* Theorems about SncapRecord for every record, every set of jobs and any  *)
(* number of calls, with their proofs.                                     *)
(***************************************************************************)
EXTENDS SncapRecord, WellFoundedInduction, TLAPS

\* A set of natural numbers has a least element.
LEMMA LeastNatural ==
  ASSUME NEW S, S \subseteq Nat, S # {}
  PROVE  \E i \in S : \A k \in S : i <= k
<1> DEFINE R == OpToRel(<, Nat)
<1>1. IsWellFoundedOn(R, Nat)
  BY NatLessThanWellFounded
<1>2. PICK i \in S : \A k \in S : <<k, i>> \notin R
  <2> HIDE DEF R
  <2> QED
    BY <1>1, WFMin
<1>3. \A k \in S : ~(k < i)
  BY <1>2 DEF OpToRel
<1>4. \A k \in S : k \in Nat /\ i \in Nat
  OBVIOUS
<1> HIDE DEF R
<1> QED
  BY <1>3, <1>4

\* The first elements of a concatenation are those of its first part.
LEMMA ConcatFacts ==
  ASSUME NEW S, NEW s \in Seq(S), NEW t \in Seq(S), NEW i \in 1..Len(s)
  PROVE  i \in DOMAIN (s \o t) /\ (s \o t)[i] = s[i]
  OBVIOUS

\* There is a model with the least capacity.
LEMMA LeastFacts == Least \in Model /\ \A n \in Model : Msu[Least] <= Msu[n]
<1> DEFINE S == {Msu[m] : m \in Model}
<1>1. S \subseteq Nat /\ S # {}
  BY SncapRecordAssumption
<1>2. PICK i \in S : \A k \in S : i <= k
  <2> HIDE DEF S
  <2> QED
    BY <1>1, LeastNatural
<1>3. \E m \in Model : \A n \in Model : Msu[m] <= Msu[n]
  BY <1>2
<1> QED
  BY <1>3 DEF Least

(***************************************************************************)
(* The record and what is asked of it.                                     *)
(***************************************************************************)

Within(rec) == \A c \in Defined : rec.active[c] <= ProcMax[c]

\* A request that fits leaves the record a record, within its limits.
LEMMA AppliedType ==
  ASSUME NEW rec \in Record, Within(rec), NEW r \in Request, Fits(rec, r)
  PROVE  Applied(rec, r) \in Record /\ Within(Applied(rec, r))
<1> DEFINE sign == IF r.operation = "ACTIVATE" THEN 1 ELSE -1
           active == [c \in Defined |-> rec.active[c] + sign * r.cpu[c]]
           A == Applied(rec, r)
<1>1. /\ rec.real \in Nat /\ rec.test \in Nat /\ rec.status \in {"Installed", "Real", "Test"}
      /\ rec.model \in Model /\ \A c \in Defined : rec.active[c] \in Nat
  BY DEF Record
<1>2. /\ r.operation \in {"ACTIVATE", "DEACTIVATE"} /\ r.model \in Model \cup {NoModel}
      /\ r.test \in BOOLEAN /\ \A c \in Defined : r.cpu[c] \in Nat
  BY SncapRecordAssumption DEF Request
<1>3. ASSUME NEW c \in Defined
      PROVE  active[c] \in Nat /\ active[c] <= ProcMax[c]
  <2>1. /\ rec.active[c] \in Nat /\ r.cpu[c] \in Nat /\ ProcMax[c] \in Nat
        /\ rec.active[c] <= ProcMax[c]
    BY <1>1, <1>2, SncapRecordAssumption DEF Within
  <2>2. CASE r.operation = "ACTIVATE"
    BY <2>1, <2>2 DEF Fits
  <2>3. CASE r.operation # "ACTIVATE"
    BY <2>1, <2>3 DEF Fits
  <2> QED
    BY <2>2, <2>3
<1>4. active \in [Defined -> Nat]
  BY <1>3
<1>5. A.active = active /\ A.model \in Model
  BY <1>1, <1>2, LeastFacts DEF Applied
<1>6. A.status \in {"Installed", "Real", "Test"}
  BY <1>1 DEF Applied
<1>7. A.real \in Nat
  BY <1>1, <1>2 DEF Applied, Fits
<1>8. A.test \in Nat
  BY <1>1, <1>2 DEF Applied, Fits
<1>9. A = [status |-> A.status, real |-> A.real, test |-> A.test,
           active |-> A.active, model |-> A.model]
  BY DEF Applied
<1>10. A \in Record
  <2> HIDE DEF A, active
  <2> QED
    BY <1>4, <1>5, <1>6, <1>7, <1>8, <1>9 DEF Record
<1> QED
  BY <1>3, <1>5, <1>10 DEF Within

Codes == {"OK"} \cup Refused

LEMMA FourFacts ==
  ASSUME NEW S, NEW a \in S, NEW b \in S, NEW c \in S, NEW d \in S
  PROVE  <<a, b, c, d>> \in Seq(S) /\ Len(<<a, b, c, d>>) = 4
  OBVIOUS

\* The checks that come before those on the processors.
LEMMA RecordChecksFacts ==
  ASSUME NEW j, NEW t, Objection(j, t) = "OK", NEW i \in 1..4
  PROVE  RecordChecks(j, t)[i] = "OK"
<1> DEFINE bad == {k \in DOMAIN Checks(j, t) : Checks(j, t)[k] # "OK"}
           P == [k \in DOMAIN Cpu |-> CpuCheck(j, t, Cpu[k])]
           R == RecordChecks(j, t)
<1>1. R \in Seq(Codes) /\ Len(R) = 4
  <2> DEFINE a == IF j.operation = "DEACTIVATE" /\ ~IsActive(t) THEN "RECORD_IS_NOT_ACTIVE" ELSE "OK"
             b == IF j.operation = "ACTIVATE" /\ (IF j.test THEN t.test ELSE t.real) = 0
                  THEN "ACTIVATIONS_EXHAUSTED" ELSE "OK"
             c == IF j.model = "undefined" THEN "INVALID_SOFTWARE_MODEL" ELSE "OK"
             d == IF /\ j.operation = "ACTIVATE" /\ j.model \in Model /\ j.cpu = None
                     /\ Msu[j.model] <= Msu[t.model]
                  THEN "INVALID_SOFTWARE_MODEL" ELSE "OK"
  <2>1. a \in Codes /\ b \in Codes /\ c \in Codes /\ d \in Codes
    BY DEF Codes, Refused, Refusal
  <2>2. R = <<a, b, c, d>>
    BY DEF RecordChecks
  <2> HIDE DEF a, b, c, d, R
  <2> QED
    BY <2>1, <2>2, FourFacts
<1>2. P \in Seq(Codes)
  <2>1. \A k \in DOMAIN Cpu : CpuCheck(j, t, Cpu[k]) \in Codes
    BY DEF CpuCheck, Codes, Refused
  <2>2. DOMAIN Cpu = 1..Len(Cpu) /\ Len(Cpu) \in Nat
    BY SncapRecordAssumption
  <2> QED
    BY <2>1, <2>2
<1>3. Checks(j, t) = R \o P
  BY DEF Checks
<1> HIDE DEF P, R
<1>4. Checks(j, t) \in Seq(Codes)
  BY <1>1, <1>2, <1>3
<1>5. bad = {}
  <2>1. SUFFICES ASSUME bad # {} PROVE FALSE
    OBVIOUS
  <2>2. bad \subseteq Nat
    BY <1>4
  <2>3. \E k \in bad : \A l \in bad : k <= l
    <3> HIDE DEF bad
    <3> QED
      BY <2>1, <2>2, LeastNatural
  <2>4. (CHOOSE k \in bad : \A l \in bad : k <= l) \in bad
    BY <2>3
  <2> QED
    BY <2>1, <2>4 DEF Objection
<1>6. i \in DOMAIN Checks(j, t) /\ Checks(j, t)[i] = R[i]
  <2>1. i \in 1..Len(R)
    BY <1>1
  <2>2. i \in DOMAIN (R \o P) /\ (R \o P)[i] = R[i]
    BY <1>1, <1>2, <2>1, ConcatFacts
  <2> QED
    BY <1>3, <2>2
<1> QED
  BY <1>5, <1>6 DEF R

\* What a job without objections asks for: a model that exists, and more capacity than there is
\* if nothing but a model is named.
LEMMA ObjectionFacts ==
  ASSUME NEW j, NEW t, Objection(j, t) = "OK"
  PROVE  /\ j.model # "undefined"
         /\ j.operation = "ACTIVATE" /\ j.model \in Model /\ j.cpu = None
              => ~(Msu[j.model] <= Msu[t.model])
<1>1. RecordChecks(j, t)[3] = "OK" /\ RecordChecks(j, t)[4] = "OK"
  BY RecordChecksFacts
<1> QED
  BY <1>1 DEF RecordChecks

\* What job_generate_xml makes of such a job is a request.
LEMMA GeneratedType ==
  ASSUME NEW j \in Job, j.operation # "QUERY_RECORD", NEW t \in Record, Objection(j, t) = "OK"
  PROVE  Generated(j, t) \in Request /\ Whole(j) \in BOOLEAN
<1>1. /\ j.operation \in {"ACTIVATE", "DEACTIVATE"} /\ j.test \in BOOLEAN
      /\ j.model \in Model \cup {NoModel} /\ j.cpu \in [Type -> Nat]
  <2>1. j \in JobKind
    BY SncapRecordAssumption
  <2>2. j.model # "undefined"
    BY ObjectionFacts
  <2> QED
    BY <2>1, <2>2 DEF JobKind
<1>2. [c \in Type |-> IF c \in Defined THEN t.active[c] ELSE 0] \in [Type -> Nat]
  BY DEF Record
<1> QED
  BY <1>1, <1>2, LeastFacts DEF Generated, Request, Whole

(***************************************************************************)
(* Type correctness: a command is one that the checks have let pass.       *)
(***************************************************************************)

\* What main has verified when it has come this far.
JobInv ==
  /\ pc # "ended" => Verified(job) = "OK"
  /\ pc \in {"read", "check", "send", "wait"} => job.operation # "QUERY_RECORD"
  /\ pc = "send" => Objection(job, tcr) = "OK"
  /\ pc = "wait" => ~job.dryrun

\* A command under way has been generated for a job and the record as the call read it.
SeenInv ==
  \A c \in pending : \E j \in Job :
    /\ j.operation # "QUERY_RECORD" /\ Objection(j, c.seen) = "OK"
    /\ c.request = Generated(j, c.seen) /\ c.whole = Whole(j)

SafeType == TypeOK /\ JobInv /\ SeenInv

LEMMA InitType == Init => SafeType
<1> SUFFICES ASSUME Init PROVE SafeType
  OBVIOUS
<1>1. record \in Record /\ Within(record)
  <2>1. Least \in Model /\ Real \in Nat /\ Test \in Nat /\ ProcMax \in [Defined -> Nat]
    BY LeastFacts, SncapRecordAssumption
  <2>2. [c \in Defined |-> 0] \in [Defined -> Nat]
    OBVIOUS
  <2> QED
    BY <2>1, <2>2 DEF Init, Record, Within
<1>2. Len(Correlator) \in Nat /\ MaxNoise \in Nat /\ MaxOperator \in Nat
  BY SncapRecordAssumption
<1>3. queue \in Seq(Event) /\ pending \subseteq Command /\ executed \subseteq Calls
  BY DEF Init
<1>4. TypeOK
  BY <1>1, <1>2, <1>3 DEF Init, TypeOK, Within
<1> QED
  BY <1>4 DEF SafeType, Init, JobInv, SeenInv

\* The actions of sncap that neither begin a call nor reach the SE.
Local ==
  \/ Connect \/ CheckVersions \/ GetFails \/ ReadRecord \/ Check \/ SkipEvent \/ Decide
  \/ LargeEvent \/ WaitTimeout \/ WaitFails \/ Query \/ Disconnect

\* They leave alone what they do not own, and a session that is over stays so.
LEMMA LocalFacts ==
  ASSUME TypeOK, Local
  PROVE  /\ UNCHANGED <<call, job, se, noise, operator>>
         /\ pc # "ended"
         /\ pc' # "send" \/ (pc = "check" /\ rc' = Objection(job, tcr) /\ rc' = "OK")
         /\ tcr' = tcr \/ (pc = "read" /\ pc' = "check" /\ tcr' = record)
         /\ pc' \in {"connect", "version", "read", "check", "send", "wait", "query",
                     "disconnect", "ended"}
         /\ queue' \in {queue, <<>>} \/ (queue # <<>> /\ queue' = Tail(queue) /\ pc = "wait")
         /\ pc' = "wait" => pc = "wait"
         /\ pc' \in {"read", "check", "send"} =>
              pc \in {"read", "check"} \/ job.operation # "QUERY_RECORD"
<1>1. CASE Connect
  BY <1>1 DEF Connect, Go, Rest
<1>2. CASE CheckVersions
  BY <1>2 DEF CheckVersions, Rest
<1>3. CASE GetFails
  BY <1>3 DEF GetFails, Rest
<1>4. CASE ReadRecord
  BY <1>4 DEF ReadRecord, Go, Rest
<1>5. CASE Check
  BY <1>5 DEF Check, Rest
<1>6. CASE SkipEvent
  BY <1>6 DEF SkipEvent, TakeEvent, Rest
<1>7. CASE Decide
  BY <1>7 DEF Decide, TakeEvent, Rest
<1>8. CASE LargeEvent
  BY <1>8 DEF LargeEvent, TakeEvent, Rest
<1>9. CASE WaitTimeout
  BY <1>9 DEF WaitTimeout, Go, Rest
<1>10. CASE WaitFails
  BY <1>10 DEF WaitFails, Go, Rest
<1>11. CASE Query
  BY <1>11 DEF Query, Go, Rest
<1>12. CASE Disconnect
  BY <1>12 DEF Disconnect, Go, Rest
<1> QED
  BY <1>1, <1>2, <1>3, <1>4, <1>5, <1>6, <1>7, <1>8, <1>9, <1>10, <1>11, <1>12 DEF Local

LEMMA TailType ==
  ASSUME NEW S, NEW s \in Seq(S), s # <<>>
  PROVE  /\ Tail(s) \in Seq(S) /\ Head(s) = s[1] /\ 1 \in DOMAIN s
         /\ \A i \in DOMAIN Tail(s) : i + 1 \in DOMAIN s /\ Tail(s)[i] = s[i + 1]
  OBVIOUS

LEMMA LocalType ==
  ASSUME SafeType, Local
  PROVE  SafeType'
<1>1. queue' \in Seq(Event)
  <2>1. queue \in Seq(Event) /\ <<>> \in Seq(Event)
    BY DEF SafeType, TypeOK
  <2>2. queue' \in {queue, <<>>} \/ (queue # <<>> /\ queue' = Tail(queue))
    BY LocalFacts DEF SafeType
  <2>3. queue # <<>> => Tail(queue) \in Seq(Event)
    BY <2>1, TailType
  <2> QED
    BY <2>1, <2>2, <2>3
<1>2. tcr' \in Record
  BY LocalFacts DEF SafeType, TypeOK
<1>3. TypeOK'
  BY <1>1, <1>2, LocalFacts DEF SafeType, TypeOK, se
<1>4. JobInv'
  BY LocalFacts DEF SafeType, JobInv
<1>5. SeenInv'
  BY LocalFacts DEF SafeType, SeenInv, se
<1> QED
  BY <1>3, <1>4, <1>5 DEF SafeType

LEMMA StartType ==
  ASSUME SafeType, Start
  PROVE  SafeType'
<1>1. PICK j \in Job : /\ job' = j /\ rc' = Verified(j)
                       /\ pc' = IF rc' = "OK" THEN "connect" ELSE "ended"
  BY DEF Start
<1>2. /\ call' = call + 1 /\ call + 1 \in Calls /\ queue' = <<>>
      /\ UNCHANGED <<tcr, record, pending, executed, noise, operator>>
  BY DEF Start, se
<1>3. queue' \in Seq(Event) /\ call' \in 0..Len(Correlator)
  BY <1>2, SncapRecordAssumption DEF Calls
<1>4. TypeOK'
  BY <1>1, <1>2, <1>3 DEF SafeType, TypeOK
<1>5. JobInv'
  BY <1>1 DEF JobInv
<1>6. SeenInv'
  BY <1>2 DEF SafeType, SeenInv
<1> QED
  BY <1>4, <1>5, <1>6 DEF SafeType

LEMMA DeliverType ==
  ASSUME SafeType, pc = "send", Deliver, UNCHANGED <<job, tcr>>
  PROVE  pending' \subseteq Command /\ SeenInv'
<1> DEFINE c == [call |-> call, request |-> Generated(job, tcr), whole |-> Whole(job), seen |-> tcr]
<1>1. /\ job \in Job /\ tcr \in Record /\ call \in Calls /\ pending \subseteq Command
      /\ job.operation # "QUERY_RECORD" /\ Objection(job, tcr) = "OK"
  BY DEF SafeType, TypeOK, JobInv
<1>2. Generated(job, tcr) \in Request /\ Whole(job) \in BOOLEAN
  BY <1>1, GeneratedType
<1>3. c \in Command
  BY <1>1, <1>2 DEF Command
<1>4. pending' = pending \cup {c}
  BY DEF Deliver
<1>5. SeenInv'
  <2>1. \E j \in Job : /\ j.operation # "QUERY_RECORD" /\ Objection(j, c.seen) = "OK"
                       /\ c.request = Generated(j, c.seen) /\ c.whole = Whole(j)
    BY <1>1
  <2> HIDE DEF c
  <2> QED
    BY <1>4, <2>1 DEF SafeType, SeenInv
<1> QED
  BY <1>1, <1>3, <1>4, <1>5

LEMMA SendType ==
  ASSUME SafeType, Send \/ SendFails
  PROVE  SafeType'
<1>1. /\ UNCHANGED <<call, job, tcr, queue, record, executed, noise, operator>> /\ pc = "send"
      /\ pc' \in {"query", "wait", "disconnect"}  /\ (Deliver \/ UNCHANGED pending)
      /\ pc' = "wait" => ~job.dryrun
      /\ call \in Calls
  BY DEF Send, SendFails, Go, SafeType, TypeOK
<1>2. pending' \subseteq Command /\ SeenInv'
  <2>1. CASE UNCHANGED pending
    BY <2>1 DEF SafeType, TypeOK, SeenInv
  <2>2. CASE Deliver
    BY <1>1, <2>2, DeliverType
  <2> QED
    BY <1>1, <2>1, <2>2
<1>3. TypeOK'
  <2>1. TypeOK /\ pc' \in {"query", "wait", "disconnect"}
    BY <1>1 DEF SafeType
  <2> QED
    BY <1>1, <1>2, <2>1 DEF TypeOK
<1>4. JobInv'
  BY <1>1 DEF SafeType, JobInv
<1> QED
  BY <1>2, <1>3, <1>4 DEF SafeType

\* An event the session receives is appended, or there is no session.
LEMMA ReceiveType ==
  ASSUME queue \in Seq(Event), NEW e \in Event, Receive(e) \/ UNCHANGED queue
  PROVE  queue' \in Seq(Event)
  BY DEF Receive

LEMMA RespondType ==
  ASSUME queue \in Seq(Event), NEW c \in Command, NEW kind \in {"response", "garbled", "large"},
         NEW code \in {"OK"} \cup Refusal, Respond(c, kind, code)
  PROVE  queue' \in Seq(Event)
<1> DEFINE e == [correlator |-> Correlator[c.call], kind |-> kind, code |-> code]
<1>1. Correlator[c.call] \in Int
  BY SncapRecordAssumption DEF Command, Calls
<1>2. e \in Event
  BY <1>1 DEF Event
<1>3. Receive(e) \/ UNCHANGED queue
  BY DEF Respond
<1> QED
  <2> HIDE DEF e
  <2> QED
    BY <1>2, <1>3, ReceiveType

LEMMA CompleteType ==
  ASSUME SafeType, NEW c \in pending, Complete(c)
  PROVE  SafeType'
<1>1. /\ c \in Command /\ c.request \in Request /\ c.call \in Calls /\ queue \in Seq(Event)
      /\ record \in Record /\ Within(record)
  BY DEF SafeType, TypeOK, Command, Within
<1>2. pending' = pending \ {c} /\ UNCHANGED <<call, job, pc, rc, tcr, noise, operator>>
  BY DEF Complete, sncap
<1>3. queue' \in Seq(Event)
  BY <1>1, RespondType DEF Complete
<1>4. record' \in Record /\ Within(record') /\ executed' \subseteq Calls
  BY <1>1, AppliedType DEF Complete, SafeType, TypeOK
<1>5. TypeOK'
  BY <1>2, <1>3, <1>4 DEF SafeType, TypeOK, Within
<1>6. JobInv' /\ SeenInv'
  BY <1>2 DEF SafeType, JobInv, SeenInv
<1> QED
  BY <1>5, <1>6 DEF SafeType

LEMMA ProgressType ==
  ASSUME SafeType, NEW c \in pending, Progress(c)
  PROVE  SafeType'
<1>1. c \in Command /\ queue \in Seq(Event)
  BY DEF SafeType, TypeOK
<1>2. queue' \in Seq(Event)
  BY <1>1, RespondType DEF Progress
<1>3. UNCHANGED <<call, job, pc, rc, tcr, record, pending, executed, noise, operator>>
  BY DEF Progress, sncap, se
<1>4. TypeOK'
  BY <1>2, <1>3 DEF SafeType, TypeOK
<1> QED
  BY <1>3, <1>4 DEF SafeType, JobInv, SeenInv

LEMMA OtherType ==
  ASSUME SafeType, OtherApplication
  PROVE  SafeType'
<1> DEFINE e == [correlator |-> 0, kind |-> "foreign", code |-> "OK"]
<1>1. e \in Event /\ queue \in Seq(Event) /\ Receive(e)
  BY DEF Event, SafeType, TypeOK, OtherApplication
<1>2. queue' \in Seq(Event)
  <2> HIDE DEF e
  <2> QED
    BY <1>1, ReceiveType
<1>3. /\ UNCHANGED <<call, job, pc, rc, tcr, record, pending, executed, operator>>
      /\ noise' \in 0..MaxNoise
  BY SncapRecordAssumption DEF OtherApplication, sncap, se, SafeType, TypeOK
<1>4. TypeOK'
  BY <1>2, <1>3 DEF SafeType, TypeOK
<1> QED
  BY <1>3, <1>4 DEF SafeType, JobInv, SeenInv

LEMMA OperatorType ==
  ASSUME SafeType, Operator
  PROVE  SafeType'
<1>1. /\ UNCHANGED <<call, job, pc, rc, tcr, queue, pending, executed, noise>>
      /\ operator' \in 0..MaxOperator
  BY SncapRecordAssumption DEF Operator, sncap, SafeType, TypeOK
<1>2. PICK r \in Operated : Fits(record, r) /\ record' = Applied(record, r)
  BY DEF Operator
<1>3. r \in Request /\ record \in Record /\ Within(record)
  BY SncapRecordAssumption DEF SafeType, TypeOK, Within
<1>4. record' \in Record /\ Within(record')
  BY <1>2, <1>3, AppliedType
<1>5. TypeOK'
  BY <1>1, <1>4 DEF SafeType, TypeOK, Within
<1> QED
  BY <1>1, <1>5 DEF SafeType, JobInv, SeenInv

\* The steps of the specification, by what they may change.
LEMMA NextCases ==
  ASSUME Next
  PROVE  \/ Start \/ Local \/ Send \/ SendFails
         \/ \E c \in pending : Complete(c) \/ Progress(c)
         \/ OtherApplication \/ Operator \/ UNCHANGED vars
  BY DEF Next, Sncap, Failure, Local, Done

LEMMA StutterType ==
  ASSUME SafeType, UNCHANGED vars
  PROVE  SafeType'
  BY DEF vars, sncap, se, SafeType, TypeOK, JobInv, SeenInv

LEMMA NextType ==
  ASSUME SafeType, [Next]_vars
  PROVE  SafeType'
<1>1. CASE UNCHANGED vars
  BY <1>1, StutterType
<1>2. CASE Next
  BY <1>2, NextCases, StartType, LocalType, SendType, CompleteType, ProgressType, OtherType,
     OperatorType, StutterType
<1> QED
  BY <1>1, <1>2

\* Every variable keeps its kind: whatever the order of commands, late completions and changes by
\* the operator, the record stays within its limits.
THEOREM RecordStaysWithinLimits == Spec => []TypeOK
<1>1. Init => SafeType
  BY InitType
<1>2. SafeType /\ [Next]_vars => SafeType'
  BY NextType
<1>3. SafeType => TypeOK
  BY DEF SafeType
<1> QED
  BY <1>1, <1>2, <1>3, PTL DEF Spec

(***************************************************************************)
(* A call of sncap and its command.                                        *)
(***************************************************************************)

Before == {"connect", "version", "read", "check", "send"}

\* The command of call n has not been carried out and is not under way.
Untouched(n) == n \notin executed /\ \A c \in pending : c.call # n

\* What a step of sncap itself decides.
LEMMA LocalOutcome ==
  ASSUME Local
  PROVE  /\ pc' \in Before => pc \in Before /\ rc' \in {rc, "OK"}
         /\ pc' \in {"disconnect", "ended"} /\ rc' \in Refused =>
              \/ pc \in Before
              \/ pc = "disconnect" /\ rc' = rc
              \/ pc = "wait" /\ queue # <<>> /\ Own(Head(queue)) /\ rc' = Head(queue).code
         /\ pc' = "query" =>
              \/ pc = "version" /\ job.operation = "QUERY_RECORD"
              \/ pc = "wait" /\ queue # <<>> /\ Own(Head(queue)) /\ Head(queue).code = "OK"
         /\ pc' \in {"disconnect", "ended"} /\ rc' = "OK" =>
              pc = "query" \/ (pc = "disconnect" /\ rc = "OK")
                \/ (pc = "wait" /\ queue # <<>> /\ Own(Head(queue)) /\ Head(queue).code = "OK")
<1> USE DEF Before, Refused, Refusal
<1>1. CASE Connect
  BY <1>1 DEF Connect, Go
<1>2. CASE CheckVersions
  BY <1>2 DEF CheckVersions
<1>3. CASE GetFails
  BY <1>3 DEF GetFails
<1>4. CASE ReadRecord
  BY <1>4 DEF ReadRecord, Go
<1>5. CASE Check
  BY <1>5 DEF Check
<1>6. CASE SkipEvent
  BY <1>6 DEF SkipEvent, TakeEvent
<1>7. CASE Decide
  BY <1>7 DEF Decide, TakeEvent, Ends, Own
<1>8. CASE LargeEvent
  BY <1>8 DEF LargeEvent, TakeEvent
<1>9. CASE WaitTimeout
  BY <1>9 DEF WaitTimeout, Go
<1>10. CASE WaitFails
  BY <1>10 DEF WaitFails, Go
<1>11. CASE Query
  BY <1>11 DEF Query, Go
<1>12. CASE Disconnect
  BY <1>12 DEF Disconnect, Go
<1> QED
  BY <1>1, <1>2, <1>3, <1>4, <1>5, <1>6, <1>7, <1>8, <1>9, <1>10, <1>11, <1>12 DEF Local

\* A call has one command at most, which is carried out once at most.
CallInv ==
  /\ executed \subseteq 1..call
  /\ \A c \in pending : c.call \in 1..call /\ c.call \notin executed
  /\ \A c, d \in pending : c.call = d.call => c = d

\* Until the command is sent there is none.
UnsentInv == pc \in Before => Untouched(call)

CommandInv == SafeType /\ CallInv /\ UnsentInv

LEMMA InitCommand == Init => CommandInv
  BY InitType DEF Init, CommandInv, CallInv, UnsentInv, Before

\* sncap leaves the commands alone; a call that begins has none.
LEMMA LocalCommand ==
  ASSUME CommandInv, Local
  PROVE  CommandInv'
<1>1. SafeType' /\ UNCHANGED <<call, pending, executed>>
  BY LocalType, LocalFacts DEF CommandInv, SafeType, se
<1>2. pc' \in Before => pc \in Before
  BY LocalOutcome
<1> QED
  BY <1>1, <1>2 DEF CommandInv, CallInv, UnsentInv, Untouched

LEMMA StartCommand ==
  ASSUME CommandInv, Start
  PROVE  CommandInv' /\ Untouched(call)'
<1>1. SafeType'
  BY StartType DEF CommandInv
<1>2. call' = call + 1 /\ UNCHANGED <<pending, executed>> /\ call \in Nat
  BY SncapRecordAssumption DEF Start, se, CommandInv, SafeType, TypeOK
<1>3. CallInv'
  BY <1>2 DEF CommandInv, CallInv
<1>4. Untouched(call)'
  BY <1>2 DEF CommandInv, CallInv, Untouched
<1> QED
  BY <1>1, <1>3, <1>4 DEF CommandInv, UnsentInv

\* Sending gives the call its command.
LEMMA SendCommand ==
  ASSUME CommandInv, Send \/ SendFails
  PROVE  /\ CommandInv' /\ call \in Calls /\ Untouched(call)
         /\ \A c \in pending' : c \in pending \/ c.call = call
<1>1. SafeType'
  BY SendType DEF CommandInv
<1>2. /\ UNCHANGED <<call, executed>> /\ pc = "send" /\ pc' \notin Before
      /\ Deliver \/ UNCHANGED pending
  BY DEF Send, SendFails, Go, Before
<1>3. Untouched(call) /\ call \in Calls
  BY <1>2 DEF CommandInv, UnsentInv, Before, SafeType, TypeOK
<1>4. \A c \in pending' : c \in pending \/ c.call = call
  BY <1>2 DEF Deliver
<1>5. \A c, d \in pending' : c.call = call /\ d.call = call => c = d
  <2>1. \A c \in pending : c.call # call
    BY <1>3 DEF Untouched
  <2> QED
    BY <1>2, <2>1 DEF Deliver
<1>6. CallInv'
  <2>1. call \in 1..call /\ call \notin executed
    BY <1>3, SncapRecordAssumption DEF Calls, Untouched
  <2>2. \A c \in pending' : c.call \in 1..call' /\ c.call \notin executed'
    BY <1>2, <1>4, <2>1 DEF CommandInv, CallInv
  <2>3. \A c, d \in pending' : c.call = d.call => c = d
    BY <1>4, <1>5 DEF CommandInv, CallInv
  <2> QED
    BY <1>2, <2>2, <2>3 DEF CommandInv, CallInv
<1>7. UnsentInv'
  BY <1>2 DEF UnsentInv
<1> QED
  BY <1>1, <1>3, <1>4, <1>6, <1>7 DEF CommandInv

LEMMA CompleteCommand ==
  ASSUME CommandInv, NEW c \in pending, Complete(c)
  PROVE  CommandInv'
<1>1. SafeType'
  BY CompleteType DEF CommandInv
<1>2. /\ UNCHANGED <<call, pc>> /\ pending' = pending \ {c}
      /\ executed' \in {executed, executed \cup {c.call}}
  BY DEF Complete, sncap
<1>3. CallInv'
  BY <1>2 DEF CommandInv, CallInv
<1>4. UnsentInv'
  BY <1>2 DEF CommandInv, UnsentInv, Untouched
<1> QED
  BY <1>1, <1>3, <1>4 DEF CommandInv

\* Nobody else touches the commands.
LEMMA OtherCommand ==
  ASSUME CommandInv,
         (\E c \in pending : Progress(c)) \/ OtherApplication \/ Operator \/ UNCHANGED vars
  PROVE  CommandInv' /\ UNCHANGED <<call, job, pc, rc, pending, executed>>
<1>1. SafeType'
  BY ProgressType, OtherType, OperatorType, StutterType DEF CommandInv
<1>2. UNCHANGED <<call, job, pc, rc, pending, executed>>
  BY DEF Progress, OtherApplication, Operator, vars, sncap, se
<1> QED
  BY <1>1, <1>2 DEF CommandInv, CallInv, UnsentInv, Untouched

LEMMA NextCommand ==
  ASSUME CommandInv, [Next]_vars
  PROVE  CommandInv'
  BY NextCases, LocalCommand, StartCommand, SendCommand, CompleteCommand, OtherCommand

(***************************************************************************)
(* A return code that blames the request: the command is known by its      *)
(* call, and a refusal in the queue is that of a command that is gone.     *)
(***************************************************************************)

\* What wait_response_event takes for the answer to call n.
Answers(e, n) == e.kind \notin {"foreign", "garbled"} /\ e.correlator = Correlator[n]

\* A refusal in the queue is true, and stays true.
RefusalInv ==
  \A i \in DOMAIN queue : \A n \in Calls :
    Answers(queue[i], n) /\ queue[i].code # "OK" => Untouched(n)

\* Until the command is sent there is no answer to it.
BeforeInv ==
  pc \in Before => /\ rc = "OK"
                   /\ \A i \in DOMAIN queue : ~Answers(queue[i], call)

BlameInv == pc \in {"disconnect", "ended"} /\ call \in Calls /\ rc \in Refused => Untouched(call)

ExchangeInv == CommandInv /\ RefusalInv /\ BeforeInv /\ BlameInv

LEMMA InitExchange == Init => ExchangeInv
<1> SUFFICES ASSUME Init PROVE ExchangeInv
  OBVIOUS
<1>1. CommandInv
  BY InitCommand
<1>2. RefusalInv /\ BeforeInv
  BY DEF Init, RefusalInv, BeforeInv, Before
<1>3. BlameInv
  BY DEF Init, BlameInv, Refused, Refusal
<1> QED
  BY <1>1, <1>2, <1>3 DEF ExchangeInv

\* The queue after a step of sncap holds nothing new.
LEMMA NothingNew ==
  ASSUME SafeType, Local, NEW i \in DOMAIN queue'
  PROVE  \E k \in DOMAIN queue : queue'[i] = queue[k]
<1>1. queue \in Seq(Event)
  BY DEF SafeType, TypeOK
<1>2. queue' \in {queue, <<>>} \/ (queue # <<>> /\ queue' = Tail(queue))
  BY LocalFacts DEF SafeType
<1>3. CASE queue' = Tail(queue) /\ queue # <<>>
  <2>1. i + 1 \in DOMAIN queue /\ Tail(queue)[i] = queue[i + 1]
    BY <1>1, <1>3, TailType
  <2> QED
    BY <1>3, <2>1
<1> QED
  BY <1>2, <1>3

\* An event that sncap takes for its own answers the call.
LEMMA OwnAnswers ==
  ASSUME SafeType, queue # <<>>, Own(Head(queue))
  PROVE  /\ 1 \in DOMAIN queue /\ Head(queue) = queue[1]
         /\ Answers(queue[1], call)
<1>1. 1 \in DOMAIN queue /\ Head(queue) = queue[1]
  BY TailType DEF SafeType, TypeOK
<1> QED
  BY <1>1 DEF Own, Answers

LEMMA LocalExchange ==
  ASSUME ExchangeInv, Local
  PROVE  ExchangeInv'
<1>1. CommandInv /\ SafeType /\ CommandInv'
  BY LocalCommand DEF ExchangeInv, CommandInv
<1>2. UNCHANGED <<call, pending, executed>>
  BY <1>1, LocalFacts DEF SafeType, se
<1>3. RefusalInv'
  <2> SUFFICES ASSUME NEW i \in DOMAIN queue', NEW n \in Calls,
                      Answers(queue'[i], n), queue'[i].code # "OK"
               PROVE  Untouched(n)'
    BY DEF RefusalInv, Answers
  <2>1. PICK k \in DOMAIN queue : queue'[i] = queue[k]
    BY <1>1, NothingNew
  <2> QED
    BY <1>2, <2>1 DEF ExchangeInv, RefusalInv, Untouched
<1>4. BeforeInv'
  <2> SUFFICES ASSUME pc' \in Before
               PROVE  rc' = "OK" /\ \A i \in DOMAIN queue' : ~Answers(queue'[i], call')
    BY DEF BeforeInv, Answers
  <2>1. pc \in Before /\ rc' \in {rc, "OK"}
    BY LocalOutcome
  <2> QED
    BY <1>1, <1>2, <2>1, NothingNew DEF ExchangeInv, BeforeInv
<1>5. BlameInv'
  <2> SUFFICES ASSUME pc' \in {"disconnect", "ended"}, call' \in Calls, rc' \in Refused
               PROVE  Untouched(call)'
    BY DEF BlameInv
  <2>1. CASE pc \in Before
    BY <1>1, <1>2, <2>1 DEF CommandInv, UnsentInv, Untouched
  <2>2. CASE pc = "disconnect" /\ rc' = rc
    BY <1>2, <2>2 DEF ExchangeInv, BlameInv, Untouched
  <2>3. CASE pc = "wait" /\ queue # <<>> /\ Own(Head(queue)) /\ rc' = Head(queue).code
    <3>1. 1 \in DOMAIN queue /\ Answers(queue[1], call) /\ queue[1].code # "OK"
      BY <1>1, <2>3, OwnAnswers DEF Refused, Refusal
    <3>2. Untouched(call)
      BY <1>2, <3>1 DEF ExchangeInv, RefusalInv
    <3> QED
      BY <1>2, <3>2 DEF Untouched
  <2> QED
    BY <2>1, <2>2, <2>3, LocalOutcome
<1> QED
  BY <1>1, <1>3, <1>4, <1>5 DEF ExchangeInv

LEMMA StartExchange ==
  ASSUME ExchangeInv, Start
  PROVE  ExchangeInv'
<1>1. CommandInv' /\ Untouched(call)'
  BY StartCommand DEF ExchangeInv
<1>2. queue' = <<>> /\ (pc' \in Before => rc' = "OK")
  BY DEF Start, Before
<1>3. RefusalInv' /\ BeforeInv' /\ BlameInv'
  BY <1>1, <1>2 DEF RefusalInv, BeforeInv, BlameInv
<1> QED
  BY <1>1, <1>3 DEF ExchangeInv

\* For a command that is sent there is no answer yet.
LEMMA SendExchange ==
  ASSUME ExchangeInv, Send \/ SendFails
  PROVE  ExchangeInv'
<1>1. /\ CommandInv' /\ \A c \in pending' : c \in pending \/ c.call = call
  BY SendCommand DEF ExchangeInv
<1>2. /\ UNCHANGED <<call, queue, executed>> /\ pc = "send" /\ pc' \notin Before
      /\ pc' \in {"disconnect", "ended"} => rc' \notin Refused
  BY DEF Send, SendFails, Go, Before, Refused, Refusal
<1>3. \A i \in DOMAIN queue : ~Answers(queue[i], call)
  BY <1>2 DEF ExchangeInv, BeforeInv, Before
<1>4. RefusalInv'
  <2> SUFFICES ASSUME NEW i \in DOMAIN queue, NEW n \in Calls,
                      Answers(queue[i], n), queue[i].code # "OK"
               PROVE  Untouched(n)'
    BY <1>2 DEF RefusalInv, Answers
  <2>1. n # call /\ Untouched(n)
    BY <1>3 DEF ExchangeInv, RefusalInv
  <2> QED
    BY <1>1, <1>2, <2>1 DEF Untouched
<1>5. BeforeInv' /\ BlameInv'
  BY <1>2 DEF BeforeInv, BlameInv
<1> QED
  BY <1>1, <1>4, <1>5 DEF ExchangeInv

\* The queue after an event has arrived, or has not.
LEMMA ReceiveFacts ==
  ASSUME queue \in Seq(Event), NEW e, Receive(e) \/ UNCHANGED queue
  PROVE  \A i \in DOMAIN queue' : (i \in DOMAIN queue /\ queue'[i] = queue[i]) \/ queue'[i] = e
  BY DEF Receive

\* What the session receives from others than the SE's completed commands.
LEMMA OtherReceives ==
  ASSUME SafeType,
         (\E c \in pending : Progress(c)) \/ OtherApplication \/ Operator \/ UNCHANGED vars,
         NEW i \in DOMAIN queue'
  PROVE  \/ i \in DOMAIN queue /\ queue'[i] = queue[i]
         \/ queue'[i].kind = "foreign"
         \/ /\ "partial" \in Faults /\ queue'[i].code = "OK"
            /\ \E c \in pending : queue'[i].correlator = Correlator[c.call]
<1>1. queue \in Seq(Event)
  BY DEF SafeType, TypeOK
<1>2. ASSUME NEW c \in pending, Progress(c)
      PROVE  \/ i \in DOMAIN queue /\ queue'[i] = queue[i]
             \/ /\ "partial" \in Faults /\ queue'[i].code = "OK"
                /\ queue'[i].correlator = Correlator[c.call]
  <2> DEFINE e == [correlator |-> Correlator[c.call], kind |-> "response", code |-> "OK"]
  <2>1. (Receive(e) \/ UNCHANGED queue) /\ "partial" \in Faults
    BY <1>2 DEF Progress, Respond
  <2>2. e.code = "OK" /\ e.correlator = Correlator[c.call]
    OBVIOUS
  <2> HIDE DEF e
  <2>3. (i \in DOMAIN queue /\ queue'[i] = queue[i]) \/ queue'[i] = e
    BY <1>1, <2>1, ReceiveFacts
  <2> QED
    BY <2>1, <2>2, <2>3
<1>3. ASSUME OtherApplication
      PROVE  (i \in DOMAIN queue /\ queue'[i] = queue[i]) \/ queue'[i].kind = "foreign"
  <2> DEFINE e == [correlator |-> 0, kind |-> "foreign", code |-> "OK"]
  <2>1. Receive(e) /\ e.kind = "foreign"
    BY <1>3 DEF OtherApplication
  <2> HIDE DEF e
  <2>2. (i \in DOMAIN queue /\ queue'[i] = queue[i]) \/ queue'[i] = e
    BY <1>1, <2>1, ReceiveFacts
  <2> QED
    BY <2>1, <2>2
<1>4. Operator \/ UNCHANGED vars => queue' = queue
  BY DEF Operator, vars
<1> QED
  BY <1>2, <1>3, <1>4

\* A command that is carried out answers with OK if at all, one that is refused does not; either
\* way the answer is that of its own call.
LEMMA CompleteFacts ==
  ASSUME SafeType, NEW c \in pending, Complete(c)
  PROVE  /\ UNCHANGED <<call, job, pc, rc, tcr>> /\ pending' = pending \ {c}
         /\ \/ executed' = executed \cup {c.call}
               /\ \A i \in DOMAIN queue' :
                    \/ i \in DOMAIN queue /\ queue'[i] = queue[i]
                    \/ queue'[i].correlator = Correlator[c.call] /\ queue'[i].code = "OK"
            \/ executed' = executed
               /\ \A i \in DOMAIN queue' :
                    \/ i \in DOMAIN queue /\ queue'[i] = queue[i]
                    \/ queue'[i].correlator = Correlator[c.call] /\ queue'[i].code # "OK"
<1>1. queue \in Seq(Event)
  BY DEF SafeType, TypeOK
<1>2. ASSUME NEW kind, NEW code, Respond(c, kind, code)
      PROVE  \A i \in DOMAIN queue' :
               \/ i \in DOMAIN queue /\ queue'[i] = queue[i]
               \/ queue'[i].correlator = Correlator[c.call] /\ queue'[i].code = code
  <2> DEFINE e == [correlator |-> Correlator[c.call], kind |-> kind, code |-> code]
  <2>1. Receive(e) \/ UNCHANGED queue
    BY <1>2 DEF Respond
  <2>2. e.correlator = Correlator[c.call] /\ e.code = code
    OBVIOUS
  <2> HIDE DEF e
  <2>3. \A i \in DOMAIN queue' : (i \in DOMAIN queue /\ queue'[i] = queue[i]) \/ queue'[i] = e
    BY <1>1, <2>1, ReceiveFacts
  <2> QED
    BY <2>2, <2>3
<1>3. UNCHANGED <<call, job, pc, rc, tcr>> /\ pending' = pending \ {c}
  BY DEF Complete, sncap
<1>4. CASE executed' = executed \cup {c.call} /\ \E kind : Respond(c, kind, "OK")
  BY <1>2, <1>3, <1>4
<1>5. CASE executed' = executed /\ \E code \in Refusal : Respond(c, "response", code)
  BY <1>2, <1>3, <1>5 DEF Refusal
<1> QED
  BY <1>4, <1>5 DEF Complete

\* An answer to the command of one call is none to that of another.
LEMMA AnswerIsOwn ==
  ASSUME CorrelatorsDistinct, NEW m \in Calls, NEW n \in Calls, NEW e,
         e.correlator = Correlator[m], Answers(e, n)
  PROVE  m = n
  BY DEF CorrelatorsDistinct, Answers

LEMMA CompleteExchange ==
  ASSUME CorrelatorsDistinct, ExchangeInv, NEW c \in pending, Complete(c)
  PROVE  ExchangeInv'
<1>1. SafeType /\ CommandInv /\ CommandInv'
  BY CompleteCommand DEF ExchangeInv, CommandInv
<1>2. /\ UNCHANGED <<call, pc, rc>> /\ pending' = pending \ {c}
      /\ executed' \in {executed, executed \cup {c.call}}
  BY <1>1, CompleteFacts
<1>3. c.call \in Calls /\ c.call \notin executed
  BY <1>1 DEF CommandInv, CallInv, SafeType, TypeOK, Command
<1>4. RefusalInv'
  <2> SUFFICES ASSUME NEW i \in DOMAIN queue', NEW n \in Calls,
                      Answers(queue'[i], n), queue'[i].code # "OK"
               PROVE  Untouched(n)'
    BY DEF RefusalInv, Answers
  <2>1. CASE i \in DOMAIN queue /\ queue'[i] = queue[i]
    BY <1>2, <2>1 DEF ExchangeInv, RefusalInv, Untouched
  <2>2. CASE executed' = executed /\ queue'[i].correlator = Correlator[c.call]
    <3>1. n = c.call
      BY <1>3, <2>2, AnswerIsOwn
    <3>2. \A d \in pending' : d.call # c.call
      BY <1>1, <1>2 DEF CommandInv, CallInv
    <3> QED
      BY <1>3, <2>2, <3>1, <3>2 DEF Untouched
  <2> QED
    BY <1>1, <2>1, <2>2, CompleteFacts
<1>5. BeforeInv'
  <2> SUFFICES ASSUME pc \in Before
               PROVE  rc = "OK" /\ \A i \in DOMAIN queue' : ~Answers(queue'[i], call)
    BY <1>2 DEF BeforeInv, Answers
  <2>1. rc = "OK" /\ \A i \in DOMAIN queue : ~Answers(queue[i], call)
    BY DEF ExchangeInv, BeforeInv
  <2>2. c.call # call /\ call \in Calls
    BY <1>1 DEF CommandInv, UnsentInv, Untouched, SafeType, TypeOK, Before
  <2>3. ASSUME NEW i \in DOMAIN queue', Answers(queue'[i], call)
        PROVE  FALSE
    <3>1. CASE i \in DOMAIN queue /\ queue'[i] = queue[i]
      BY <2>1, <2>3, <3>1
    <3>2. CASE queue'[i].correlator = Correlator[c.call]
      BY <1>3, <2>2, <2>3, <3>2, AnswerIsOwn
    <3> QED
      BY <1>1, <3>1, <3>2, CompleteFacts
  <2> QED
    BY <2>1, <2>3
<1>6. BlameInv'
  BY <1>2 DEF ExchangeInv, BlameInv, Untouched
<1> QED
  BY <1>1, <1>4, <1>5, <1>6 DEF ExchangeInv

\* Of nobody else comes a refusal, or an answer to a call that has sent no command: a first
\* response says OK and comes only while the command is under way, and other applications'
\* events are none of sncap's.
LEMMA OtherExchange ==
  ASSUME CorrelatorsDistinct, ExchangeInv,
         (\E c \in pending : Progress(c)) \/ OtherApplication \/ Operator \/ UNCHANGED vars
  PROVE  ExchangeInv'
<1>1. /\ CommandInv /\ SafeType /\ CommandInv'
      /\ UNCHANGED <<call, pc, rc, pending, executed>>
  BY OtherCommand DEF ExchangeInv, CommandInv
<1>2. ASSUME NEW i \in DOMAIN queue'
      PROVE  \/ i \in DOMAIN queue /\ queue'[i] = queue[i]
             \/ queue'[i].kind = "foreign"
             \/ queue'[i].code = "OK" /\ \E c \in pending : queue'[i].correlator = Correlator[c.call]
  BY <1>1, OtherReceives
<1>3. \A n \in Calls, i \in DOMAIN queue' :
        Answers(queue'[i], n) => \/ i \in DOMAIN queue /\ queue'[i] = queue[i]
                                 \/ queue'[i].code = "OK" /\ \E c \in pending : c.call = n
  <2> SUFFICES ASSUME NEW n \in Calls, NEW i \in DOMAIN queue', Answers(queue'[i], n),
                      NEW c \in pending, queue'[i].correlator = Correlator[c.call]
               PROVE  c.call = n
    BY <1>2 DEF Answers
  <2>1. c.call \in Calls
    BY <1>1 DEF SafeType, TypeOK, Command
  <2> QED
    BY <2>1, AnswerIsOwn
<1>4. RefusalInv'
  <2> SUFFICES ASSUME NEW i \in DOMAIN queue', NEW n \in Calls,
                      Answers(queue'[i], n), queue'[i].code # "OK"
               PROVE  Untouched(n)'
    BY DEF RefusalInv, Answers
  <2>1. i \in DOMAIN queue /\ queue'[i] = queue[i]
    BY <1>3
  <2> QED
    BY <1>1, <2>1 DEF ExchangeInv, RefusalInv, Untouched
<1>5. BeforeInv'
  <2> SUFFICES ASSUME pc \in Before
               PROVE  rc = "OK" /\ \A i \in DOMAIN queue' : ~Answers(queue'[i], call)
    BY <1>1 DEF BeforeInv, Answers
  <2>1. rc = "OK" /\ \A i \in DOMAIN queue : ~Answers(queue[i], call)
    BY DEF ExchangeInv, BeforeInv
  <2>2. call \in Calls /\ \A c \in pending : c.call # call
    BY <1>1 DEF CommandInv, UnsentInv, Untouched, SafeType, TypeOK, Before
  <2> QED
    BY <1>3, <2>1, <2>2
<1>6. BlameInv'
  BY <1>1 DEF ExchangeInv, BlameInv, Untouched
<1> QED
  BY <1>1, <1>4, <1>5, <1>6 DEF ExchangeInv

LEMMA NextExchange ==
  ASSUME CorrelatorsDistinct, ExchangeInv, [Next]_vars
  PROVE  ExchangeInv'
  BY NextCases, StartExchange, LocalExchange, SendExchange, CompleteExchange, OtherExchange

\* When the return code blames the request, the record has not been changed by it and will not
\* be, whatever has become of the commands of earlier calls (sncap_change_activation_level,
\* wait_response_event).  rand() + getpid() has to tell the calls apart.
THEOREM BlameMeansUntouched == CorrelatorsDistinct /\ Spec => []IInv
<1> SUFFICES ASSUME CorrelatorsDistinct PROVE Spec => []IInv
  OBVIOUS
<1>1. Init => ExchangeInv
  BY InitExchange
<1>2. ExchangeInv /\ [Next]_vars => ExchangeInv'
  BY NextExchange
<1>3. ExchangeInv => IInv
  BY DEF ExchangeInv, CommandInv, SafeType, IInv, RefusedMeansUntouched, BlameInv, Untouched, Ended
<1> QED
  BY <1>1, <1>2, <1>3, PTL DEF Spec

(***************************************************************************)
(* Return code 0: an OK in the queue is that of a command carried out,     *)
(* unless the SE responds before that, which is the fault "partial".       *)
(***************************************************************************)

OkInv ==
  \A i \in DOMAIN queue : \A n \in Calls :
    Answers(queue[i], n) /\ queue[i].code = "OK" => n \in executed

\* A call that is to change nothing has no command; one that is past the wait with 0 has got its
\* command carried out.
ZeroInv ==
  /\ call \in Calls /\ ~Changes => Untouched(call)
  /\ pc = "query" /\ Changes => call \in executed
  /\ pc \in {"disconnect", "ended"} /\ call \in Calls /\ rc = "OK" /\ Changes => call \in executed

DoneInv == ExchangeInv /\ OkInv /\ ZeroInv

LEMMA InitDone == Init => DoneInv
<1> SUFFICES ASSUME Init PROVE DoneInv
  OBVIOUS
<1>1. ExchangeInv
  BY InitExchange
<1>2. OkInv /\ ZeroInv
  BY SncapRecordAssumption DEF Init, OkInv, ZeroInv, Calls, Untouched
<1> QED
  BY <1>1, <1>2 DEF DoneInv

LEMMA LocalDone ==
  ASSUME DoneInv, Local
  PROVE  OkInv' /\ ZeroInv'
<1>1. SafeType
  BY DEF DoneInv, ExchangeInv, CommandInv
<1>2. UNCHANGED <<call, job, pending, executed>>
  BY <1>1, LocalFacts DEF SafeType, se
<1>3. OkInv'
  <2> SUFFICES ASSUME NEW i \in DOMAIN queue', NEW n \in Calls,
                      Answers(queue'[i], n), queue'[i].code = "OK"
               PROVE  n \in executed'
    BY DEF OkInv, Answers
  <2>1. PICK k \in DOMAIN queue : queue'[i] = queue[k]
    BY <1>1, NothingNew
  <2> QED
    BY <1>2, <2>1 DEF DoneInv, OkInv
<1>4. queue # <<>> /\ Own(Head(queue)) /\ Head(queue).code = "OK" /\ call \in Calls => call \in executed
  BY <1>1, OwnAnswers DEF DoneInv, OkInv
<1>5. ~Changes /\ call \in Calls => Untouched(call)'
  BY <1>2 DEF DoneInv, ZeroInv, Untouched
<1>6. pc' = "query" /\ Changes => call \in executed
  BY <1>1, <1>2, <1>4, LocalOutcome DEF Changes, SafeType, TypeOK
<1>7. pc' \in {"disconnect", "ended"} /\ call \in Calls /\ rc' = "OK" /\ Changes => call \in executed
  BY <1>1, <1>2, <1>4, LocalOutcome DEF DoneInv, ZeroInv
<1> QED
  BY <1>2, <1>3, <1>5, <1>6, <1>7 DEF ZeroInv, Changes

LEMMA StartDone ==
  ASSUME DoneInv, Start
  PROVE  OkInv' /\ ZeroInv'
<1>1. /\ queue' = <<>> /\ pc' \in {"connect", "ended"} /\ (pc' = "ended" => rc' # "OK")
  BY DEF Start
<1>2. Untouched(call)'
  BY StartCommand DEF DoneInv, ExchangeInv
<1> QED
  BY <1>1, <1>2 DEF OkInv, ZeroInv

LEMMA SendDone ==
  ASSUME DoneInv, Send \/ SendFails
  PROVE  OkInv' /\ ZeroInv'
<1>1. /\ UNCHANGED <<call, job, queue, executed>> /\ pc = "send"
      /\ pc' = "query" => job.dryrun /\ UNCHANGED pending
      /\ pc' # "query" => ~job.dryrun
      /\ pc' \in {"query", "wait", "disconnect"} /\ (pc' = "disconnect" => rc' # "OK")
  BY DEF Send, SendFails, Go
<1>2. job \in JobKind /\ job.operation # "QUERY_RECORD"
  BY <1>1, SncapRecordAssumption DEF DoneInv, ExchangeInv, CommandInv, SafeType, TypeOK, JobInv
<1>3. Changes <=> ~job.dryrun
  BY <1>2 DEF Changes, JobKind
<1>4. OkInv'
  BY <1>1 DEF DoneInv, OkInv, Answers
<1>5. call \in Calls /\ ~Changes => Untouched(call)'
  BY <1>1, <1>3 DEF DoneInv, ZeroInv, Untouched
<1> QED
  BY <1>1, <1>3, <1>4, <1>5 DEF ZeroInv, Changes

LEMMA CompleteDone ==
  ASSUME CorrelatorsDistinct, DoneInv, NEW c \in pending, Complete(c)
  PROVE  OkInv' /\ ZeroInv'
<1>1. SafeType /\ c.call \in Calls
  BY DEF DoneInv, ExchangeInv, CommandInv, SafeType, TypeOK, Command
<1>2. /\ UNCHANGED <<call, job, pc, rc>> /\ pending' = pending \ {c}
      /\ executed' \in {executed, executed \cup {c.call}}
  BY <1>1, CompleteFacts
<1>3. OkInv'
  <2> SUFFICES ASSUME NEW i \in DOMAIN queue', NEW n \in Calls,
                      Answers(queue'[i], n), queue'[i].code = "OK"
               PROVE  n \in executed'
    BY DEF OkInv, Answers
  <2>1. CASE i \in DOMAIN queue /\ queue'[i] = queue[i]
    BY <1>2, <2>1 DEF DoneInv, OkInv
  <2>2. CASE executed' = executed \cup {c.call} /\ queue'[i].correlator = Correlator[c.call]
    <3>1. n = c.call
      BY <1>1, <2>2, AnswerIsOwn
    <3> QED
      BY <2>2, <3>1
  <2> QED
    BY <1>1, <2>1, <2>2, CompleteFacts
<1>4. call \in Calls /\ ~Changes => Untouched(call)'
  BY <1>2 DEF DoneInv, ZeroInv, Untouched
<1> QED
  BY <1>2, <1>3, <1>4 DEF DoneInv, ZeroInv, Changes

LEMMA OtherDone ==
  ASSUME "partial" \notin Faults, DoneInv,
         (\E c \in pending : Progress(c)) \/ OtherApplication \/ Operator \/ UNCHANGED vars
  PROVE  OkInv' /\ ZeroInv'
<1>1. SafeType /\ UNCHANGED <<call, job, pc, rc, pending, executed>>
  BY OtherCommand DEF DoneInv, ExchangeInv, CommandInv
<1>2. \A i \in DOMAIN queue' : (i \in DOMAIN queue /\ queue'[i] = queue[i]) \/ queue'[i].kind = "foreign"
  BY <1>1, OtherReceives
<1>3. OkInv'
  <2> SUFFICES ASSUME NEW i \in DOMAIN queue', NEW n \in Calls,
                      Answers(queue'[i], n), queue'[i].code = "OK"
               PROVE  n \in executed'
    BY DEF OkInv, Answers
  <2> QED
    BY <1>1, <1>2 DEF DoneInv, OkInv, Answers
<1> QED
  BY <1>1, <1>3 DEF DoneInv, ZeroInv, Untouched, Changes

LEMMA NextDone ==
  ASSUME CorrelatorsDistinct, "partial" \notin Faults, DoneInv, [Next]_vars
  PROVE  DoneInv'
<1>1. ExchangeInv'
  BY NextExchange DEF DoneInv
<1>2. OkInv' /\ ZeroInv'
  BY NextCases, StartDone, LocalDone, SendDone, CompleteDone, OtherDone
<1> QED
  BY <1>1, <1>2 DEF DoneInv

\* When sncap returns 0, the SE has carried out the very command of this call, and nothing if
\* there was to be none (wait_response_event): neither the late response to an earlier call's
\* command nor another application's is taken for it.  The SE must not respond before it is done,
\* and rand() + getpid() has to tell the calls apart.
THEOREM ZeroIsDone == CorrelatorsDistinct /\ "partial" \notin Faults /\ Spec => []ZeroMeansDone
<1> SUFFICES ASSUME CorrelatorsDistinct, "partial" \notin Faults PROVE Spec => []ZeroMeansDone
  OBVIOUS
<1>1. Init => DoneInv
  BY InitDone
<1>2. DoneInv /\ [Next]_vars => DoneInv'
  BY NextDone
<1>3. DoneInv => ZeroMeansDone
  BY DEF DoneInv, ZeroInv, Untouched, ZeroMeansDone, Ended
<1> QED
  BY <1>1, <1>2, <1>3, PTL DEF Spec

(***************************************************************************)
(* What the SE does with the record.                                       *)
(***************************************************************************)

\* Applied to the record it was generated for, a deactivation without model and processors
\* leaves nothing active.
LEMMA WholeRecord ==
  ASSUME NEW j, Whole(j), NEW rec \in Record
  PROVE  Applied(rec, Generated(j, rec)).status = "Installed"
<1> DEFINE r == Generated(j, rec)
           active == [c \in Defined |-> rec.active[c] + (-1) * r.cpu[c]]
<1>1. /\ r.operation = "DEACTIVATE" /\ r.model = Least
      /\ r.cpu = [c \in Type |-> IF c \in Defined THEN rec.active[c] ELSE 0]
  BY DEF Generated, Whole
<1>2. \A c \in Defined : rec.active[c] \in Nat /\ c \in Type
  BY SncapRecordAssumption DEF Record
<1>3. active = [c \in Defined |-> 0]
  BY <1>1, <1>2
<1>4. Least # NoModel
  BY LeastFacts, SncapRecordAssumption
<1> HIDE DEF r
<1> QED
  BY <1>1, <1>3, <1>4 DEF Applied, r

\* An activation that names nothing but a model has passed the check on its capacity.
LEMMA ModelRaises ==
  ASSUME NEW j \in Job, j.operation # "QUERY_RECORD", NEW rec \in Record,
         Objection(j, rec) = "OK", NEW r, r = Generated(j, rec),
         r.operation = "ACTIVATE", r.model # NoModel, r.cpu = None
  PROVE  Msu[Applied(rec, r).model] > Msu[rec.model]
<1>1. ~Whole(j) /\ j.operation = "ACTIVATE" /\ j.model = r.model /\ j.cpu = None
  BY DEF Generated, Whole
<1>2. j.model \in Model
  BY <1>1, ObjectionFacts, SncapRecordAssumption DEF JobKind
<1>3. ~(Msu[j.model] <= Msu[rec.model])
  BY <1>1, <1>2, ObjectionFacts
<1>4. Applied(rec, r).model = j.model
  BY <1>1 DEF Applied
<1>5. Msu[j.model] \in Nat /\ Msu[rec.model] \in Nat
  BY <1>2, SncapRecordAssumption DEF Record
<1> QED
  BY <1>3, <1>4, <1>5

Meant(c) ==
  Executes(c) /\ c.seen = record =>
    /\ c.whole => record'.status = "Installed"
    /\ ModelOnly(c) => Msu[record'.model] > Msu[record.model]

LEMMA CompleteMeant ==
  ASSUME CommandInv, NEW d \in pending, Complete(d), NEW c \in pending
  PROVE  Meant(c)
<1> SUFFICES ASSUME Executes(c), c.seen = record
             PROVE  /\ c.whole => record'.status = "Installed"
                    /\ ModelOnly(c) => Msu[record'.model] > Msu[record.model]
  BY DEF Meant
<1>1. executed' = executed \cup {d.call} /\ record' = Applied(record, d.request)
  BY DEF Executes, Complete
<1>2. c = d
  <2>1. c.call = d.call
    BY <1>1 DEF Executes
  <2> QED
    BY <2>1 DEF CommandInv, CallInv
<1>3. PICK j \in Job : /\ j.operation # "QUERY_RECORD" /\ Objection(j, record) = "OK"
                       /\ c.request = Generated(j, record) /\ c.whole = Whole(j)
  BY DEF CommandInv, SafeType, SeenInv
<1>4. record \in Record
  BY DEF CommandInv, SafeType, TypeOK
<1>5. c.whole => record'.status = "Installed"
  BY <1>1, <1>2, <1>3, <1>4, WholeRecord
<1>6. ModelOnly(c) => Msu[record'.model] > Msu[record.model]
  BY <1>1, <1>2, <1>3, <1>4, ModelRaises DEF ModelOnly
<1> QED
  BY <1>5, <1>6

\* Only Complete carries a command out.
LEMMA OnlyComplete ==
  ASSUME SafeType, [Next]_vars, ~\E d \in pending : Complete(d)
  PROVE  executed' = executed
<1>1. Start => executed' = executed
  BY DEF Start, se
<1>2. Local => executed' = executed
  BY LocalFacts DEF SafeType, se
<1>3. Send \/ SendFails => executed' = executed
  BY DEF Send, SendFails
<1>4. (\E c \in pending : Progress(c)) => executed' = executed
  BY DEF Progress, se
<1>5. OtherApplication \/ Operator \/ UNCHANGED vars => executed' = executed
  BY DEF OtherApplication, Operator, vars, se
<1> QED
  BY <1>1, <1>2, <1>3, <1>4, <1>5, NextCases

\* If nobody has changed the record since it was read, the SE does with it what the user asked
\* sncap for (sncap_change_activation_level, job_generate_xml): the whole record is deactivated,
\* and a model alone raises the capacity.
THEOREM ChangesAreMeant == Spec => DoneAsMeant
<1>1. Init => CommandInv
  BY InitCommand
<1>2. CommandInv /\ [Next]_vars => CommandInv'
  BY NextCommand
<1>3. CommandInv /\ [Next]_vars =>
        [\A c \in pending : Executes(c) /\ c.seen = record =>
           /\ c.whole => record'.status = "Installed"
           /\ ModelOnly(c) => Msu[record'.model] > Msu[record.model]]_vars
  <2> SUFFICES ASSUME CommandInv, [Next]_vars, NEW c \in pending PROVE Meant(c)
    BY DEF Meant
  <2>1. CASE \E d \in pending : Complete(d)
    BY <2>1, CompleteMeant
  <2>2. CASE ~\E d \in pending : Complete(d)
    BY <2>2, OnlyComplete DEF CommandInv, Meant, Executes
  <2> QED
    BY <2>1, <2>2
<1> QED
  BY <1>1, <1>2, <1>3, PTL DEF Spec, DoneAsMeant
=============================================================================
