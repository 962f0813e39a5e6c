---------------------------- MODULE SncapRecord ----------------------------
(***************************************************************************)
(* sncap changes the activation level of a temporary capacity record: main *)
(* of sncap.c with sncap_change_activation_level of sncapapi.c.  sncap is  *)
(* called again and again; a command whose call has timed out may still be *)
(* under way at the Support Element (SE) when the next call begins, and an *)
(* operator may change the record at the SE at any time.                   *)
(***************************************************************************)
EXTENDS Integers, Sequences

CONSTANTS
  Cpu,         \* the auxiliary processor types, in the order of the code: a sequence
  Defined,     \* the types the record defines
  ProcMax,     \* ProcMax[c]: the most processors of type c
  Model,       \* model capacity identifiers of the record's targets
  Msu,         \* Msu[m]: the capacity of model m
  Job,         \* the jobs that users have
  Operated,    \* requests the operator makes at the SE
  Correlator,  \* Correlator[n]: rand() + getpid() of the n-th call of sncap
  Real, Test,  \* activations the record begins with
  Faults,      \* which failures the environment may show
  MaxNoise,    \* bound: events of other applications
  MaxOperator  \* bound: changes by the operator

FaultKind == {"connect", "old_version", "get_error", "send_error", "wait_error", "lost",
              "refusal", "garbled", "large", "partial"}

Type == {Cpu[i] : i \in DOMAIN Cpu}
Calls == 1..Len(Correlator)
NoModel == "none"
Request == [operation : {"ACTIVATE", "DEACTIVATE"}, test : BOOLEAN,
            model : Model \cup {NoModel}, cpu : [Type -> Nat]]

\* A job asks for operation, test mode, model and processors as a request does; dryrun is the
\* option -n.
JobKind == [operation : {"ACTIVATE", "DEACTIVATE", "QUERY_RECORD"}, test : BOOLEAN, dryrun : BOOLEAN,
            model : Model \cup {NoModel, "undefined"}, cpu : [Type -> Nat]]

CorrelatorsDistinct == \A m, n \in Calls : Correlator[m] = Correlator[n] => m = n

ASSUME SncapRecordAssumption ==
  /\ Cpu \in Seq(STRING) /\ Defined \subseteq Type /\ ProcMax \in [Defined -> Nat]
  /\ Model # {} /\ Model \cap {NoModel, "undefined"} = {} /\ Msu \in [Model -> Nat]
  /\ \A m, n \in Model : Msu[m] = Msu[n] => m = n
  /\ Job \subseteq JobKind /\ Operated \subseteq Request
  /\ Correlator \in Seq(Int) /\ Real \in Nat /\ Test \in Nat
  /\ Faults \subseteq FaultKind /\ MaxNoise \in Nat /\ MaxOperator \in Nat

VARIABLES
  call,      \* the number of calls of sncap so far
  job,       \* the job of the call
  pc,        \* where main is
  rc,        \* its return code
  tcr,       \* the record as read by sncap_get_tcr
  queue,     \* events the session of the call has received
  record,    \* the record at the SE
  pending,   \* commands the SE has accepted and not finished
  executed,  \* calls whose command the SE has carried out
  noise,     \* events of other applications
  operator   \* changes by the operator

sncap == <<job, pc, rc, tcr>>
se == <<record, pending, executed>>
vars == <<call, sncap, queue, se, noise, operator>>

Record == [status : {"Installed", "Real", "Test"}, real : Nat, test : Nat,
           active : [Defined -> Nat], model : Model]

\* What the SE is asked for, and what the call knew when it asked.
Command == [call : Calls, request : Request, whole : BOOLEAN, seen : Record]

Refusal == {"INSUFFICIENT_HARDWARE", "INVALID_SOFTWARE_MODEL"}
Event == [correlator : Int, kind : {"response", "garbled", "large", "foreign"},
          code : {"OK"} \cup Refusal]

None == [t \in Type |-> 0]
Least == CHOOSE m \in Model : \A n \in Model : Msu[m] <= Msu[n]

Init ==
  /\ call = 0 /\ job \in Job /\ pc = "ended" /\ rc = "OK" /\ queue = <<>>
  /\ record = [status |-> "Installed", real |-> Real, test |-> Test,
               active |-> [c \in Defined |-> 0], model |-> Least]
  /\ tcr = record /\ pending = {} /\ executed = {} /\ noise = 0 /\ operator = 0

-----------------------------------------------------------------------------
(* main up to the operation. *)

\* job_verify: what is left of it once options and connection are given.
Verified(j) ==
  CASE j.operation = "ACTIVATE" ->
         IF j.model = NoModel /\ j.cpu = None THEN "MISSING_MANDATORY_OPTION" ELSE "OK"
    [] j.operation = "DEACTIVATE" -> IF j.test THEN "CONFLICTING_OPTIONS" ELSE "OK"
    [] j.operation = "QUERY_RECORD" ->
         IF j.test \/ j.dryrun \/ j.cpu # None THEN "CONFLICTING_OPTIONS" ELSE "OK"

Start ==
  /\ pc = "ended" /\ call + 1 \in Calls
  /\ call' = call + 1 /\ queue' = <<>>
  /\ \E j \in Job :
       /\ job' = j /\ rc' = Verified(j)
       /\ pc' = IF rc' = "OK" THEN "connect" ELSE "ended"
  /\ UNCHANGED <<tcr, se, noise, operator>>

Go(from, to) == pc = from /\ pc' = to
Rest == UNCHANGED <<call, job, se, noise, operator>>

\* sncap_connect; when it fails there is no session to end.
Connect ==
  /\ \/ Go("connect", "version") /\ UNCHANGED rc
     \/ /\ "connect" \in Faults /\ Go("connect", "ended")
        /\ rc' \in {"TIMEOUT_OCCURRED", "HWMCAAPI_ERROR"}
  /\ queue' = <<>> /\ UNCHANGED tcr /\ Rest

\* The versions of the server and of the SE of the CPC.
CheckVersions ==
  /\ pc = "version"
  /\ \/ pc' = (IF job.operation = "QUERY_RECORD" THEN "query" ELSE "read") /\ UNCHANGED rc
     \/ "old_version" \in Faults /\ pc' = "disconnect" /\ rc' = "INVALID_SE_VERSION"
  /\ UNCHANGED <<tcr, queue>> /\ Rest

\* A call of HwmcaGet fails, or the CPC or the record is not on the list.
GetFails ==
  /\ "get_error" \in Faults /\ pc \in {"version", "read", "query"}
  /\ pc' = "disconnect"
  /\ rc' \in {"TIMEOUT_OCCURRED", "HWMCAAPI_ERROR", "NO_CPC", "NO_RECORD"}
  /\ UNCHANGED <<tcr, queue>> /\ Rest

-----------------------------------------------------------------------------
(* sncap_change_activation_level. *)

ReadRecord ==
  /\ Go("read", "check") /\ tcr' = record
  /\ UNCHANGED <<rc, queue>> /\ Rest

IsActive(t) == t.status \in {"Real", "Test"}

\* The checks on processors, for one type after the other.
CpuCheck(j, t, c) ==
  IF j.cpu[c] = 0 THEN "OK"
  ELSE IF c \notin Defined THEN "UNDEFINED_CPU_TYPE"
  ELSE IF j.operation = "ACTIVATE" /\ t.active[c] + j.cpu[c] > ProcMax[c] THEN "TOO_MANY_CPU"
  ELSE IF j.operation = "DEACTIVATE" /\ t.active[c] < j.cpu[c] THEN "TOO_MANY_CPU"
  ELSE "OK"

\* Mutated form: the capacity of the model is not compared.
BugRecordChecks(j, t) ==
  << IF j.operation = "DEACTIVATE" /\ ~IsActive(t) THEN "RECORD_IS_NOT_ACTIVE" ELSE "OK",
     IF j.operation = "ACTIVATE" /\ (IF j.test THEN t.test ELSE t.real) = 0
     THEN "ACTIVATIONS_EXHAUSTED" ELSE "OK",
     IF j.model = "undefined" THEN "INVALID_SOFTWARE_MODEL" ELSE "OK" >>

RecordChecks(j, t) ==
  << IF j.operation = "DEACTIVATE" /\ ~IsActive(t) THEN "RECORD_IS_NOT_ACTIVE" ELSE "OK",
     IF j.operation = "ACTIVATE" /\ (IF j.test THEN t.test ELSE t.real) = 0
     THEN "ACTIVATIONS_EXHAUSTED" ELSE "OK",
     IF j.model = "undefined" THEN "INVALID_SOFTWARE_MODEL" ELSE "OK",
     IF /\ j.operation = "ACTIVATE" /\ j.model \in Model /\ j.cpu = None
        /\ Msu[j.model] <= Msu[t.model]
     THEN "INVALID_SOFTWARE_MODEL" ELSE "OK" >>

\* The checks in order; the one on the capacity of the model comes after the processors, but
\* then there are none.
Checks(j, t) == RecordChecks(j, t) \o [i \in DOMAIN Cpu |-> CpuCheck(j, t, Cpu[i])]

Objection(j, t) ==
  LET bad == {i \in DOMAIN Checks(j, t) : Checks(j, t)[i] # "OK"}
  IN  IF bad = {} THEN "OK" ELSE Checks(j, t)[CHOOSE i \in bad : \A k \in bad : i <= k]

Check ==
  /\ pc = "check" /\ rc' = Objection(job, tcr)
  /\ pc' = IF rc' = "OK" THEN "send" ELSE "disconnect"
  /\ UNCHANGED <<tcr, queue>> /\ Rest

\* Deactivation without model and processors: the whole record.
Whole(j) == j.operation = "DEACTIVATE" /\ j.model = NoModel /\ j.cpu = None

\* What job_generate_xml puts into the command.
Generated(j, t) ==
  [operation |-> j.operation, test |-> j.test,
   model |-> IF Whole(j) THEN Least ELSE j.model,
   cpu |-> IF Whole(j) THEN [c \in Type |-> IF c \in Defined THEN t.active[c] ELSE 0] ELSE j.cpu]

Deliver ==
  pending' = pending \cup
    {[call |-> call, request |-> Generated(job, tcr), whole |-> Whole(job), seen |-> tcr]}

\* Mutated form: the option -n is ignored.
BugSends ==
  /\ Go("send", "wait") /\ Deliver
  /\ UNCHANGED <<call, job, rc, tcr, queue, record, executed, noise, operator>>

\* HwmcaCorrelatedCommand, unless nothing shall be changed.
Send ==
  /\ pc = "send"
  /\ \/ job.dryrun /\ pc' = "query" /\ UNCHANGED pending
     \/ ~job.dryrun /\ pc' = "wait" /\ Deliver
  /\ UNCHANGED <<call, job, rc, tcr, queue, record, executed, noise, operator>>

SendFails ==
  /\ "send_error" \in Faults /\ ~job.dryrun /\ Go("send", "disconnect")
  /\ rc' \in {"TIMEOUT_OCCURRED", "HWMCAAPI_ERROR"}
  /\ Deliver \/ UNCHANGED pending
  /\ UNCHANGED <<call, job, tcr, queue, record, executed, noise, operator>>

(* wait_response_event. *)

\* Mutated form: the correlator is not compared.
BugOwn(e) == e.kind \notin {"foreign", "garbled"}

Own(e) == e.kind \notin {"foreign", "garbled"} /\ e.correlator = Correlator[call]

TakeEvent == pc = "wait" /\ queue # <<>> /\ queue' = Tail(queue) /\ UNCHANGED tcr /\ Rest

\* An event whose correlator cannot be interpreted ends the wait, whosever it is.
Ends(e) == Own(e) \/ e.kind = "garbled"

SkipEvent == TakeEvent /\ ~Ends(Head(queue)) /\ Head(queue).kind # "large" /\ UNCHANGED <<pc, rc>>

\* The SE's code decides, if there is one.
Decide ==
  LET e == Head(queue) IN
  /\ TakeEvent /\ Ends(e) /\ e.kind # "large"
  /\ rc' = IF e.kind = "garbled" THEN "INVALID_SE_RESPONSE" ELSE e.code
  /\ pc' = IF rc' = "OK" THEN "query" ELSE "disconnect"

\* An event larger than the buffer, whose size the library is not told: it is dropped, or it
\* has overwritten what kills the program.
LargeEvent ==
  /\ TakeEvent /\ Head(queue).kind = "large"
  /\ \/ UNCHANGED <<pc, rc>>
     \/ pc' = "ended" /\ rc' = "killed"

\* Mutated form: the wait is repeated.
BugWaitsOn == pc = "wait" /\ queue = <<>> /\ UNCHANGED vars

WaitTimeout ==
  /\ queue = <<>> /\ Go("wait", "disconnect") /\ rc' = "TIMEOUT_OCCURRED"
  /\ UNCHANGED <<tcr, queue>> /\ Rest

WaitFails ==
  /\ "wait_error" \in Faults /\ Go("wait", "disconnect") /\ rc' = "HWMCAAPI_ERROR"
  /\ UNCHANGED <<tcr, queue>> /\ Rest

\* sncap_query_record; that it may fail is GetFails.
Query ==
  /\ Go("query", "disconnect") /\ rc' = "OK"
  /\ UNCHANGED <<tcr, queue>> /\ Rest

\* sncap_disconnect: what it returns is not looked at.
Disconnect ==
  /\ Go("disconnect", "ended") /\ queue' = <<>>
  /\ UNCHANGED <<rc, tcr>> /\ Rest

-----------------------------------------------------------------------------
(* The SE (not under src/: as the code and its manual page use it). *)

\* Can the request be carried out with the record as it is?
Fits(rec, r) ==
  IF r.operation = "ACTIVATE"
  THEN /\ (IF r.test THEN rec.test ELSE rec.real) # 0
       /\ IsActive(rec) => rec.status = IF r.test THEN "Test" ELSE "Real"
       /\ \A c \in Defined : rec.active[c] + r.cpu[c] <= ProcMax[c]
  ELSE IsActive(rec) /\ \A c \in Defined : r.cpu[c] <= rec.active[c]

Applied(rec, r) ==
  LET model == IF r.model = NoModel THEN rec.model ELSE r.model
      sign == IF r.operation = "ACTIVATE" THEN 1 ELSE -1
      active == [c \in Defined |-> rec.active[c] + sign * r.cpu[c]]
      first == r.operation = "ACTIVATE" /\ ~IsActive(rec)
  IN  [status |-> IF model = Least /\ active = [c \in Defined |-> 0] THEN "Installed"
                  ELSE IF first THEN (IF r.test THEN "Test" ELSE "Real") ELSE rec.status,
       real |-> IF first /\ ~r.test THEN rec.real - 1 ELSE rec.real,
       test |-> IF first /\ r.test THEN rec.test - 1 ELSE rec.test,
       active |-> active, model |-> model]

\* The session is open between connect and disconnect.
Listening == pc \in {"version", "read", "check", "send", "wait", "query", "disconnect"}

Receive(e) == queue' = IF Listening THEN Append(queue, e) ELSE queue

Respond(c, kind, code) ==
  \/ Receive([correlator |-> Correlator[c.call], kind |-> kind, code |-> code])
  \/ "lost" \in Faults /\ UNCHANGED queue

Complete(c) ==
  /\ c \in pending /\ pending' = pending \ {c}
  /\ \/ /\ Fits(record, c.request)
        /\ record' = Applied(record, c.request) /\ executed' = executed \cup {c.call}
        /\ \E kind \in {"response"} \cup ({"garbled", "large"} \cap Faults) : Respond(c, kind, "OK")
     \/ /\ ~Fits(record, c.request) \/ "refusal" \in Faults
        /\ \E code \in Refusal : Respond(c, "response", code)
        /\ UNCHANGED <<record, executed>>
  /\ UNCHANGED <<call, sncap, noise, operator>>

\* A first response, which says so in its last indicator: sncap does not look at it.
Progress(c) ==
  /\ "partial" \in Faults /\ c \in pending /\ queue = <<>> /\ Respond(c, "response", "OK")
  /\ UNCHANGED <<call, sncap, se, noise, operator>>

OtherApplication ==
  /\ noise < MaxNoise /\ noise' = noise + 1
  /\ Receive([correlator |-> 0, kind |-> "foreign", code |-> "OK"])
  /\ UNCHANGED <<call, sncap, se, operator>>

Operator ==
  /\ operator < MaxOperator /\ operator' = operator + 1
  /\ \E r \in Operated : Fits(record, r) /\ record' = Applied(record, r)
  /\ UNCHANGED <<call, sncap, queue, pending, executed, noise>>

-----------------------------------------------------------------------------
Sncap ==
  \/ Connect \/ CheckVersions \/ ReadRecord \/ Check \/ Send
  \/ SkipEvent \/ Decide \/ LargeEvent \/ WaitTimeout \/ Query \/ Disconnect

Failure == GetFails \/ SendFails \/ WaitFails

Done == pc = "ended" /\ call = Len(Correlator) /\ pending = {} /\ UNCHANGED vars

Next ==
  \/ Start \/ Sncap \/ Failure \/ (\E c \in pending : Complete(c) \/ Progress(c))
  \/ OtherApplication \/ Operator \/ Done

Spec == Init /\ [][Next]_vars

\* sncap is a sequential program, and HwmcaWaitEvent has a time limit.  Nothing is assumed of
\* the SE, and no failure has to happen.
FairSpec == Spec /\ WF_vars(Sncap)

(***************************************************************************)
(* Properties.                                                             *)
(***************************************************************************)

\* Every variable keeps its kind, and the record never leaves its limits.
TypeOK ==
  /\ call \in 0..Len(Correlator) /\ job \in Job
  /\ pc \in {"connect", "version", "read", "check", "send", "wait", "query", "disconnect", "ended"}
  /\ tcr \in Record /\ record \in Record
  /\ \A c \in Defined : record.active[c] <= ProcMax[c]
  /\ queue \in Seq(Event) /\ pending \subseteq Command /\ executed \subseteq Calls
  /\ noise \in 0..MaxNoise /\ operator \in 0..MaxOperator
  /\ pc # "ended" => call \in Calls

Changes == job.operation \in {"ACTIVATE", "DEACTIVATE"} /\ ~job.dryrun
Ended == pc = "ended" /\ call \in Calls

\* When sncap returns 0, the SE has carried out the very command of this call, and nothing if
\* there was to be none: neither the late response to an earlier call's command nor another
\* application's is taken for it (sncap.8: "Successful sncap commands return 0").
ZeroMeansDone == Ended /\ rc = "OK" => (call \in executed <=> Changes)

\* The codes that blame the request: those of the checks and the refusals of the SE.
Refused == {"MISSING_MANDATORY_OPTION", "CONFLICTING_OPTIONS", "RECORD_IS_NOT_ACTIVE",
            "ACTIVATIONS_EXHAUSTED", "UNDEFINED_CPU_TYPE", "TOO_MANY_CPU", "INVALID_SE_VERSION"}
           \cup Refusal

\* When the return code blames the request, the record has not been changed by it and will not
\* be: only time-outs and errors of the connection leave that open (sncap.8, return code 17: "No
\* processors were activated").
RefusedMeansUntouched ==
  Ended /\ rc \in Refused => call \notin executed /\ \A c \in pending : c.call # call

\* The type invariant, which keeps the record within its limits whatever the order of commands,
\* late completions and changes by the operator, together with RefusedMeansUntouched
\* (sncap_change_activation_level).
IInv == TypeOK /\ RefusedMeansUntouched

Executes(c) == c.call \in executed' \ executed

ModelOnly(c) ==
  c.request.operation = "ACTIVATE" /\ c.request.model # NoModel /\ c.request.cpu = None

\* If nobody has changed the record since it was read, the SE does with it what the user asked
\* sncap for: a deactivation without model and processors leaves nothing of it active (sncap.8,
\* -d: "deactivates the entire record"), and an activation that names nothing but a model raises
\* the capacity ("avoid the temporary capacity record activation by a user mistake",
\* sncap_change_activation_level).
DoneAsMeant ==
  [][\A c \in pending : Executes(c) /\ c.seen = record =>
       /\ c.whole => record'.status = "Installed"
       /\ ModelOnly(c) => Msu[record'.model] > Msu[record.model]]_vars

\* The same whoever has changed the record in between: the check and the command are two calls.
ActivationNeverLowers ==
  [][\A c \in pending : Executes(c) /\ ModelOnly(c) => Msu[record'.model] > Msu[record.model]]_vars

\* "The timeout occurred, the command is cancelled" (sncaputil.c).
TimeoutMeansCancelled ==
  [][\A c \in pending : pc = "ended" /\ rc = "TIMEOUT_OCCURRED" /\ c.call = call => ~Executes(c)]_vars

\* Every call ends, also when the SE never answers: the wait has a time limit
\* (wait_response_event).
EveryCallEnds == pc # "ended" ~> pc = "ended"
=============================================================================
