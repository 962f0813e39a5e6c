------------------------------ MODULE Stonith ------------------------------
(***************************************************************************)
(* The STONITH plugin lic_vps.c: the requests RESET, POWERON and POWEROFF  *)
(* for one image, the status request, and the module loading of prepare.c. *)
(* A cluster manager calls the plugin any number of times; the server      *)
(* objects of the configuration live as long as the plugin, so whatever    *)
(* one request leaves in them meets the next one.                          *)
(***************************************************************************)
EXTENDS Integers, Sequences

CONSTANTS
  Server,      \* the servers of the configuration
  Order,       \* their order in the configuration, a sequence that has each of them once
  Has,         \* the servers that define the image of the requests
  Configured,  \* Configured[s]: the type keyword of s, "VM" or "LPAR"
  Encrypted,   \* the VM servers that are connected to with SSL
  Installed,   \* the types whose library can be loaded
  Ops,         \* the image operations that are requested
  Mood,        \* how servers may behave during a request
  MaxRequests  \* bound: requests to the plugin

(***************************************************************************)
(* How a server behaves while one request runs.                            *)
(*   well              carries out what it is told                         *)
(*   needless          refuses with "Not Active", "Already Active",        *)
(*                     "Being Deactivated" or a sequence error             *)
(*   failing           refuses with another error                          *)
(*   hangup            carries out the command, then drops the connection  *)
(*   mute              may carry out the command, but its answer does not  *)
(*                     reach the plugin, whose call ends with an error     *)
(*   silent            an SE that never answers a command it was sent      *)
(*   impostor          shows a certificate with another fingerprint        *)
(*   vsmserve          has no request server, its port does not answer,    *)
(*                     but a VSMSERVE service machine                      *)
(*   vsmserve_mute     the same, and the answer to its RPC gets lost       *)
(*   vsmserve_refuses  the same, and its port refuses connections          *)
(*   down, refuses     nobody there; the port does not answer, or refuses  *)
(*   moved             the image is no longer one of this SE               *)
(***************************************************************************)
MoodKind == {"well", "needless", "failing", "hangup", "mute", "silent", "impostor", "vsmserve",
             "vsmserve_mute", "vsmserve_refuses", "down", "refuses", "moved"}

ASSUME StonithAssumption ==
  /\ Order \in Seq(Server) /\ Has \subseteq Server
  /\ Configured \in [Server -> {"VM", "LPAR"}]
  /\ Encrypted \subseteq {s \in Server : Configured[s] = "VM"}
  /\ Installed \subseteq {"VM", "VM5", "LPAR"}
  /\ Ops \subseteq {"RESET", "ACTIVATE", "DEACTIVATE"}
  /\ Mood \subseteq MoodKind
  /\ MaxRequests \in Nat

ASSUME OrderAssumption ==
  /\ \A s \in Server : \E i \in 1..Len(Order) : Order[i] = s
  /\ \A i, j \in 1..Len(Order) : Order[i] = Order[j] => i = j

VARIABLES
  server,   \* the fields of every struct snipl_server that outlive a request
  mood,     \* how each server behaves during this request
  pc,       \* where the plugin is
  request,  \* the request under way or last made
  at,       \* index in Order of the server it has come to
  result,   \* what the last request returned
  answer,   \* what the servers did about this request
  executed, \* the servers that carried it out
  requests  \* number of requests so far

vars == <<server, mood, pc, request, at, result, answer, executed, requests>>

ServerState ==
  [type : {"VM", "VM5", "LPAR"},
   force : BOOLEAN,                  \* parms.force # -1
   image_op : {"OPUNKNOWN", "RESET", "ACTIVATE", "DEACTIVATE"},
   problem : {"null", "text", "freed"},
   problem_class : {"OK", "FATAL", "CERTIFICATE_ERROR"},
   ops : {"none", "unloaded", "VM", "VM5", "LPAR"},  \* the functions server->ops points to
   known : BOOLEAN,                  \* LPAR: image->ops was set by some login
   session : BOOLEAN,                \* priv refers to an open connection
   lost : Nat,                       \* descriptors open that nothing refers to
   corrupt : BOOLEAN]                \* freed memory was used or freed again

Serving == {"well", "needless", "failing", "hangup", "mute", "silent"}
Mute == {"mute", "vsmserve_mute"}
Vsmserve == {"vsmserve", "vsmserve_mute", "vsmserve_refuses"}
MoodsOf(s) ==
  Mood \ CASE Configured[s] = "LPAR" -> {"impostor", "refuses"} \cup Vsmserve
           [] s \in Encrypted -> {"moved", "silent"}
           [] OTHER -> {"moved", "silent", "impostor"}

Here == Order[at]
Note(s, r) == server' = [server EXCEPT ![s] = r]

Init ==
  /\ server = [s \in Server |->
       [type |-> Configured[s], force |-> FALSE, image_op |-> "OPUNKNOWN", problem |-> "null",
        problem_class |-> "OK", ops |-> "none", known |-> FALSE, session |-> FALSE,
        lost |-> 0, corrupt |-> FALSE]]
  /\ mood \in [Server -> Mood] /\ \A s \in Server : mood[s] \in MoodsOf(s)
  /\ pc = "idle" /\ request = "none" /\ at = 0 /\ result = "none"
  /\ answer = "none" /\ executed = {} /\ requests = 0

(***************************************************************************)
(* What the calls of the plugin do to the record r of a server.            *)
(***************************************************************************)

\* create_msg frees the old message; message() prints it and frees it.
CreateMsg(r) == [r EXCEPT !.problem = "text", !.corrupt = @ \/ r.problem = "freed"]
Message(r) == [r EXCEPT !.problem = "null", !.corrupt = @ \/ r.problem = "freed"]
Fatal(r) == [CreateMsg(r) EXCEPT !.problem_class = "FATAL"]

\* A new priv overwrites the old one, and with it the only reference to its connection.
NewPriv(r) ==
  [r EXCEPT !.session = FALSE, !.lost = IF r.session THEN @ + 1 ELSE @]

\* snipl_prepare: close the library loaded before, load the one for the type.
Prepared(r) ==
  IF r.type \in Installed
  THEN [(IF r.type = "VM5" THEN NewPriv(r) ELSE r) EXCEPT !.ops = r.type]
  ELSE [Fatal(r) EXCEPT !.ops = IF @ = "none" THEN @ ELSE "unloaded"]

\* snipl_prepare_check: does it object, and what it does.
Objects(r) ==
  \/ r.ops = "none"
  \/ r.ops \in {"VM", "VM5"} /\ r.force /\ r.image_op # "DEACTIVATE"

Checked(r) ==
  LET q == IF r.ops \in {"VM", "LPAR"} THEN NewPriv(r) ELSE r
  IN  CASE r.ops = "none" -> r
        [] Objects(r) -> Fatal(q)
        [] r.ops = "LPAR" -> q
        [] OTHER -> [q EXCEPT !.problem_class = "OK"]

\* snipl_login: the moods in which it fails, and what it does.
Refusing == {"vsmserve_refuses", "refuses"}
NotThere == {"vsmserve", "vsmserve_mute", "down"}

LoginFails(s, r) ==
  CASE r.ops = "VM" -> \/ mood[s] \in {"impostor"} \cup NotThere
                       \/ mood[s] \in Refusing /\ s \in Encrypted
    [] r.ops = "VM5" -> mood[s] \notin Vsmserve
    [] r.ops = "LPAR" -> mood[s] = "down" \/ (mood[s] = "moved" /\ ~r.known)
    [] OTHER -> TRUE

\* A request server that refuses the connection counts as connected: the wait of the connect
\* finds the socket writable.  A socket whose connect timed out is never closed.
LoggedIn(s, r) ==
  CASE r.ops = "VM" /\ mood[s] = "impostor" ->
         [CreateMsg(r) EXCEPT !.session = TRUE, !.problem_class = "CERTIFICATE_ERROR"]
    [] r.ops = "VM" /\ mood[s] \in NotThere -> [Fatal(r) EXCEPT !.lost = @ + 1]
    [] r.ops = "VM" /\ LoginFails(s, r) -> [Fatal(r) EXCEPT !.session = TRUE]
    [] r.ops = "VM5" /\ LoginFails(s, r) -> [r EXCEPT !.problem = "text", !.problem_class = "FATAL"]
    [] r.ops = "LPAR" /\ mood[s] = "down" -> Fatal(r)
    [] r.ops = "LPAR" /\ LoginFails(s, r) -> [CreateMsg(r) EXCEPT !.session = TRUE]
    [] r.ops \in {"none", "unloaded"} -> r
    [] OTHER -> [r EXCEPT !.session = TRUE, !.known = @ \/ r.ops = "LPAR"]

\* snipl_logout: does it fail, and what it does.  Shutting down a connection that the other
\* side has dropped fails, but then vmsmapi6 returns what close() returned.
Dropped(s) == mood[s] = "hangup" \/ mood[s] \in Refusing

LogoutFails(s, r) == r.ops = "LPAR" /\ r.session /\ Dropped(s)

\* Mutated form: a session without SSL stays open.
BugOnlySsl(s, r) == IF s \in Encrypted THEN [r EXCEPT !.session = FALSE] ELSE r

LoggedOut(s, r) ==
  IF r.session /\ r.ops \in {"VM", "LPAR"} /\ Dropped(s)
  THEN [Fatal(r) EXCEPT !.session = FALSE]
  ELSE [r EXCEPT !.session = FALSE]

(***************************************************************************)
(* Mutated forms of definitions below.                                     *)
(***************************************************************************)

\* Every error counts as a complaint about the state of the image.
BugIgnoreAll(s) == TRUE

\* The server after the next one is looked at.
BugSkipsOne(i) == {j \in i + 2..Len(Order) : Order[j] \in Has}

(***************************************************************************)
(* lic_vps_reset_req: try the servers that define the image one after the  *)
(* other until one request returns S_OK.                                   *)
(***************************************************************************)

\* oops_error: an error message that is no reason to fail.
Ignored(s) == mood[s] = "needless"

\* find_next_image: the servers after the i-th that define the image.
Further(i) == {j \in i + 1..Len(Order) : Order[j] \in Has}

Begin(r, at0, pc0) ==
  /\ pc = "idle" /\ requests < MaxRequests
  /\ request' = r /\ at' = at0 /\ pc' = pc0 /\ requests' = requests + 1
  /\ mood' \in [Server -> Mood] /\ \A s \in Server : mood'[s] \in MoodsOf(s)
  /\ result' = "none" /\ answer' = "none" /\ executed' = {}
  /\ UNCHANGED server

Request(op) == Begin(op, 0, "find")

FindServer ==
  /\ pc = "find" /\ pc' = "prepare"
  /\ at' \in Further(at) /\ \A k \in Further(at) : at' <= k
  /\ UNCHANGED <<server, mood, request, result, answer, executed, requests>>

NoServer ==
  /\ pc = "find" /\ Further(at) = {}
  /\ pc' = "idle" /\ result' = "S_OOPS"
  /\ UNCHANGED <<server, mood, request, at, answer, executed, requests>>

\* lic_vps_reset_req2 from here on.
Unwatched == UNCHANGED <<mood, request, at, result, answer, executed, requests>>

Prepare ==
  LET r == Prepared(server[Here])
      q == Checked(r)
  IN  /\ pc = "prepare"
      /\ IF r.type \notin Installed THEN Note(Here, Message(r)) /\ pc' = "find"
         ELSE IF Objects(r) THEN Note(Here, Message(q)) /\ pc' = "find"
         ELSE Note(Here, q) /\ pc' = "login"
      /\ Unwatched

\* A certificate error ends the attempt; another error with a VM server leads to VSMSERVE.
Login ==
  LET r == server[Here]
      q == LoggedIn(Here, r)
  IN  /\ pc = "login"
      /\ IF ~LoginFails(Here, r) THEN Note(Here, q) /\ pc' = "operate"
         ELSE IF q.problem_class = "CERTIFICATE_ERROR" THEN Note(Here, q) /\ pc' = "logout"
         ELSE IF r.type = "VM" THEN Note(Here, q) /\ pc' = "fallback"
         ELSE Note(Here, Message(q)) /\ pc' = "find"
      /\ Unwatched

\* The second login, with the type VM5.  What the check says does not matter.
Fallback ==
  LET r == Prepared([LoggedOut(Here, server[Here]) EXCEPT !.type = "VM5"])
      q == Checked(r)
  IN  /\ pc = "fallback"
      /\ IF "VM5" \notin Installed THEN Note(Here, Message(r)) /\ pc' = "find"
         ELSE IF LoginFails(Here, q) THEN Note(Here, Message(LoggedIn(Here, q))) /\ pc' = "find"
         ELSE Note(Here, LoggedIn(Here, q)) /\ pc' = "operate"
      /\ Unwatched

\* The server object with the operation noted; POWEROFF forces.
Asked(r) ==
  [r EXCEPT !.image_op = request, !.force = @ \/ request = "DEACTIVATE"]

Answered(s, r) == ~(r.ops = "VM" /\ mood[s] \in Refusing)

\* The call of snipl_reset, snipl_activate or snipl_deactivate returns.  After an error that is no
\* complaint about the image the next server is asked, whatever this one has done: an answer that
\* is lost or late, or a wait that fails, says nothing about the image.
Returned ==
  LET r == Asked(server[Here])
      error == mood[Here] \in {"needless", "failing"} \cup Mute \/ ~Answered(Here, r)
  IN  /\ IF error
         THEN /\ IF Ignored(Here)
                 THEN Note(Here, Fatal(r)) /\ pc' = "logout"
                 ELSE Note(Here, Message(Fatal(r))) /\ pc' = "find"
              /\ answer' = IF mood[Here] = "needless" THEN "needless" ELSE answer
              /\ \/ UNCHANGED executed
                 \/ mood[Here] \in Mute /\ executed' = executed \cup {Here}
         ELSE /\ Note(Here, [CreateMsg(r) EXCEPT !.problem_class = "OK"]) /\ pc' = "logout"
              /\ answer' = "executed" /\ executed' = executed \cup {Here}
      /\ UNCHANGED <<mood, request, at, result, requests>>

\* A z/VM system: every wait has a time limit.  On an SE the command may also fail to be sent.
Operate ==
  /\ pc = "operate" /\ (server[Here].ops = "LPAR" => mood[Here] = "mute")
  /\ Returned

SendCommand ==
  /\ pc = "operate" /\ server[Here].ops = "LPAR" /\ mood[Here] # "moved"
  /\ Note(Here, Asked(server[Here])) /\ pc' = "wait"
  /\ Unwatched

Await == pc = "wait" /\ mood[Here] # "silent" /\ Returned

\* The wait for the acknowledgement has timed out and starts again, as often as it takes.
WaitAgain == pc = "wait" /\ UNCHANGED vars

\* image->ops is left from an earlier login, but no login has set image->priv: command_handling
\* follows a null pointer.
OperateOnMissing ==
  /\ pc = "operate" /\ mood[Here] = "moved"
  /\ pc' = "aborted"
  /\ Note(Here, Asked(server[Here]))
  /\ UNCHANGED <<mood, request, at, result, answer, executed, requests>>

\* A logout that fails is reported and changes nothing else.
BugLogoutDecides ==
  LET r == server[Here]
      q == IF r.problem_class = "CERTIFICATE_ERROR" THEN Message(r) ELSE r
      f == IF q.problem = "null" THEN q ELSE [q EXCEPT !.problem = "freed"]
      g == LoggedOut(Here, f)
  IN  /\ pc = "logout"
      /\ Note(Here, g)
      /\ IF LogoutFails(Here, f)
         THEN pc' = "find" /\ UNCHANGED result
         ELSE pc' = "idle" /\ result' = "S_OK"
      /\ UNCHANGED <<mood, request, at, answer, executed, requests>>

\* The message is freed but server->problem keeps pointing to it.
Logout ==
  LET r == server[Here]
      q == IF r.problem_class = "CERTIFICATE_ERROR" THEN Message(r) ELSE r
      f == IF q.problem = "null" THEN q ELSE [q EXCEPT !.problem = "freed"]
      g == LoggedOut(Here, f)
  IN  /\ pc = "logout"
      /\ Note(Here, IF LogoutFails(Here, f) THEN Message(g) ELSE g)
      /\ pc' = "idle" /\ result' = "S_OK"
      /\ UNCHANGED <<mood, request, at, answer, executed, requests>>

(***************************************************************************)
(* lic_vps_status: prepare every server, log in to them until one login    *)
(* succeeds.                                                               *)
(***************************************************************************)
Status == Begin("status", 0, "status")

\* prepare_check and login, then logout in any case: the state after it, whether it succeeded
\* and whether a certificate was to blame.
Tried(s, r) ==
  LET q == IF Objects(r) THEN Checked(r) ELSE LoggedIn(s, Checked(r))
  IN  [server |-> LoggedOut(s, q),
       ok |-> ~Objects(r) /\ ~LoginFails(s, Checked(r)),
       cert |-> q.problem_class = "CERTIFICATE_ERROR"]

\* Mutated form: the last server decides.
BugLastDecides(s, ok) == IF ok /\ s = Order[Len(Order)] THEN "operational" ELSE "none"

Verdict(s, ok) == IF ok THEN "operational" ELSE "none"

\* Every server is prepared; after the first one that is operational no other is tried.  The
\* functions of a library that is not loaded any more may be called.
StatusServer ==
  /\ pc = "status" /\ at < Len(Order)
  /\ at' = at + 1
  /\ LET s == Order[at + 1]
         r == Prepared(server[s])
         t == Tried(s, r)
     IN  IF answer = "operational" THEN Note(s, r) /\ UNCHANGED <<pc, answer>>
         ELSE IF r.ops = "unloaded" THEN Note(s, r) /\ pc' = "aborted" /\ UNCHANGED answer
         ELSE /\ Note(s, t.server)
              /\ IF ~t.ok /\ r.type = "VM" /\ ~t.cert
                 THEN pc' = "status_fallback" /\ UNCHANGED answer
                 ELSE pc' = "status" /\ answer' = Verdict(s, t.ok)
  /\ UNCHANGED <<mood, request, result, executed, requests>>

\* The second attempt, with the type VM5.
StatusFallback ==
  /\ pc = "status_fallback"
  /\ LET r == Prepared([server[Here] EXCEPT !.type = "VM5"])
         t == Tried(Here, r)
     IN  IF r.ops = "unloaded" THEN Note(Here, r) /\ pc' = "aborted" /\ UNCHANGED answer
         ELSE Note(Here, t.server) /\ pc' = "status" /\ answer' = Verdict(Here, t.ok)
  /\ UNCHANGED <<mood, request, at, result, executed, requests>>

\* Mutated form: the status request starts over until a server is operational.
BugStatusEnd ==
  /\ pc = "status" /\ at = Len(Order)
  /\ IF answer = "operational" THEN pc' = "idle" /\ result' = "S_OK" /\ UNCHANGED at
     ELSE at' = 0 /\ UNCHANGED <<pc, result>>
  /\ UNCHANGED <<server, mood, request, answer, executed, requests>>

StatusEnd ==
  /\ pc = "status" /\ at = Len(Order)
  /\ pc' = "idle" /\ result' = IF answer = "operational" THEN "S_OK" ELSE "S_OOPS"
  /\ UNCHANGED <<server, mood, request, at, answer, executed, requests>>

\* Freeing a message twice may be noticed by the allocator, or not.
Abort ==
  /\ pc # "aborted" /\ \E s \in Server : server[s].corrupt
  /\ pc' = "aborted"
  /\ UNCHANGED <<server, mood, request, at, result, answer, executed, requests>>

\* No request comes any more.
Stopped ==
  /\ pc = "aborted" \/ (pc = "idle" /\ requests = MaxRequests)
  /\ UNCHANGED vars

ResetReq ==
  \/ FindServer \/ NoServer \/ Prepare \/ Login \/ Fallback
  \/ Operate \/ SendCommand \/ Await \/ OperateOnMissing \/ Logout

Next ==
  \/ \E op \in Ops : Request(op)
  \/ Status
  \/ ResetReq \/ WaitAgain
  \/ StatusServer \/ StatusFallback \/ StatusEnd
  \/ Abort
  \/ Stopped

Spec == Init /\ [][Next]_vars

\* A request, once begun, is a sequential program that does not stop by itself.  Nothing is
\* assumed of an SE: whether it ever answers is a matter of its mood.
FairSpec == Spec /\ WF_vars(ResetReq \/ StatusServer \/ StatusFallback \/ StatusEnd)

(***************************************************************************)
(* Properties.                                                             *)
(***************************************************************************)
TypeOK ==
  /\ server \in [Server -> ServerState]
  /\ mood \in [Server -> Mood]
  /\ pc \in {"idle", "find", "prepare", "login", "fallback", "operate", "wait", "logout",
             "status", "status_fallback", "aborted"}
  /\ request \in Ops \cup {"none", "status"}
  /\ at \in 0..Len(Order)
  /\ result \in {"none", "S_OK", "S_OOPS"}
  /\ answer \in {"none", "executed", "needless", "operational"}
  /\ executed \subseteq Server /\ requests \in 0..MaxRequests

Ended(res) == pc = "idle" /\ result = res

\* A cluster manager takes S_OK for a promise: some server has carried out the request or said
\* that the image is in the wanted state already (lic_vps_reset_req).
OkMeansDone == Ended("S_OK") /\ request \in Ops => answer \in {"executed", "needless"}

\* A server that could carry out the request at its first attempt, and say so.
Capable(s) ==
  IF Configured[s] = "LPAR" THEN mood[s] \in {"well", "needless", "hangup"}
  ELSE mood[s] \in {"well", "needless", "hangup", "vsmserve", "vsmserve_refuses"}

\* What an earlier request may leave on a server: the type VM5, the force option of POWEROFF.
Marked(s) == requests > 1 /\ (server[s].type # Configured[s] \/ server[s].force)

\* A request is given up only when none of the servers that define the image can carry it out:
\* the search goes through all of them, and nothing stands in the way but the marks earlier
\* requests have left (the loop of lic_vps_reset_req, the fallback of lic_vps_reset_req2).
UnlessMarked ==
  Ended("S_OOPS") /\ request \in Ops => \A s \in Has : Capable(s) => Marked(s)

\* The next server is asked only when nothing is known of the one before: of two servers that
\* have carried out a request, the answer of the first was lost.  No image is reset a second time
\* because something after the answer failed (the returns of lic_vps_reset_req2 and the loop of
\* lic_vps_reset_req).
AgainOnlyUnheard ==
  \A i, j \in 1..Len(Order) :
    i < j /\ Order[i] \in executed /\ Order[j] \in executed => mood[Order[i]] \in Mute

\* After a request that returned S_OK the server it used has no session of ours open
\* (label logout of lic_vps_reset_req2).
OkLeavesNoSession == Ended("S_OK") /\ request \in Ops => ~server[Here].session

\* What a server object has open, and what it has lost.
Descriptors(r) == r.lost + (IF r.session THEN 1 ELSE 0)

\* Sessions and sockets are lost, but no request loses more than two with a server, one for each
\* login (the error returns of lic_vps_reset_req2, lic_vps_status).
LossIsBounded == \A s \in Server : Descriptors(server[s]) <= 2 * requests

\* The type invariant, together with OkLeavesNoSession and LossIsBounded: the record of a server
\* (struct snipl_server) never takes a state the plugin does not foresee, however many requests
\* there were, and a request that returned S_OK has closed its session.
IInv == TypeOK /\ OkLeavesNoSession /\ LossIsBounded

NeverAnswered == pc = "wait" /\ mood[Here] = "silent"

\* Every request returns, unless the process dies or an SE never answers: the wait for its
\* acknowledgement has no limit (the loops over the servers; command_handling).
EveryRequestReturns ==
  pc \notin {"idle", "aborted"} ~> (pc \in {"idle", "aborted"} \/ NeverAnswered)

\* The status request says S_OK exactly when there is a server that could be logged in to
\* ("search for one operational server", lic_vps_status).
Operational(s) ==
  IF Configured[s] = "LPAR"
  THEN mood[s] \in Serving \/ (mood[s] = "moved" /\ server[s].known)
  ELSE mood[s] \in Serving \cup Vsmserve

StatusIsRight ==
  request = "status" =>
    /\ Ended("S_OK") => \E s \in Server : Operational(s)
    /\ Ended("S_OOPS") => \A s \in Server : Operational(s) => Marked(s)

\* server->problem points to a message or nowhere: nothing reads or frees freed memory.
MessageIsLive == \A s \in Server : ~server[s].corrupt

\* A request is carried out by one server only.
DoneOnce == \A s, t \in executed : s = t

\* An LPAR that the SE does not have is reported as such, never used.
MissingLparIsReported == pc \in {"operate", "wait"} => mood[Here] # "moved"

\* The status request answers, whatever libraries are installed; it does not run into a library
\* that has been unloaded (lic_vps_status ignores what snipl_prepare returns).
StatusAnswers == request = "status" /\ pc = "aborted" => \E s \in Server : server[s].corrupt
=============================================================================
