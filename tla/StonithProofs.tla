--------------------------- MODULE StonithProofs ---------------------------
(***************************************************************************)
(* Proofs about Stonith, for every number of servers, every configuration, *)
(* every number of requests and every mood but that of the impostor.       *)
(***************************************************************************)
EXTENDS Stonith, TLAPS

NoImpostor == "impostor" \notin Mood

\* A server object as it is when no certificate was ever wrong.
Sound == {r \in ServerState : r.problem_class # "CERTIFICATE_ERROR"}

Searching == {"find", "prepare", "login", "fallback", "operate", "wait"}
AtServer == {"prepare", "login", "fallback", "operate", "wait", "logout", "status_fallback"}

\* While the search goes on, only servers whose answer was lost have carried out the request.
Carried ==
  /\ pc \in {"status", "status_fallback"} => executed = {}
  /\ \A i \in 1..Len(Order) : Order[i] \in executed =>
       i <= at /\ (mood[Order[i]] \in Mute \/ (i = at /\ pc \notin Searching))

\* Nothing that is heard of is carried out before the control point logout, and logout is reached
\* only when the request was carried out or needless: this is what makes the promises inductive.
SInv ==
  /\ TypeOK
  /\ server \in [Server -> Sound]
  /\ pc \in Searching => request \in Ops
  /\ pc = "logout" => request \in Ops /\ answer \in {"executed", "needless"}
  /\ pc \in AtServer => at \in 1..Len(Order)
  /\ pc \in {"status", "status_fallback"} => request = "status"
  /\ Carried /\ OkMeansDone /\ OkLeavesNoSession

(***************************************************************************)
(* What the helpers do to a sound server object.                           *)
(***************************************************************************)
LEMMA MessagesSound ==
  ASSUME NEW r \in Sound
  PROVE  CreateMsg(r) \in Sound /\ Message(r) \in Sound /\ Fatal(r) \in Sound
<1>1. CreateMsg(r) \in Sound
  BY DEF Sound, ServerState, CreateMsg
<1>2. Message(r) \in Sound
  BY DEF Sound, ServerState, Message
<1>3. Fatal(r) \in Sound
  BY <1>1 DEF Sound, ServerState, Fatal
<1> QED
  BY <1>1, <1>2, <1>3

LEMMA SessionSound ==
  ASSUME NEW r \in Sound, NEW b \in BOOLEAN
  PROVE  [r EXCEPT !.session = b] \in Sound /\ [r EXCEPT !.session = b].session = b
  BY DEF Sound, ServerState

LEMMA LostSound ==
  ASSUME NEW r \in Sound
  PROVE  [r EXCEPT !.lost = @ + 1] \in Sound
<1> DEFINE n == r.lost + 1
<1>1. r.lost \in Nat
  BY DEF Sound, ServerState
<1>2. n \in Nat
  BY <1>1
<1> HIDE DEF n
<1>3. [r EXCEPT !.lost = n] \in Sound
  BY <1>2 DEF Sound, ServerState
<1> QED
  BY <1>3 DEF n

LEMMA NewPrivSound ==
  ASSUME NEW r \in Sound
  PROVE  NewPriv(r) \in Sound
<1> DEFINE n == IF r.session THEN r.lost + 1 ELSE r.lost
<1>1. r.lost \in Nat
  BY DEF Sound, ServerState
<1>2. n \in Nat
  BY <1>1
<1> HIDE DEF n
<1>3. [r EXCEPT !.session = FALSE, !.lost = n] \in Sound
  BY <1>2 DEF Sound, ServerState
<1> QED
  BY <1>3 DEF NewPriv, n

LEMMA PreparedSound ==
  ASSUME NEW r \in Sound
  PROVE  Prepared(r) \in Sound
<1>1. CASE r.type \in Installed
  BY <1>1, NewPrivSound DEF Sound, ServerState, Prepared
<1>2. CASE r.type \notin Installed
  BY <1>2, MessagesSound DEF Sound, ServerState, Prepared
<1> QED
  BY <1>1, <1>2

LEMMA CheckedSound ==
  ASSUME NEW r \in Sound
  PROVE  Checked(r) \in Sound
<1> DEFINE q == IF r.ops \in {"VM", "LPAR"} THEN NewPriv(r) ELSE r
<1>1. q \in Sound
  BY NewPrivSound
<1>2. Fatal(q) \in Sound /\ [q EXCEPT !.problem_class = "OK"] \in Sound
  BY <1>1, MessagesSound DEF Sound, ServerState
<1> HIDE DEF q
<1>3. Checked(r) \in {r, q, Fatal(q), [q EXCEPT !.problem_class = "OK"]}
  BY DEF Checked, q
<1> QED
  BY <1>1, <1>2, <1>3

LEMMA LoggedInSound ==
  ASSUME NoImpostor, mood \in [Server -> Mood], NEW s \in Server, NEW r \in Sound
  PROVE  LoggedIn(s, r) \in Sound
<1>1. mood[s] # "impostor"
  BY DEF NoImpostor
<1>2. Fatal(r) \in Sound /\ CreateMsg(r) \in Sound
  BY MessagesSound
<1>3. /\ [Fatal(r) EXCEPT !.lost = @ + 1] \in Sound
      /\ [Fatal(r) EXCEPT !.session = TRUE] \in Sound
      /\ [CreateMsg(r) EXCEPT !.session = TRUE] \in Sound
  BY <1>2, SessionSound, LostSound
<1>4. /\ [r EXCEPT !.problem = "text", !.problem_class = "FATAL"] \in Sound
      /\ [r EXCEPT !.session = TRUE, !.known = @ \/ r.ops = "LPAR"] \in Sound
  BY DEF Sound, ServerState
<1>5. LoggedIn(s, r) \in {r, Fatal(r), [Fatal(r) EXCEPT !.lost = @ + 1], [Fatal(r) EXCEPT !.session = TRUE],
        [CreateMsg(r) EXCEPT !.session = TRUE], [r EXCEPT !.problem = "text", !.problem_class = "FATAL"],
        [r EXCEPT !.session = TRUE, !.known = @ \/ r.ops = "LPAR"]}
  BY <1>1 DEF LoggedIn
<1> QED
  BY <1>2, <1>3, <1>4, <1>5

\* After a logout nothing refers to an open session.
LEMMA LoggedOutSound ==
  ASSUME NEW s \in Server, NEW r \in Sound
  PROVE  LoggedOut(s, r) \in Sound /\ LoggedOut(s, r).session = FALSE
<1>1. /\ [Fatal(r) EXCEPT !.session = FALSE] \in Sound
      /\ [Fatal(r) EXCEPT !.session = FALSE].session = FALSE
  BY MessagesSound, SessionSound
<1>2. /\ [r EXCEPT !.session = FALSE] \in Sound
      /\ [r EXCEPT !.session = FALSE].session = FALSE
  BY SessionSound
<1> QED
  BY <1>1, <1>2 DEF LoggedOut

LEMMA AskedSound ==
  ASSUME NEW r \in Sound, request \in Ops
  PROVE  Asked(r) \in Sound
  BY StonithAssumption DEF Asked, Sound, ServerState

(***************************************************************************)
(* One lemma per control point.                                            *)
(***************************************************************************)

\* The places of the servers.
LEMMA Servers ==
  ASSUME NEW i \in 1..Len(Order)
  PROVE  Order[i] \in Server /\ \A j \in 1..Len(Order) : Order[i] = Order[j] => i = j
<1>1. Order \in Seq(Server)
  BY StonithAssumption
<1> QED
  BY <1>1, OrderAssumption

\* A step inside the search: a server that carries something out is mute.
LEMMA SearchStep ==
  ASSUME SInv, pc' \in Searching \cup {"aborted"}, server' \in [Server -> Sound],
         at' \in 0..Len(Order), at <= at', pc' \in AtServer => at' \in 1..Len(Order), pc \in Searching,
         answer' = answer \/ answer' = "needless",
         UNCHANGED <<mood, request, result, requests>>,
         \/ UNCHANGED executed
         \/ at \in 1..Len(Order) /\ mood[Here] \in Mute /\ executed' = executed \cup {Here}
  PROVE  SInv'
<1>1. at \in 0..Len(Order) /\ Len(Order) \in Nat
  BY StonithAssumption DEF SInv, TypeOK
<1>2. executed' \subseteq Server
  BY Servers DEF SInv, TypeOK, Here
<1>3. TypeOK'
  BY <1>2 DEF SInv, TypeOK, Searching, Sound
<1>4. ASSUME NEW i \in 1..Len(Order), Order[i] \in executed'
      PROVE  i <= at' /\ mood[Order[i]] \in Mute
  <2>1. CASE Order[i] \in executed
    BY <1>1, <2>1 DEF SInv, Carried
  <2>2. CASE Order[i] \notin executed
    <3>1. at \in 1..Len(Order) /\ mood[Here] \in Mute /\ Order[i] = Here
      BY <1>4, <2>2
    <3>2. i = at
      BY <3>1, Servers DEF Here
    <3> QED
      BY <3>1, <3>2
  <2> QED
    BY <2>1, <2>2
<1>5. Carried'
  BY <1>4 DEF Carried, Searching
<1> QED
  BY <1>3, <1>5 DEF SInv, OkMeansDone, OkLeavesNoSession, Ended, Searching, AtServer

\* A new record for the server the plugin has come to.
LEMMA HereSound ==
  ASSUME SInv, pc \in AtServer
  PROVE  /\ Here \in Server /\ server[Here] \in Sound
         /\ \A r \in Sound : Note(Here, r) => server' \in [Server -> Sound]
<1>1. at \in 1..Len(Order) /\ Order \in Seq(Server)
  BY StonithAssumption DEF SInv
<1>2. Here \in Server
  BY <1>1 DEF Here
<1> QED
  BY <1>2 DEF SInv, Note

LEMMA FindStep ==
  ASSUME SInv, FindServer PROVE SInv'
<1>1. at' \in 1..Len(Order) /\ at <= at'
  <2>1. at \in 0..Len(Order) /\ at' \in at + 1..Len(Order)
    BY DEF FindServer, Further, SInv, TypeOK
  <2>2. Len(Order) \in Nat
    BY StonithAssumption
  <2> QED
    BY <2>1, <2>2
<1>2. server' \in [Server -> Sound] /\ at' \in 0..Len(Order)
  BY <1>1 DEF FindServer, SInv
<1> QED
  BY <1>1, <1>2, SearchStep DEF FindServer, Searching

LEMMA PrepareStep ==
  ASSUME SInv, Prepare PROVE SInv'
<1> DEFINE r == Prepared(server[Here])
<1> DEFINE q == Checked(r)
<1>1. pc = "prepare" /\ pc' \in {"find", "login"}
  BY DEF Prepare
<1>2. Here \in Server /\ server[Here] \in Sound
  BY <1>1, HereSound DEF AtServer
<1>3. r \in Sound /\ q \in Sound
  BY <1>2, PreparedSound, CheckedSound
<1>4. Message(r) \in Sound /\ Message(q) \in Sound
  BY <1>3, MessagesSound
<1>5. Note(Here, Message(r)) \/ Note(Here, Message(q)) \/ Note(Here, q)
  BY DEF Prepare
<1>6. server' \in [Server -> Sound]
  BY <1>1, <1>3, <1>4, <1>5, HereSound DEF AtServer
<1> QED
  BY <1>1, <1>6, SearchStep DEF Prepare, Unwatched, SInv, TypeOK, Searching, AtServer

LEMMA LoginStep ==
  ASSUME NoImpostor, SInv, Login PROVE SInv'
<1> DEFINE r == server[Here]
<1> DEFINE q == LoggedIn(Here, r)
<1>1. pc = "login"
  BY DEF Login
<1>2. Here \in Server /\ r \in Sound
  BY <1>1, HereSound DEF AtServer
<1>3. q \in Sound /\ Message(q) \in Sound
  BY <1>2, LoggedInSound, MessagesSound DEF SInv, TypeOK
<1>4. q.problem_class # "CERTIFICATE_ERROR"
  BY <1>3 DEF Sound
<1>5. (Note(Here, q) \/ Note(Here, Message(q))) /\ pc' \in {"operate", "fallback", "find"}
  BY <1>4 DEF Login
<1>6. server' \in [Server -> Sound]
  BY <1>1, <1>3, <1>5, HereSound DEF AtServer
<1> QED
  BY <1>1, <1>5, <1>6, SearchStep DEF Login, Unwatched, SInv, TypeOK, Searching, AtServer

LEMMA FallbackStep ==
  ASSUME NoImpostor, SInv, Fallback PROVE SInv'
<1> DEFINE f == [LoggedOut(Here, server[Here]) EXCEPT !.type = "VM5"]
<1> DEFINE r == Prepared(f)
<1> DEFINE q == Checked(r)
<1>1. pc = "fallback"
  BY DEF Fallback
<1>2. Here \in Server /\ server[Here] \in Sound
  BY <1>1, HereSound DEF AtServer
<1>3. f \in Sound
  <2>1. LoggedOut(Here, server[Here]) \in Sound
    BY <1>2, LoggedOutSound
  <2> QED
    BY <2>1 DEF Sound, ServerState
<1>4. r \in Sound /\ q \in Sound
  BY <1>3, PreparedSound, CheckedSound
<1>5. LoggedIn(Here, q) \in Sound
  BY <1>2, <1>4, LoggedInSound DEF SInv, TypeOK
<1>6. Message(r) \in Sound /\ Message(LoggedIn(Here, q)) \in Sound
  BY <1>4, <1>5, MessagesSound
<1>7. /\ Note(Here, Message(r)) \/ Note(Here, Message(LoggedIn(Here, q))) \/ Note(Here, LoggedIn(Here, q))
      /\ pc' \in {"find", "operate"}
  BY DEF Fallback
<1>8. server' \in [Server -> Sound]
  BY <1>1, <1>5, <1>6, <1>7, HereSound DEF AtServer
<1> QED
  BY <1>1, <1>7, <1>8, SearchStep DEF Fallback, Unwatched, SInv, TypeOK, Searching, AtServer

\* The call about the operation returns: to the search, or to the label logout.
LEMMA ReturnedStep ==
  ASSUME SInv, pc \in {"operate", "wait"}, Returned PROVE SInv'
<1> DEFINE r == Asked(server[Here])
<1> DEFINE d == [CreateMsg(r) EXCEPT !.problem_class = "OK"]
<1>1. at \in 1..Len(Order) /\ at \in 0..Len(Order) /\ Len(Order) \in Nat
  BY StonithAssumption DEF SInv, AtServer
<1>2. Here \in Server /\ server[Here] \in Sound /\ request \in Ops
  BY HereSound DEF SInv, AtServer, Searching
<1>3. r \in Sound
  BY <1>2, AskedSound
<1>4. Fatal(r) \in Sound /\ Message(Fatal(r)) \in Sound /\ CreateMsg(r) \in Sound
  BY <1>3, MessagesSound
<1>5. d \in Sound
  BY <1>4 DEF Sound, ServerState
<1>6. Note(Here, Fatal(r)) \/ Note(Here, Message(Fatal(r))) \/ Note(Here, d)
  BY DEF Returned
<1>7. server' \in [Server -> Sound]
  BY <1>4, <1>5, <1>6, HereSound DEF AtServer
<1>8. /\ UNCHANGED <<mood, request, at, result, requests>>
      /\ executed' = executed \/ executed' = executed \cup {Here}
  BY DEF Returned
<1>9. CASE pc' = "find"
  <2>1. /\ UNCHANGED executed \/ (mood[Here] \in Mute /\ executed' = executed \cup {Here})
        /\ answer' = answer \/ answer' = "needless"
    BY <1>9 DEF Returned
  <2> QED
    BY <1>1, <1>7, <1>8, <1>9, <2>1, SearchStep DEF Searching, AtServer
<1>10. CASE pc' = "logout"
  <2>1. answer' \in {"executed", "needless"}
    BY <1>10 DEF Returned, Ignored
  <2>2. executed' \subseteq Server
    BY <1>2, <1>8 DEF SInv, TypeOK
  <2>3. TypeOK'
    BY <1>7, <1>8, <1>10, <2>1, <2>2 DEF SInv, TypeOK, Sound
  <2>4. ASSUME NEW i \in 1..Len(Order), Order[i] \in executed'
        PROVE  i <= at' /\ (mood'[Order[i]] \in Mute \/ i = at')
    <3>1. CASE Order[i] \in executed
      BY <1>8, <3>1 DEF SInv, Carried, Searching
    <3>2. CASE Order[i] = Here
      BY <1>1, <1>8, <3>2, Servers DEF Here
    <3> QED
      BY <1>8, <2>4, <3>1, <3>2
  <2>5. Carried'
    BY <1>10, <2>4 DEF Carried, Searching
  <2> QED
    BY <1>1, <1>2, <1>7, <1>8, <1>10, <2>1, <2>3, <2>5
    DEF SInv, OkMeansDone, OkLeavesNoSession, Ended, Searching, AtServer
<1> QED
  BY <1>9, <1>10 DEF Returned

LEMMA OperateStep ==
  ASSUME SInv, Operate \/ Await PROVE SInv'
  BY ReturnedStep DEF Operate, Await

LEMMA SendStep ==
  ASSUME SInv, SendCommand PROVE SInv'
<1>1. pc = "operate" /\ pc' = "wait"
  BY DEF SendCommand
<1>2. Asked(server[Here]) \in Sound
  BY <1>1, HereSound, AskedSound DEF SInv, AtServer, Searching
<1>3. server' \in [Server -> Sound]
  BY <1>1, <1>2, HereSound DEF SendCommand, AtServer
<1>4. at \in 1..Len(Order) /\ at \in 0..Len(Order)
  BY <1>1 DEF SInv, TypeOK, AtServer
<1> QED
  BY <1>1, <1>3, <1>4, SearchStep DEF SendCommand, Unwatched, Searching, AtServer

LEMMA MissingStep ==
  ASSUME SInv, OperateOnMissing PROVE SInv'
<1>1. pc = "operate" /\ pc' = "aborted"
  BY DEF OperateOnMissing
<1>2. Asked(server[Here]) \in Sound
  BY <1>1, HereSound, AskedSound DEF SInv, AtServer, Searching
<1>3. server' \in [Server -> Sound]
  BY <1>1, <1>2, HereSound DEF OperateOnMissing, AtServer
<1> QED
  BY <1>1, <1>3, SearchStep DEF OperateOnMissing, SInv, TypeOK, Searching, AtServer

LEMMA NoServerStep ==
  ASSUME SInv, NoServer PROVE SInv'
<1>1. TypeOK'
  BY DEF SInv, TypeOK, NoServer
<1> QED
  BY <1>1 DEF SInv, NoServer, Carried, OkMeansDone, OkLeavesNoSession, Ended, Searching, AtServer

LEMMA LogoutStep ==
  ASSUME SInv, Logout PROVE SInv'
<1> DEFINE r == server[Here]
<1> DEFINE q == IF r.problem_class = "CERTIFICATE_ERROR" THEN Message(r) ELSE r
<1> DEFINE f == IF q.problem = "null" THEN q ELSE [q EXCEPT !.problem = "freed"]
<1> DEFINE g == LoggedOut(Here, f)
<1>1. pc = "logout" /\ pc' = "idle" /\ result' = "S_OK"
  BY DEF Logout
<1>2. Here \in Server /\ r \in Sound /\ request \in Ops /\ answer \in {"executed", "needless"}
  BY <1>1, HereSound DEF SInv, AtServer
<1>3. q \in Sound
  BY <1>2, MessagesSound
<1>4. f \in Sound
  BY <1>3 DEF Sound, ServerState
<1> HIDE DEF f
<1>5. g \in Sound /\ g.session = FALSE
  BY <1>2, <1>4, LoggedOutSound
<1>6. Message(g) \in Sound /\ Message(g).session = FALSE
  <2> HIDE DEF g
  <2>1. Message(g) \in Sound
    BY <1>5, MessagesSound
  <2>2. g \in ServerState /\ g.session = FALSE
    BY <1>5 DEF Sound
  <2>3. Message(g).session = g.session
    BY <2>2 DEF Message, ServerState
  <2> QED
    BY <2>1, <2>2, <2>3
<1>7. Note(Here, Message(g)) \/ Note(Here, g)
  BY DEF Logout, f
<1>8. server' \in [Server -> Sound] /\ server'[Here].session = FALSE
  <2>1. server \in [Server -> Sound]
    BY DEF SInv
  <2> QED
    BY <1>2, <1>5, <1>6, <1>7, <2>1 DEF Note
<1>9. Here' = Here
  BY DEF Logout, Here
<1>10. TypeOK'
  BY <1>8 DEF Logout, SInv, TypeOK, Sound
<1> QED
  BY <1>1, <1>2, <1>8, <1>9, <1>10
  DEF Logout, SInv, Carried, OkMeansDone, OkLeavesNoSession, Ended, Searching, AtServer

LEMMA BeginStep ==
  ASSUME SInv, NEW r \in Ops \cup {"status"},
         Begin(r, 0, IF r = "status" THEN "status" ELSE "find")
  PROVE  SInv'
<1>1. requests' \in 0..MaxRequests
  BY StonithAssumption DEF SInv, TypeOK, Begin
<1>2. at' = 0 /\ executed' = {} /\ result' = "none" /\ answer' = "none" /\ 0 \in 0..Len(Order)
  BY StonithAssumption DEF Begin
<1>3. TypeOK'
  BY <1>1, <1>2 DEF SInv, TypeOK, Begin
<1> QED
  BY <1>2, <1>3, StonithAssumption DEF SInv, Begin, Carried, OkMeansDone, OkLeavesNoSession, Ended, Searching, AtServer

(***************************************************************************)
(* The status request.                                                     *)
(***************************************************************************)
LEMMA TriedSound ==
  ASSUME NoImpostor, SInv, NEW s \in Server, NEW r \in Sound
  PROVE  Tried(s, r).server \in Sound
<1> DEFINE q == IF Objects(r) THEN Checked(r) ELSE LoggedIn(s, Checked(r))
<1>1. q \in Sound
  BY CheckedSound, LoggedInSound DEF SInv, TypeOK
<1>2. LoggedOut(s, q) \in Sound
  BY <1>1, LoggedOutSound
<1> QED
  BY <1>2 DEF Tried

\* A step of the status request that does not end it.
LEMMA StatusStep ==
  ASSUME SInv, pc \in {"status", "status_fallback"}, pc' \in {"status", "status_fallback", "aborted"},
         server' \in [Server -> Sound], at' \in 0..Len(Order), pc' = "status_fallback" => at' \in 1..Len(Order),
         answer' \in {answer, "operational", "none"},
         UNCHANGED <<mood, request, result, executed, requests>>
  PROVE  SInv'
<1>1. TypeOK'
  BY DEF SInv, TypeOK, Sound
<1> QED
  BY <1>1 DEF SInv, Carried, OkMeansDone, OkLeavesNoSession, Ended, Searching, AtServer

LEMMA StatusServerStep ==
  ASSUME NoImpostor, SInv, StatusServer PROVE SInv'
<1> DEFINE s == Order[at + 1]
<1> DEFINE r == Prepared(server[s])
<1> DEFINE t == Tried(s, r)
<1>1. at' = at + 1 /\ at' \in 1..Len(Order) /\ Len(Order) \in Nat
  BY StonithAssumption DEF StatusServer, SInv, TypeOK
<1>2. s \in Server
  BY <1>1, StonithAssumption
<1>3. r \in Sound
  BY <1>2, PreparedSound DEF SInv
<1>4. t.server \in Sound
  BY <1>2, <1>3, TriedSound
<1>5. /\ Note(s, r) \/ Note(s, t.server)
      /\ pc' \in {"status", "status_fallback", "aborted"}
      /\ answer' \in {answer, "operational", "none"}
  BY DEF StatusServer, Verdict
<1>6. server' \in [Server -> Sound]
  BY <1>2, <1>3, <1>4, <1>5 DEF Note, SInv
<1> QED
  BY <1>1, <1>5, <1>6, StatusStep DEF StatusServer

LEMMA StatusFallbackStep ==
  ASSUME NoImpostor, SInv, StatusFallback PROVE SInv'
<1> DEFINE r == Prepared([server[Here] EXCEPT !.type = "VM5"])
<1> DEFINE t == Tried(Here, r)
<1>1. pc = "status_fallback" /\ at' = at /\ at \in 0..Len(Order)
  BY DEF StatusFallback, SInv, TypeOK
<1>2. Here \in Server /\ server[Here] \in Sound
  BY <1>1, HereSound DEF AtServer
<1>3. r \in Sound
  <2>1. [server[Here] EXCEPT !.type = "VM5"] \in Sound
    BY <1>2 DEF Sound, ServerState
  <2> QED
    BY <2>1, PreparedSound
<1>4. t.server \in Sound
  BY <1>2, <1>3, TriedSound
<1>5. /\ Note(Here, r) \/ Note(Here, t.server)
      /\ pc' \in {"status", "aborted"}
      /\ answer' \in {answer, "operational", "none"}
  BY DEF StatusFallback, Verdict
<1>6. server' \in [Server -> Sound]
  BY <1>1, <1>3, <1>4, <1>5, HereSound DEF AtServer
<1> QED
  BY <1>1, <1>5, <1>6, StatusStep DEF StatusFallback

LEMMA StatusEndStep ==
  ASSUME SInv, StatusEnd PROVE SInv'
<1>1. request = "status" /\ request \notin Ops
  BY StonithAssumption DEF StatusEnd, SInv
<1>2. TypeOK'
  BY DEF StatusEnd, SInv, TypeOK
<1> QED
  BY <1>1, <1>2 DEF StatusEnd, SInv, Carried, OkMeansDone, OkLeavesNoSession, Ended, Searching, AtServer

(***************************************************************************)
(* The invariant is inductive.                                             *)
(***************************************************************************)
LEMMA Initially ==
  ASSUME Init PROVE SInv
<1>1. server \in [Server -> Sound]
  BY StonithAssumption DEF Init, Sound, ServerState
<1>2. 0 \in 0..Len(Order) /\ 0 \in 0..MaxRequests
  BY StonithAssumption
<1>3. TypeOK
  BY <1>1, <1>2 DEF Init, TypeOK, Sound
<1> QED
  BY <1>1, <1>3 DEF Init, SInv, Carried, OkMeansDone, OkLeavesNoSession, Ended, Searching, AtServer

LEMMA Step ==
  ASSUME NoImpostor, SInv, [Next]_vars PROVE SInv'
<1>1. CASE \E op \in Ops : Request(op)
  <2>1. PICK op \in Ops : Begin(op, 0, "find")
    BY <1>1 DEF Request
  <2>2. op # "status"
    BY StonithAssumption
  <2> QED
    BY <2>1, <2>2, BeginStep
<1>2. CASE Status
  BY <1>2, BeginStep DEF Status
<1>3. CASE ResetReq
  BY <1>3, FindStep, NoServerStep, PrepareStep, LoginStep, FallbackStep, OperateStep, SendStep, MissingStep,
     LogoutStep
  DEF ResetReq
<1>4. CASE StatusServer \/ StatusFallback \/ StatusEnd
  BY <1>4, StatusServerStep, StatusFallbackStep, StatusEndStep
<1>5. CASE Abort
  <2>1. TypeOK'
    BY <1>5 DEF Abort, SInv, TypeOK
  <2> QED
    BY <1>5, <2>1 DEF Abort, SInv, Carried, OkMeansDone, OkLeavesNoSession, Ended, Searching, AtServer
<1>6. CASE UNCHANGED vars
  <2>1. TypeOK'
    BY <1>6 DEF vars, SInv, TypeOK
  <2> QED
    BY <1>6, <2>1 DEF vars, SInv, Carried, OkMeansDone, OkLeavesNoSession, Ended, Searching, AtServer, Here
<1> QED
  BY <1>1, <1>2, <1>3, <1>4, <1>5, <1>6 DEF Next, WaitAgain, Stopped

(***************************************************************************)
(* What it promises.                                                       *)
(***************************************************************************)

\* Whatever the servers, their order and their number, and whatever earlier requests have left
\* behind: S_OK means that the request was carried out or needless (lic_vps_reset_req).
THEOREM FencedMeansDone ==
  ASSUME NoImpostor
  PROVE  Spec => []OkMeansDone
<1>1. SInv => OkMeansDone
  BY DEF SInv
<1> QED
  BY <1>1, Initially, Step, PTL DEF Spec

\* Whatever the servers, and however many define the image: a request is carried out by a second
\* one only when the answer of every one before it that carried it out was lost
\* (lic_vps_reset_req2, lic_vps_reset_req).
THEOREM HeardOnce ==
  ASSUME NoImpostor
  PROVE  Spec => []AgainOnlyUnheard
<1>1. SInv => AgainOnlyUnheard
  <2> SUFFICES ASSUME SInv, NEW i \in 1..Len(Order), NEW j \in 1..Len(Order),
                      i < j, Order[i] \in executed, Order[j] \in executed
               PROVE  mood[Order[i]] \in Mute
    BY DEF AgainOnlyUnheard
  <2>1. j <= at /\ (mood[Order[i]] \in Mute \/ i = at)
    BY DEF SInv, Carried
  <2> QED
    BY <2>1 DEF SInv, TypeOK
<1> QED
  BY <1>1, Initially, Step, PTL DEF Spec

(***************************************************************************)
(* What is lost.                                                           *)
(***************************************************************************)

\* What the request under way may have lost with the i-th server: one descriptor for each login.
Spent(p, a, i) ==
  IF p \notin Searching \cup {"status", "status_fallback"} \/ i < a THEN 2
  ELSE IF i > a \/ p \in {"prepare", "login"} THEN 0
  ELSE IF p \in {"fallback", "status_fallback"} THEN 1
  ELSE 2

Losses == \A i \in 1..Len(Order) : Descriptors(server[Order[i]]) <= 2 * (requests - 1) + Spent(pc, at, i)

Paid == SInv /\ Losses

LEMMA DescriptorsType ==
  ASSUME NEW r \in Sound
  PROVE  Descriptors(r) \in Nat /\ r.lost \in Nat /\ r.session \in BOOLEAN
<1>1. r.lost \in Nat /\ r.session \in BOOLEAN
  BY DEF Sound, ServerState
<1> QED
  BY <1>1 DEF Descriptors

\* Two server objects with the same connection.
Connected(r, q) == q.session = r.session /\ q.lost = r.lost

LEMMA MessagesKeep ==
  ASSUME NEW r \in Sound
  PROVE  Connected(r, CreateMsg(r)) /\ Connected(r, Message(r)) /\ Connected(r, Fatal(r))
<1>1. CreateMsg(r) \in Sound
  BY MessagesSound
<1>2. Connected(r, CreateMsg(r)) /\ Connected(r, Message(r))
  BY DEF Sound, ServerState, CreateMsg, Message, Connected
<1>3. Connected(CreateMsg(r), Fatal(r))
  BY <1>1 DEF Sound, ServerState, Fatal, Connected
<1> QED
  BY <1>2, <1>3 DEF Connected

\* The session that a new priv forgets was one of the descriptors already.
LEMMA NewPrivKeeps ==
  ASSUME NEW r \in Sound
  PROVE  Descriptors(NewPriv(r)) = Descriptors(r)
<1> DEFINE n == IF r.session THEN r.lost + 1 ELSE r.lost
<1>1. NewPriv(r) = [r EXCEPT !.session = FALSE, !.lost = n]
  BY DEF NewPriv
<1>2. r.lost \in Nat /\ r.session \in BOOLEAN
  BY DescriptorsType
<1> HIDE DEF n
<1>3. NewPriv(r).session = FALSE /\ NewPriv(r).lost = n
  BY <1>1 DEF Sound, ServerState
<1> QED
  BY <1>2, <1>3 DEF Descriptors, n

LEMMA PreparedKeeps ==
  ASSUME NEW r \in Sound
  PROVE  Descriptors(Prepared(r)) = Descriptors(r)
<1>1. CASE r.type \in Installed
  <2> DEFINE q == IF r.type = "VM5" THEN NewPriv(r) ELSE r
  <2>1. q \in Sound /\ Descriptors(q) = Descriptors(r)
    BY NewPrivSound, NewPrivKeeps
  <2>2. Prepared(r) = [q EXCEPT !.ops = r.type]
    BY <1>1 DEF Prepared
  <2> HIDE DEF q
  <2>3. Prepared(r).session = q.session /\ Prepared(r).lost = q.lost
    BY <2>1, <2>2 DEF Sound, ServerState
  <2> QED
    BY <2>1, <2>3 DEF Descriptors
<1>2. CASE r.type \notin Installed
  <2> DEFINE q == Fatal(r)
  <2>1. q \in Sound /\ Connected(r, q)
    BY MessagesSound, MessagesKeep
  <2>2. Prepared(r) = [q EXCEPT !.ops = IF @ = "none" THEN @ ELSE "unloaded"]
    BY <1>2 DEF Prepared
  <2> HIDE DEF q
  <2>3. Prepared(r).session = q.session /\ Prepared(r).lost = q.lost
    BY <2>1, <2>2 DEF Sound, ServerState
  <2> QED
    BY <2>1, <2>3 DEF Descriptors, Connected
<1> QED
  BY <1>1, <1>2

LEMMA CheckedKeeps ==
  ASSUME NEW r \in Sound
  PROVE  Descriptors(Checked(r)) = Descriptors(r)
<1> DEFINE q == IF r.ops \in {"VM", "LPAR"} THEN NewPriv(r) ELSE r
<1>1. q \in Sound /\ Descriptors(q) = Descriptors(r)
  BY NewPrivSound, NewPrivKeeps
<1>2. Connected(q, Fatal(q)) /\ Connected(q, [q EXCEPT !.problem_class = "OK"])
  BY <1>1, MessagesKeep DEF Sound, ServerState, Connected
<1> HIDE DEF q
<1>3. Checked(r) \in {r, q, Fatal(q), [q EXCEPT !.problem_class = "OK"]}
  BY DEF Checked, q
<1> QED
  BY <1>1, <1>2, <1>3 DEF Descriptors, Connected

\* A login opens one descriptor at most.
LEMMA LoggedInAdds ==
  ASSUME NoImpostor, mood \in [Server -> Mood], NEW s \in Server, NEW r \in Sound
  PROVE  Descriptors(LoggedIn(s, r)) <= Descriptors(r) + 1
<1>1. mood[s] # "impostor"
  BY DEF NoImpostor
<1>2. /\ Fatal(r) \in Sound /\ CreateMsg(r) \in Sound
      /\ Connected(r, Fatal(r)) /\ Connected(r, CreateMsg(r))
  BY MessagesSound, MessagesKeep
<1>3. r.lost \in Nat /\ r.session \in BOOLEAN
  BY DescriptorsType
<1> DEFINE n == r.lost + 1
<1> DEFINE b == [Fatal(r) EXCEPT !.lost = @ + 1]
<1> DEFINE c == [Fatal(r) EXCEPT !.session = TRUE]
<1> DEFINE d == [r EXCEPT !.problem = "text", !.problem_class = "FATAL"]
<1> DEFINE e == [CreateMsg(r) EXCEPT !.session = TRUE]
<1> DEFINE f == [r EXCEPT !.session = TRUE, !.known = @ \/ r.ops = "LPAR"]
<1>4. LoggedIn(s, r) \in {r, Fatal(r), b, c, d, e, f}
  BY <1>1 DEF LoggedIn
<1>5. b.session = r.session /\ b.lost = n
  <2>1. b = [Fatal(r) EXCEPT !.lost = n]
    BY <1>2 DEF Connected
  <2> HIDE DEF n, b
  <2> QED
    BY <1>2, <2>1 DEF Sound, ServerState, Connected
<1>6. Connected(r, d) /\ c.lost = r.lost /\ e.lost = r.lost /\ f.lost = r.lost
  BY <1>2 DEF Sound, ServerState, Connected
<1>7. c.session = TRUE /\ e.session = TRUE /\ f.session = TRUE
  BY <1>2 DEF Sound, ServerState
<1> HIDE DEF b, c, d, e, f
<1> QED
  BY <1>2, <1>3, <1>4, <1>5, <1>6, <1>7 DEF Descriptors, Connected

LEMMA LoggedOutFrees ==
  ASSUME NEW s \in Server, NEW r \in Sound
  PROVE  Descriptors(LoggedOut(s, r)) <= Descriptors(r)
<1>1. Fatal(r) \in Sound /\ Connected(r, Fatal(r))
  BY MessagesSound, MessagesKeep
<1>2. r.lost \in Nat /\ r.session \in BOOLEAN
  BY DescriptorsType
<1>3. LoggedOut(s, r) \in {[Fatal(r) EXCEPT !.session = FALSE], [r EXCEPT !.session = FALSE]}
  BY DEF LoggedOut
<1>4. LoggedOut(s, r).lost = r.lost /\ LoggedOut(s, r).session = FALSE
  BY <1>1, <1>3 DEF Sound, ServerState, Connected
<1> QED
  BY <1>2, <1>4 DEF Descriptors

LEMMA TriedAdds ==
  ASSUME NoImpostor, mood \in [Server -> Mood], NEW s \in Server, NEW r \in Sound
  PROVE  Descriptors(Tried(s, r).server) <= Descriptors(r) + 1
<1> DEFINE c == Checked(r)
<1> DEFINE q == IF Objects(r) THEN c ELSE LoggedIn(s, c)
<1>1. c \in Sound /\ Descriptors(c) = Descriptors(r) /\ Descriptors(r) \in Nat
  BY CheckedSound, CheckedKeeps, DescriptorsType
<1>2. q \in Sound /\ Descriptors(q) <= Descriptors(r) + 1
  <2> HIDE DEF c
  <2> QED
    BY <1>1, LoggedInSound, LoggedInAdds
<1>3. Tried(s, r).server = LoggedOut(s, q)
  BY DEF Tried
<1> HIDE DEF q
<1>4. Descriptors(LoggedOut(s, q)) <= Descriptors(q) /\ LoggedOut(s, q) \in Sound
  BY <1>2, LoggedOutFrees, LoggedOutSound
<1>5. Descriptors(LoggedOut(s, q)) \in Nat /\ Descriptors(q) \in Nat
  BY <1>2, <1>4, DescriptorsType
<1> QED
  BY <1>1, <1>2, <1>3, <1>4, <1>5

\* A step with the k-th server, whose descriptors stay within n of what they were.
LEMMA LossesStep ==
  ASSUME SInv, Losses, NEW k \in 1..Len(Order), NEW q \in Sound, NEW n \in {0, 1}, Note(Order[k], q),
         Descriptors(q) <= Descriptors(server[Order[k]]) + n, Spent(pc, at, k) + n <= Spent(pc', at', k),
         \A i \in 1..Len(Order) : i # k => Spent(pc, at, i) <= Spent(pc', at', i),
         UNCHANGED requests
  PROVE  Losses'
<1> SUFFICES ASSUME NEW i \in 1..Len(Order)
             PROVE  Descriptors(server'[Order[i]]) <= 2 * (requests - 1) + Spent(pc', at', i)
  BY DEF Losses
<1>1. requests \in Nat /\ Order[i] \in Server /\ Order[k] \in Server /\ server \in [Server -> Sound]
  BY StonithAssumption, Servers DEF SInv, TypeOK
<1>2. Spent(pc, at, i) \in 0..2 /\ Spent(pc', at', i) \in 0..2 /\ Spent(pc, at, k) \in 0..2
  BY DEF Spent
<1>3. Descriptors(server[Order[i]]) <= 2 * (requests - 1) + Spent(pc, at, i) /\ Descriptors(server[Order[i]]) \in Nat
  BY <1>1, DescriptorsType DEF Losses
<1>4. CASE i = k
  <2>1. server'[Order[i]] = q /\ Descriptors(q) \in Nat
    BY <1>1, <1>4, DescriptorsType DEF Note
  <2>2. /\ Descriptors(q) <= Descriptors(server[Order[i]]) + n
        /\ Spent(pc, at, i) + n <= Spent(pc', at', i)
    BY <1>4
  <2> QED
    BY <1>1, <1>2, <1>3, <2>1, <2>2
<1>5. CASE i # k
  <2>1. Order[i] # Order[k]
    BY <1>5, Servers
  <2>2. server'[Order[i]] = server[Order[i]]
    BY <1>1, <2>1 DEF Note
  <2>3. Spent(pc, at, i) <= Spent(pc', at', i)
    BY <1>5
  <2> QED
    BY <1>1, <1>2, <1>3, <2>2, <2>3
<1> QED
  BY <1>4, <1>5

\* A step of a request, with the server it has come to.
LEMMA HereStep ==
  ASSUME SInv, Losses, pc \in AtServer, UNCHANGED <<at, requests>>,
         NEW q \in Sound, NEW n \in {0, 1}, Note(Here, q),
         Descriptors(q) <= Descriptors(server[Here]) + n,
         \/ pc' \notin {"prepare", "login", "fallback", "status_fallback"}
              /\ (n = 0 \/ pc \in {"prepare", "login", "fallback", "status_fallback"})
         \/ n = 0 /\ pc = "prepare" /\ pc' = "login"
         \/ pc = "login" /\ pc' = "fallback",
         pc = "logout" => pc' = "idle"
  PROVE  Losses'
<1>1. at \in 1..Len(Order)
  BY DEF SInv
<1>2. Spent(pc, at, at) + n <= Spent(pc', at', at)
  BY <1>1 DEF Spent, Searching, AtServer
<1>3. ASSUME NEW i \in 1..Len(Order), i # at PROVE Spent(pc, at, i) <= Spent(pc', at', i)
  <2>1. CASE i < at
    BY <1>1, <2>1 DEF Spent
  <2>2. CASE i > at
    <3>1. pc # "logout" => Spent(pc, at, i) = 0
      BY <1>1, <2>2 DEF Spent, Searching, AtServer
    <3>2. pc = "logout" => Spent(pc', at', i) = 2
      BY DEF Spent, Searching
    <3> QED
      BY <3>1, <3>2 DEF Spent
  <2> QED
    BY <1>1, <1>3, <2>1, <2>2
<1>4. Note(Order[at], q) /\ Descriptors(q) <= Descriptors(server[Order[at]]) + n /\ UNCHANGED requests
  BY DEF Here
<1> QED
  BY <1>1, <1>2, <1>3, <1>4, LossesStep

LEMMA PreparePaid ==
  ASSUME Paid, Prepare PROVE Losses'
<1> DEFINE r == Prepared(server[Here])
<1> DEFINE q == Checked(r)
<1>1. SInv /\ Losses /\ pc = "prepare" /\ pc' \in {"find", "login"} /\ UNCHANGED <<at, requests>>
  BY DEF Paid, Prepare, Unwatched
<1>2. Here \in Server /\ server[Here] \in Sound
  BY <1>1, HereSound DEF AtServer
<1>3. r \in Sound /\ Descriptors(r) = Descriptors(server[Here])
  BY <1>2, PreparedSound, PreparedKeeps
<1>4. q \in Sound /\ Descriptors(q) = Descriptors(server[Here])
  BY <1>3, CheckedSound, CheckedKeeps
<1>5. /\ Message(r) \in Sound /\ Message(q) \in Sound
      /\ Descriptors(Message(r)) = Descriptors(server[Here])
      /\ Descriptors(Message(q)) = Descriptors(server[Here])
  BY <1>3, <1>4, MessagesSound, MessagesKeep DEF Connected, Descriptors
<1>6. PICK x \in {Message(r), Message(q), q} : Note(Here, x)
  BY DEF Prepare
<1>7. x \in Sound /\ Descriptors(x) = Descriptors(server[Here]) /\ Descriptors(server[Here]) \in Nat
  BY <1>2, <1>4, <1>5, <1>6, DescriptorsType
<1>8. Descriptors(x) <= Descriptors(server[Here]) + 0
  BY <1>7
<1> QED
  BY <1>1, <1>6, <1>7, <1>8, HereStep DEF AtServer

LEMMA LoginPaid ==
  ASSUME NoImpostor, Paid, Login PROVE Losses'
<1> DEFINE q == LoggedIn(Here, server[Here])
<1>1. /\ SInv /\ Losses /\ pc = "login" /\ UNCHANGED <<at, requests>> /\ mood \in [Server -> Mood]
      /\ pc' \in {"operate", "logout", "fallback", "find"}
  BY DEF Paid, Login, Unwatched, SInv, TypeOK
<1>2. Here \in Server /\ server[Here] \in Sound
  BY <1>1, HereSound DEF AtServer
<1>3. q \in Sound /\ Descriptors(q) <= Descriptors(server[Here]) + 1
  BY <1>1, <1>2, LoggedInSound, LoggedInAdds
<1>4. Message(q) \in Sound /\ Descriptors(Message(q)) = Descriptors(q)
  BY <1>3, MessagesSound, MessagesKeep DEF Connected, Descriptors
<1>5. PICK x \in {q, Message(q)} : Note(Here, x)
  BY DEF Login
<1>6. x \in Sound /\ Descriptors(x) <= Descriptors(server[Here]) + 1
  BY <1>3, <1>4, <1>5
<1> QED
  BY <1>1, <1>5, <1>6, HereStep DEF AtServer

LEMMA FallbackPaid ==
  ASSUME NoImpostor, Paid, Fallback PROVE Losses'
<1> DEFINE o == LoggedOut(Here, server[Here])
<1> DEFINE f == [o EXCEPT !.type = "VM5"]
<1> DEFINE r == Prepared(f)
<1> DEFINE q == Checked(r)
<1> DEFINE l == LoggedIn(Here, q)
<1>1. /\ SInv /\ Losses /\ pc = "fallback" /\ UNCHANGED <<at, requests>> /\ mood \in [Server -> Mood]
      /\ pc' \in {"operate", "find"}
  BY DEF Paid, Fallback, Unwatched, SInv, TypeOK
<1>2. Here \in Server /\ server[Here] \in Sound /\ Descriptors(server[Here]) \in Nat
  BY <1>1, HereSound, DescriptorsType DEF AtServer
<1>3. o \in Sound /\ Descriptors(o) <= Descriptors(server[Here])
  BY <1>2, LoggedOutSound, LoggedOutFrees
<1> HIDE DEF o
<1>4. f \in Sound /\ Connected(o, f)
  BY <1>3 DEF Sound, ServerState, Connected
<1> HIDE DEF f
<1>5. r \in Sound /\ Descriptors(r) = Descriptors(o)
  BY <1>4, PreparedSound, PreparedKeeps DEF Connected, Descriptors
<1> HIDE DEF r
<1>6. q \in Sound /\ Descriptors(q) = Descriptors(o)
  BY <1>5, CheckedSound, CheckedKeeps
<1> HIDE DEF q
<1>7. l \in Sound /\ Descriptors(l) <= Descriptors(o) + 1
  BY <1>1, <1>2, <1>6, LoggedInSound, LoggedInAdds
<1> HIDE DEF l
<1>8. /\ Message(r) \in Sound /\ Descriptors(Message(r)) = Descriptors(o)
      /\ Message(l) \in Sound /\ Descriptors(Message(l)) = Descriptors(l)
  BY <1>5, <1>7, MessagesSound, MessagesKeep DEF Connected, Descriptors
<1>9. PICK x \in {Message(r), Message(l), l} : Note(Here, x)
  BY DEF Fallback, l, q, r, f, o
<1>10. Descriptors(o) \in Nat /\ Descriptors(l) \in Nat
  BY <1>3, <1>7, DescriptorsType
<1>11. x \in Sound /\ Descriptors(x) <= Descriptors(server[Here]) + 1
  BY <1>2, <1>3, <1>7, <1>8, <1>9, <1>10
<1> QED
  BY <1>1, <1>9, <1>11, HereStep DEF AtServer

LEMMA AskedKeeps ==
  ASSUME NEW r \in Sound
  PROVE  Connected(r, Asked(r))
  BY DEF Asked, Sound, ServerState, Connected

LEMMA OperatePaid ==
  ASSUME Paid, Operate \/ SendCommand \/ Await \/ OperateOnMissing PROVE Losses'
<1> DEFINE r == Asked(server[Here])
<1> DEFINE d == [CreateMsg(r) EXCEPT !.problem_class = "OK"]
<1>1. /\ SInv /\ Losses /\ pc \in {"operate", "wait"} /\ UNCHANGED <<at, requests>>
      /\ pc' \in {"find", "logout", "wait", "aborted"}
  BY DEF Paid, Operate, SendCommand, Await, OperateOnMissing, Returned, Unwatched
<1>2. Here \in Server /\ server[Here] \in Sound /\ request \in Ops
  BY <1>1, HereSound DEF SInv, AtServer, Searching
<1>3. r \in Sound /\ Connected(server[Here], r)
  BY <1>2, AskedSound, AskedKeeps
<1>4. /\ Fatal(r) \in Sound /\ Connected(r, Fatal(r))
      /\ CreateMsg(r) \in Sound /\ Connected(r, CreateMsg(r))
  BY <1>3, MessagesSound, MessagesKeep
<1>5. Message(Fatal(r)) \in Sound /\ Connected(Fatal(r), Message(Fatal(r)))
  BY <1>4, MessagesSound, MessagesKeep
<1>6. d \in Sound /\ Connected(CreateMsg(r), d)
  BY <1>4 DEF Sound, ServerState, Connected
<1>7. PICK x \in {r, Fatal(r), Message(Fatal(r)), d} : Note(Here, x)
  BY DEF Operate, SendCommand, Await, OperateOnMissing, Returned
<1> HIDE DEF r, d
<1>8. x \in Sound /\ Connected(server[Here], x)
  BY <1>3, <1>4, <1>5, <1>6, <1>7 DEF Connected
<1>9. Descriptors(server[Here]) \in Nat
  BY <1>2, DescriptorsType
<1>10. Descriptors(x) <= Descriptors(server[Here]) + 0
  BY <1>8, <1>9 DEF Connected, Descriptors
<1> QED
  BY <1>1, <1>7, <1>8, <1>10, HereStep DEF AtServer

LEMMA LogoutPaid ==
  ASSUME Paid, Logout PROVE Losses'
<1> DEFINE r == server[Here]
<1> DEFINE q == IF r.problem_class = "CERTIFICATE_ERROR" THEN Message(r) ELSE r
<1> DEFINE f == IF q.problem = "null" THEN q ELSE [q EXCEPT !.problem = "freed"]
<1> DEFINE g == LoggedOut(Here, f)
<1>1. SInv /\ Losses /\ pc = "logout" /\ pc' = "idle" /\ UNCHANGED <<at, requests>>
  BY DEF Paid, Logout
<1>2. Here \in Server /\ r \in Sound /\ Descriptors(r) \in Nat
  BY <1>1, HereSound, DescriptorsType DEF AtServer
<1>3. q \in Sound /\ Connected(r, q)
  BY <1>2, MessagesSound, MessagesKeep DEF Connected
<1> HIDE DEF q
<1>4. f \in Sound /\ Connected(q, f)
  BY <1>3 DEF Sound, ServerState, Connected
<1> HIDE DEF f
<1>5. g \in Sound /\ Descriptors(g) <= Descriptors(f)
  BY <1>2, <1>4, LoggedOutSound, LoggedOutFrees
<1> HIDE DEF g
<1>6. Message(g) \in Sound /\ Connected(g, Message(g))
  BY <1>5, MessagesSound, MessagesKeep
<1>7. PICK x \in {g, Message(g)} : Note(Here, x)
  BY DEF Logout, g, f, q
<1>8. x \in Sound /\ Descriptors(x) <= Descriptors(r) + 0
  BY <1>2, <1>3, <1>4, <1>5, <1>6, <1>7 DEF Connected, Descriptors
<1> QED
  BY <1>1, <1>7, <1>8, HereStep DEF AtServer

LEMMA StatusPaid ==
  ASSUME NoImpostor, Paid, StatusServer PROVE Losses'
<1> DEFINE s == Order[at + 1]
<1> DEFINE r == Prepared(server[s])
<1> DEFINE t == Tried(s, r)
<1>1. /\ SInv /\ Losses /\ pc = "status" /\ at' = at + 1 /\ at + 1 \in 1..Len(Order) /\ at \in Nat
      /\ mood \in [Server -> Mood] /\ UNCHANGED requests
  BY StonithAssumption DEF Paid, StatusServer, SInv, TypeOK
<1>2. s \in Server /\ server[s] \in Sound
  BY <1>1, Servers DEF SInv
<1>3. r \in Sound /\ Descriptors(r) = Descriptors(server[s]) /\ Descriptors(r) \in Nat
  BY <1>2, PreparedSound, PreparedKeeps, DescriptorsType
<1>4. t.server \in Sound /\ Descriptors(t.server) <= Descriptors(server[s]) + 1
  <2> HIDE DEF r
  <2> QED
    BY <1>1, <1>2, <1>3, TriedSound, TriedAdds
<1>5. pc' \in {"status", "status_fallback", "aborted"} /\ (Note(s, r) \/ Note(s, t.server))
  BY <1>1 DEF StatusServer
<1>6. PICK x : x \in Sound /\ Descriptors(x) <= Descriptors(server[s]) + 1 /\ Note(s, x)
  BY <1>3, <1>4, <1>5
<1>7. Spent(pc, at, at + 1) + 1 <= Spent(pc', at', at + 1)
  BY <1>1, <1>5 DEF Spent, Searching
<1>8. \A i \in 1..Len(Order) : i # at + 1 => Spent(pc, at, i) <= Spent(pc', at', i)
  BY <1>1, <1>5 DEF Spent, Searching
<1> QED
  BY <1>1, <1>6, <1>7, <1>8, LossesStep

LEMMA StatusFallbackPaid ==
  ASSUME NoImpostor, Paid, StatusFallback PROVE Losses'
<1> DEFINE f == [server[Here] EXCEPT !.type = "VM5"]
<1> DEFINE r == Prepared(f)
<1> DEFINE t == Tried(Here, r)
<1>1. /\ SInv /\ Losses /\ pc = "status_fallback" /\ pc' \in {"status", "aborted"}
      /\ mood \in [Server -> Mood] /\ UNCHANGED <<at, requests>>
  BY DEF Paid, StatusFallback, SInv, TypeOK
<1>2. Here \in Server /\ server[Here] \in Sound
  BY <1>1, HereSound DEF AtServer
<1>3. f \in Sound /\ Connected(server[Here], f)
  BY <1>2 DEF Sound, ServerState, Connected
<1> HIDE DEF f
<1>4. r \in Sound /\ Descriptors(r) = Descriptors(server[Here]) /\ Descriptors(r) \in Nat
  BY <1>3, PreparedSound, PreparedKeeps, DescriptorsType DEF Connected, Descriptors
<1> HIDE DEF r
<1>5. t.server \in Sound /\ Descriptors(t.server) <= Descriptors(server[Here]) + 1
  BY <1>1, <1>2, <1>4, TriedSound, TriedAdds
<1>6. Note(Here, r) \/ Note(Here, t.server)
  BY DEF StatusFallback, r, f
<1>7. PICK x : x \in Sound /\ Descriptors(x) <= Descriptors(server[Here]) + 1 /\ Note(Here, x)
  BY <1>4, <1>5, <1>6
<1> QED
  BY <1>1, <1>7, HereStep DEF AtServer

\* A step that leaves the servers alone.
LEMMA QuietPaid ==
  ASSUME Paid, \/ \E r \in Ops \cup {"status"}, p \in {"find", "status"} : Begin(r, 0, p)
               \/ FindServer \/ NoServer \/ StatusEnd \/ Abort \/ UNCHANGED vars
  PROVE  Losses'
<1>1. /\ SInv /\ Losses /\ UNCHANGED server /\ requests \in Nat /\ at \in 0..Len(Order)
      /\ Len(Order) \in Nat
  BY StonithAssumption DEF Paid, SInv, TypeOK, Begin, FindServer, NoServer, StatusEnd, Abort, vars
<1>2. \/ requests' = requests + 1 /\ at' = 0 /\ pc' \in {"find", "status"} /\ pc = "idle"
      \/ UNCHANGED requests /\ pc = "find" /\ pc' = "prepare" /\ at' \in at + 1..Len(Order)
      \/ UNCHANGED <<requests, at>> /\ pc' \in {"idle", "aborted"}
      \/ UNCHANGED <<requests, at, pc>>
  BY DEF Begin, FindServer, Further, NoServer, StatusEnd, Abort, vars
<1> SUFFICES ASSUME NEW i \in 1..Len(Order)
             PROVE  Descriptors(server[Order[i]]) <= 2 * (requests' - 1) + Spent(pc', at', i)
  BY <1>1 DEF Losses
<1>3. /\ Descriptors(server[Order[i]]) <= 2 * (requests - 1) + Spent(pc, at, i)
      /\ Descriptors(server[Order[i]]) \in Nat
  BY <1>1, Servers, DescriptorsType DEF Losses, SInv
<1>4. Spent(pc, at, i) \in 0..2 /\ Spent(pc', at', i) \in 0..2
  BY DEF Spent
<1>5. CASE requests' = requests + 1 /\ at' = 0 /\ pc' \in {"find", "status"}
  BY <1>1, <1>3, <1>4, <1>5
<1>6. CASE UNCHANGED requests
  <2>1. Spent(pc, at, i) <= Spent(pc', at', i)
    BY <1>1, <1>2, <1>6 DEF Spent, Searching
  <2> QED
    BY <1>1, <1>3, <1>4, <1>6, <2>1
<1> QED
  BY <1>2, <1>5, <1>6

LEMMA PaidStep ==
  ASSUME NoImpostor, Paid, [Next]_vars PROVE Paid'
<1>1. SInv'
  BY Step DEF Paid
<1> SUFFICES Losses'
  BY <1>1 DEF Paid
<1>2. CASE \E op \in Ops : Request(op)
  <2>1. PICK op \in Ops : Begin(op, 0, "find")
    BY <1>2 DEF Request
  <2> QED
    BY <2>1, QuietPaid
<1>3. CASE Status
  <2>1. Begin("status", 0, "status")
    BY <1>3 DEF Status
  <2> QED
    BY <2>1, QuietPaid
<1>4. CASE FindServer \/ NoServer \/ StatusEnd \/ Abort \/ UNCHANGED vars
  BY <1>4, QuietPaid
<1>5. CASE Prepare \/ Login \/ Fallback \/ Logout
  BY <1>5, PreparePaid, LoginPaid, FallbackPaid, LogoutPaid
<1>6. CASE Operate \/ SendCommand \/ Await \/ OperateOnMissing
  BY <1>6, OperatePaid
<1>7. CASE StatusServer \/ StatusFallback
  BY <1>7, StatusPaid, StatusFallbackPaid
<1> QED
  BY <1>2, <1>3, <1>4, <1>5, <1>6, <1>7 DEF Next, ResetReq, WaitAgain, Stopped

LEMMA PaidInitially ==
  ASSUME Init PROVE Paid
<1>1. SInv /\ requests = 0 /\ pc = "idle"
  BY Initially DEF Init
<1>2. ASSUME NEW s \in Server PROVE Descriptors(server[s]) = 0
  <2>1. server[s].lost = 0 /\ server[s].session = FALSE
    BY DEF Init
  <2> QED
    BY <2>1 DEF Descriptors
<1>3. \A i \in 1..Len(Order) : Spent(pc, at, i) = 2
  BY <1>1 DEF Spent, Searching
<1> QED
  BY <1>1, <1>2, <1>3, Servers DEF Paid, Losses

\* The server objects keep their types, S_OK leaves no session with the server that was used, and
\* no sequence of requests, however they fail, loses more than two descriptors for each of them
\* with a server (lic_vps_reset_req2, lic_vps_status).
THEOREM NoSessionLeft ==
  ASSUME NoImpostor
  PROVE  Spec => []IInv
<1>1. Paid => IInv
  <2> SUFFICES ASSUME Paid, NEW s \in Server PROVE Descriptors(server[s]) <= 2 * requests
    BY DEF Paid, SInv, IInv, LossIsBounded
  <2>1. PICK i \in 1..Len(Order) : Order[i] = s
    BY OrderAssumption
  <2>2. Descriptors(server[s]) <= 2 * (requests - 1) + Spent(pc, at, i) /\ Descriptors(server[s]) \in Nat
    BY <2>1, DescriptorsType DEF Paid, Losses, SInv
  <2>3. Spent(pc, at, i) \in 0..2 /\ requests \in Nat
    BY StonithAssumption DEF Spent, Paid, SInv, TypeOK
  <2> QED
    BY <2>2, <2>3
<1> QED
  BY <1>1, PaidInitially, PaidStep, PTL DEF Spec

(***************************************************************************)
(* What a request that is given up says of the servers.                    *)
(***************************************************************************)

AllInstalled == {"VM", "VM5", "LPAR"} \subseteq Installed

\* No server refuses connections, or SSL shows it.
RefusalsShow == Mood \cap Refusing = {} \/ \A s \in Server : Configured[s] = "VM" => s \in Encrypted

\* The fallback is what changes a type.
Kinds == \A s \in Server : \/ server[s].type = Configured[s]
                           \/ server[s].type = "VM5" /\ Configured[s] = "VM"

Moods == \A s \in Server : mood[s] \in MoodsOf(s)

Clean(s) == server[s].type = Configured[s] /\ ~server[s].force

\* Before the first request, and during it on the servers it has not come to, nothing is left over.
FirstRequest ==
  /\ requests = 0 => pc \in {"idle", "aborted"} /\ \A s \in Server : Clean(s)
  /\ requests <= 1 /\ pc \in Searching \cup {"status", "status_fallback"} =>
       \A j \in at + 1..Len(Order) : Clean(Order[j])
  /\ requests <= 1 /\ pc = "prepare" => Clean(Here)

Fallen(s) == mood[s] \in Vsmserve

Passed(i) == Order[i] \in Has /\ Capable(Order[i]) => Marked(Order[i])

\* The servers behind the request were of no use, and the one it has come to still promises success.
Search ==
  /\ pc = "find" => \A i \in 1..at : Passed(i)
  /\ pc \in {"prepare", "login", "fallback", "operate", "wait"} => \A i \in 1..at - 1 : Passed(i)
  /\ pc = "login" /\ Capable(Here) => Marked(Here) \/ Clean(Here)
  /\ pc = "login" => server[Here].ops = server[Here].type
  /\ pc = "fallback" => server[Here].type = "VM"
  /\ pc = "fallback" /\ Capable(Here) => Marked(Here) \/ (~server[Here].force /\ Fallen(Here))
  /\ pc \in {"operate", "wait"} /\ Capable(Here) =>
       Marked(Here) \/ mood[Here] \in {"well", "needless", "hangup"}
                    \/ (Fallen(Here) /\ server[Here].ops = "VM5")

Looked(i) == Operational(Order[i]) => Marked(Order[i])

StatusSearch ==
  /\ pc = "status" =>
       IF answer = "operational" THEN \E s \in Server : Operational(s) ELSE \A i \in 1..at : Looked(i)
  /\ pc = "status_fallback" =>
       /\ \A i \in 1..at - 1 : Looked(i)
       /\ server[Here].type = "VM"
       /\ Operational(Here) => Marked(Here) \/ (~server[Here].force /\ Fallen(Here))

GivenUp == SInv /\ Kinds /\ Moods /\ FirstRequest /\ Search /\ StatusSearch /\ UnlessMarked /\ StatusIsRight

\* What the calls of the plugin leave alone in a server object.
Alike(r, q) == q.type = r.type /\ q.force = r.force /\ q.ops = r.ops /\ q.known = r.known

LEMMA MessagesAlike ==
  ASSUME NEW r \in Sound
  PROVE  Alike(r, CreateMsg(r)) /\ Alike(r, Message(r)) /\ Alike(r, Fatal(r))
  BY DEF Sound, ServerState, CreateMsg, Message, Fatal, Alike

LEMMA NewPrivAlike ==
  ASSUME NEW r \in Sound
  PROVE  Alike(r, NewPriv(r)) /\ NewPriv(r).image_op = r.image_op
  BY DEF Sound, ServerState, NewPriv, Alike

LEMMA PreparedAlike ==
  ASSUME NEW r \in Sound, r.type \in Installed
  PROVE  /\ Prepared(r).type = r.type /\ Prepared(r).force = r.force /\ Prepared(r).known = r.known
         /\ Prepared(r).ops = r.type
<1> DEFINE q == IF r.type = "VM5" THEN NewPriv(r) ELSE r
<1>1. q \in Sound /\ Alike(r, q)
  BY NewPrivSound, NewPrivAlike DEF Alike
<1>2. Prepared(r) = [q EXCEPT !.ops = r.type]
  BY DEF Prepared
<1> HIDE DEF q
<1> QED
  BY <1>1, <1>2 DEF Sound, ServerState, Alike

LEMMA CheckedAlike ==
  ASSUME NEW r \in Sound
  PROVE  Alike(r, Checked(r))
<1> DEFINE q == IF r.ops \in {"VM", "LPAR"} THEN NewPriv(r) ELSE r
<1>1. q \in Sound /\ Alike(r, q)
  BY NewPrivSound, NewPrivAlike DEF Alike
<1>2. Alike(q, Fatal(q)) /\ Alike(q, [q EXCEPT !.problem_class = "OK"])
  BY <1>1, MessagesAlike DEF Sound, ServerState, Alike
<1> HIDE DEF q
<1>3. Checked(r) \in {r, q, Fatal(q), [q EXCEPT !.problem_class = "OK"]}
  BY DEF Checked, q
<1> QED
  BY <1>1, <1>2, <1>3 DEF Alike

\* Only a login that succeeds makes an LPAR known.
LEMMA LoggedInAlike ==
  ASSUME NEW s \in Server, NEW r \in Sound, r.ops \in {"VM", "VM5", "LPAR"}
  PROVE  /\ LoggedIn(s, r).type = r.type /\ LoggedIn(s, r).force = r.force /\ LoggedIn(s, r).ops = r.ops
         /\ r.known => LoggedIn(s, r).known
         /\ LoginFails(s, r) => LoggedIn(s, r).known = r.known
<1>1. Fatal(r) \in Sound /\ CreateMsg(r) \in Sound /\ Alike(r, Fatal(r)) /\ Alike(r, CreateMsg(r))
  BY MessagesSound, MessagesAlike
<1> DEFINE a == [CreateMsg(r) EXCEPT !.session = TRUE, !.problem_class = "CERTIFICATE_ERROR"]
<1> DEFINE b == [Fatal(r) EXCEPT !.lost = @ + 1]
<1> DEFINE c == [Fatal(r) EXCEPT !.session = TRUE]
<1> DEFINE d == [r EXCEPT !.problem = "text", !.problem_class = "FATAL"]
<1> DEFINE e == [CreateMsg(r) EXCEPT !.session = TRUE]
<1> DEFINE f == [r EXCEPT !.session = TRUE, !.known = @ \/ r.ops = "LPAR"]
<1>2. Alike(r, a) /\ Alike(r, b) /\ Alike(r, c) /\ Alike(r, d) /\ Alike(r, e)
  BY <1>1 DEF Sound, ServerState, Alike
<1>3. f.type = r.type /\ f.force = r.force /\ f.ops = r.ops /\ (r.known => f.known)
  BY DEF Sound, ServerState
<1>4. \/ LoggedIn(s, r) \in {a, b, c, d, e, Fatal(r)}
      \/ LoggedIn(s, r) = f /\ ~LoginFails(s, r)
  BY DEF LoggedIn, LoginFails
<1> HIDE DEF a, b, c, d, e, f
<1> QED
  BY <1>1, <1>2, <1>3, <1>4 DEF Alike

LEMMA LoggedOutAlike ==
  ASSUME NEW s \in Server, NEW r \in Sound
  PROVE  Alike(r, LoggedOut(s, r))
<1>1. Fatal(r) \in Sound /\ Alike(r, Fatal(r))
  BY MessagesSound, MessagesAlike
<1>2. Alike(r, [Fatal(r) EXCEPT !.session = FALSE]) /\ Alike(r, [r EXCEPT !.session = FALSE])
  BY <1>1 DEF Sound, ServerState, Alike
<1> QED
  BY <1>2 DEF LoggedOut

\* Whether a login fails depends on the library and on what earlier logins have left.
LEMMA FailsAlike ==
  ASSUME NEW s, NEW r, NEW q, Alike(r, q)
  PROVE  LoginFails(s, q) = LoginFails(s, r)
  BY DEF Alike, LoginFails

\* The status request, with one server.
LEMMA TriedFacts ==
  ASSUME NoImpostor, SInv, NEW s \in Server, NEW r \in Sound, r.ops \in {"VM", "VM5", "LPAR"}
  PROVE  /\ Tried(s, r).server.type = r.type /\ Tried(s, r).server.force = r.force
         /\ Tried(s, r).ok <=> ~Objects(r) /\ ~LoginFails(s, r)
         /\ ~Tried(s, r).cert
         /\ r.known => Tried(s, r).server.known
         /\ ~Tried(s, r).ok => Tried(s, r).server.known = r.known
<1> DEFINE c == Checked(r)
<1> DEFINE q == IF Objects(r) THEN c ELSE LoggedIn(s, c)
<1>1. c \in Sound /\ Alike(r, c)
  BY CheckedSound, CheckedAlike
<1>2. q \in Sound
  BY <1>1, LoggedInSound DEF SInv, TypeOK
<1>3. LoginFails(s, c) = LoginFails(s, r)
  BY <1>1, FailsAlike
<1>4. /\ q.type = r.type /\ q.force = r.force /\ (r.known => q.known)
      /\ Objects(r) \/ LoginFails(s, r) => q.known = r.known
  <2> HIDE DEF c
  <2>1. c.ops \in {"VM", "VM5", "LPAR"}
    BY <1>1 DEF Alike
  <2> QED
    BY <1>1, <1>3, <2>1, LoggedInAlike DEF Alike
<1>5. Alike(q, LoggedOut(s, q))
  BY <1>2, LoggedOutAlike
<1>6. q.problem_class # "CERTIFICATE_ERROR"
  BY <1>2 DEF Sound
<1>7. /\ Tried(s, r).server = LoggedOut(s, q)
      /\ Tried(s, r).ok <=> ~Objects(r) /\ ~LoginFails(s, c)
      /\ Tried(s, r).cert <=> q.problem_class = "CERTIFICATE_ERROR"
  BY DEF Tried
<1> HIDE DEF q, c
<1>8. /\ Tried(s, r).ok <=> ~Objects(r) /\ ~LoginFails(s, r)
      /\ ~Tried(s, r).cert
  BY <1>3, <1>6, <1>7, Zenon
<1>9. /\ LoggedOut(s, q).type = r.type /\ LoggedOut(s, q).force = r.force
      /\ LoggedOut(s, q).known = q.known
  BY <1>4, <1>5 DEF Alike
<1>10. r.known => Tried(s, r).server.known
  BY <1>4, <1>7, <1>9, Zenon
<1>11. ~Tried(s, r).ok => Tried(s, r).server.known = r.known
  BY <1>4, <1>7, <1>8, <1>9, Zenon
<1> QED
  BY <1>7, <1>8, <1>9, <1>10, <1>11, Zenon

\* A new record for one server leaves the others as they are.
LEMMA Others ==
  ASSUME SInv, Kinds, Moods, NEW k \in 1..Len(Order), NEW s, s = Order[k], NEW r, Note(s, r),
         UNCHANGED <<mood, requests>>,
         r.type = server[s].type \/ (r.type = "VM5" /\ server[s].type = "VM")
  PROVE  /\ s \in Server /\ server'[s] = r /\ Kinds' /\ Moods'
         /\ Len(Order) \in Nat
         /\ \A i \in 1..k - 1 : Passed(i) => Passed(i)'
         /\ \A i \in 1..k - 1 : Looked(i) => Looked(i)'
         /\ \A j \in k + 1..Len(Order) : Clean(Order[j]) => Clean(Order[j])'
         /\ \A z \in Server : z # s => server'[z] = server[z]
<1>1. Order \in Seq(Server) /\ Len(Order) \in Nat /\ s \in Server
  <2>1. Order \in Seq(Server)
    BY StonithAssumption
  <2> QED
    BY <2>1
<1>2. server' = [server EXCEPT ![s] = r] /\ server \in [Server -> Sound]
  BY DEF Note, SInv
<1>3. server'[s] = r /\ \A z \in Server : z # s => server'[z] = server[z]
  BY <1>1, <1>2
<1>4. \A i \in 1..Len(Order) : i # k => Order[i] \in Server /\ Order[i] # s
  <2>1. \A i \in 1..Len(Order) : Order[i] \in Server
    BY <1>1
  <2>2. \A i \in 1..Len(Order) : Order[i] = Order[k] => i = k
    BY ONLY OrderAssumption, k \in 1..Len(Order)
  <2> QED
    BY <2>1, <2>2
<1>5. \A i \in 1..Len(Order) : i # k => server'[Order[i]] = server[Order[i]]
  BY <1>3, <1>4
<1>6. \A i \in 1..k - 1 : i \in 1..Len(Order) /\ i # k
  BY <1>1
<1>7. \A j \in k + 1..Len(Order) : j \in 1..Len(Order) /\ j # k
  BY <1>1
<1>8. ASSUME NEW i \in 1..k - 1, Passed(i) PROVE Passed(i)'
  BY <1>5, <1>6, <1>8 DEF Passed, Marked, Capable
<1>9. ASSUME NEW i \in 1..k - 1, Looked(i) PROVE Looked(i)'
  BY <1>5, <1>6, <1>9 DEF Looked, Marked, Operational
<1>10. ASSUME NEW j \in k + 1..Len(Order), Clean(Order[j]) PROVE Clean(Order[j])'
  BY <1>5, <1>7, <1>10 DEF Clean
<1>11. Kinds'
  BY <1>1, <1>3 DEF Kinds
<1>12. Moods'
  BY DEF Moods, MoodsOf
<1> QED
  BY <1>1, <1>3, <1>8, <1>9, <1>10, <1>11, <1>12

\* During the first request a server that is Marked cannot be; later, one that is not Clean is.
LEMMA MarkedOrClean ==
  ASSUME NEW s, requests > 1
  PROVE  Marked(s) \/ Clean(s)
  BY DEF Marked, Clean

\* The loop of a request goes on, or ends with its server.
LEMMA SearchOn ==
  ASSUME GivenUp, pc \in AtServer \ {"status_fallback"}, NEW r, Note(Here, r), at' = at,
         UNCHANGED <<mood, request, requests>>,
         r.type = server[Here].type \/ (r.type = "VM5" /\ server[Here].type = "VM"),
         pc' \in {"find", "login", "fallback", "operate", "wait", "logout", "aborted"},
         pc \in {"prepare", "login", "fallback", "operate", "wait"} \/ pc' \notin Searching,
         Here' = Here,
         pc' = "find" /\ Capable(Here) => Marked(Here)',
         pc' = "login" => r.ops = r.type,
         pc' = "login" /\ Capable(Here) => Marked(Here)' \/ Clean(Here)',
         pc' = "fallback" => r.type = "VM",
         pc' = "fallback" /\ Capable(Here) => Marked(Here)' \/ (~r.force /\ Fallen(Here)),
         pc' \in {"operate", "wait"} /\ Capable(Here) =>
           Marked(Here)' \/ mood[Here] \in {"well", "needless", "hangup"} \/ (Fallen(Here) /\ r.ops = "VM5")
  PROVE  Kinds' /\ Moods' /\ FirstRequest' /\ Search' /\ StatusSearch' /\ UnlessMarked' /\ StatusIsRight'
<1>1. SInv /\ Kinds /\ Moods /\ at \in 1..Len(Order) /\ FirstRequest /\ Search
  BY DEF GivenUp, SInv, AtServer
<1>2. /\ Here \in Server /\ server'[Here] = r /\ Kinds' /\ Moods' /\ Len(Order) \in Nat
      /\ \A i \in 1..at - 1 : Passed(i) => Passed(i)'
      /\ \A j \in at + 1..Len(Order) : Clean(Order[j]) => Clean(Order[j])'
  BY <1>1, Others DEF Here
<1>3. requests # 0
  BY <1>1 DEF FirstRequest, AtServer
<1>4. FirstRequest'
  <2>1. requests' # 0
    BY <1>3
  <2>2. ASSUME requests' <= 1, pc' \in Searching \cup {"status", "status_fallback"}
        PROVE  \A j \in at' + 1..Len(Order) : Clean(Order[j])'
    <3>1. requests <= 1 /\ pc \in Searching \cup {"status", "status_fallback"}
      BY <2>2 DEF Searching, AtServer
    <3> QED
      BY <1>1, <1>2, <3>1 DEF FirstRequest
  <2> QED
    BY <2>1, <2>2 DEF FirstRequest
<1>5. (Capable(Here) => Capable(Here)') /\ (Capable(Here)' => Capable(Here)) /\ Fallen(Here)' = Fallen(Here)
  BY DEF Capable, Fallen, Vsmserve
<1>6. pc' \in Searching => \A i \in 1..at - 1 : Passed(i)'
  BY <1>1, <1>2 DEF Search, Searching
<1>7. pc' = "find" => \A i \in 1..at : Passed(i)'
  <2> SUFFICES ASSUME pc' = "find", NEW i \in 1..at PROVE Passed(i)'
    OBVIOUS
  <2>1. CASE i \in 1..at - 1
    BY <1>6, <2>1 DEF Searching
  <2>2. CASE i = at
    BY <1>5, <2>2 DEF Passed, Here
  <2>3. i \in 1..at - 1 \/ i = at
    BY <1>1, <1>2
  <2> QED
    BY <2>1, <2>2, <2>3
<1>8. Search'
  BY <1>2, <1>5, <1>6, <1>7 DEF Search, Searching
<1>9. StatusSearch'
  BY DEF StatusSearch
<1>10. UnlessMarked' /\ StatusIsRight'
  BY DEF UnlessMarked, StatusIsRight, Ended
<1> QED
  BY <1>2, <1>4, <1>8, <1>9, <1>10

\* With all libraries installed the loaded one is the one for the type.
LEMMA Loaded ==
  ASSUME SInv, AllInstalled, NEW r \in Sound
  PROVE  r.type \in Installed
  BY DEF AllInstalled, Sound, ServerState

LEMMA PrepareGivenUp ==
  ASSUME GivenUp, AllInstalled, Prepare
  PROVE  Kinds' /\ Moods' /\ FirstRequest' /\ Search' /\ StatusSearch' /\ UnlessMarked' /\ StatusIsRight'
<1> DEFINE o == server[Here]
<1> DEFINE r == Prepared(o)
<1> DEFINE q == Checked(r)
<1>1. /\ SInv /\ FirstRequest /\ pc = "prepare" /\ requests \in Nat
      /\ UNCHANGED <<mood, request, at, requests>> /\ Here' = Here
  BY StonithAssumption DEF GivenUp, SInv, TypeOK, Prepare, Unwatched, Here
<1>2. Here \in Server /\ o \in Sound
  BY <1>1, HereSound DEF AtServer
<1>3. /\ r \in Sound /\ o.type \in Installed
      /\ r.type = o.type /\ r.force = o.force /\ r.known = o.known /\ r.ops = o.type
  BY <1>1, <1>2, PreparedSound, PreparedAlike, Loaded
<1>4. q \in Sound /\ Alike(r, q) /\ Message(q) \in Sound /\ Alike(q, Message(q))
  BY <1>3, CheckedSound, CheckedAlike, MessagesSound, MessagesAlike
<1>5. Marked(Here) \/ Clean(Here)
  BY <1>1, MarkedOrClean DEF FirstRequest
<1>6. /\ ~Objects(r) => Note(Here, q) /\ pc' = "login"
      /\ Objects(r) => Note(Here, Message(q)) /\ pc' = "find" /\ o.force
  <2>1. IF Objects(r) THEN Note(Here, Message(q)) /\ pc' = "find" ELSE Note(Here, q) /\ pc' = "login"
    BY <1>3 DEF Prepare
  <2>2. Objects(r) => o.force
    BY <1>3 DEF Objects, Sound, ServerState
  <2> QED
    BY <2>1, <2>2
<1> HIDE DEF q, r
<1>7. pc' \notin Searching \ {"login", "find"}
  BY <1>6 DEF Searching
<1>8. CASE ~Objects(r)
  <2>1. q.type = o.type /\ q.force = o.force /\ q.ops = q.type
    BY <1>3, <1>4 DEF Alike
  <2>2. server'[Here] = q
    BY <1>2, <1>6, <1>8 DEF Note, GivenUp, SInv
  <2>3. Marked(Here)' \/ Clean(Here)'
    BY <1>1, <1>5, <2>1, <2>2 DEF Marked, Clean
  <2> QED
    BY <1>1, <1>6, <1>8, <2>1, <2>3, SearchOn DEF AtServer
<1>9. CASE Objects(r)
  <2>1. Message(q).type = o.type /\ Message(q).force = o.force
    BY <1>3, <1>4 DEF Alike
  <2>2. server'[Here] = Message(q)
    BY <1>2, <1>6, <1>9 DEF Note, GivenUp, SInv
  <2>3. Marked(Here)'
    BY <1>1, <1>5, <1>6, <1>9, <2>1, <2>2 DEF Marked, Clean
  <2> QED
    BY <1>1, <1>6, <1>9, <2>1, <2>3, SearchOn DEF AtServer
<1> QED
  BY <1>8, <1>9

\* The moods in which a first login fails.
LEMMA CapableLogin ==
  ASSUME RefusalsShow, mood \in [Server -> Mood], NEW s \in Server, NEW r, Capable(s), r.ops = Configured[s]
  PROVE  /\ LoginFails(s, r) => Fallen(s) /\ r.ops = "VM"
         /\ ~LoginFails(s, r) => mood[s] \in {"well", "needless", "hangup"}
<1>1. r.ops \in {"VM", "LPAR"} /\ mood[s] \in Mood
  BY StonithAssumption
<1>2. CASE r.ops = "LPAR"
  BY <1>1, <1>2 DEF Capable, LoginFails
<1>3. CASE r.ops = "VM"
  BY <1>1, <1>3 DEF Capable, LoginFails, Fallen, RefusalsShow, Refusing, NotThere, Vsmserve
<1> QED
  BY <1>1, <1>2, <1>3

LEMMA LoginGivenUp ==
  ASSUME NoImpostor, GivenUp, RefusalsShow, Login
  PROVE  Kinds' /\ Moods' /\ FirstRequest' /\ Search' /\ StatusSearch' /\ UnlessMarked' /\ StatusIsRight'
<1> DEFINE r == server[Here]
<1> DEFINE q == LoggedIn(Here, r)
<1>1. /\ SInv /\ Search /\ pc = "login" /\ mood \in [Server -> Mood]
      /\ UNCHANGED <<mood, request, at, requests>> /\ Here' = Here
  BY DEF GivenUp, SInv, TypeOK, Login, Unwatched, Here
<1>2. Here \in Server /\ r \in Sound /\ r.ops = r.type /\ r.type \in {"VM", "VM5", "LPAR"}
  BY <1>1, HereSound DEF AtServer, Search, Sound, ServerState
<1>3. /\ q \in Sound /\ q.type = r.type /\ q.force = r.force /\ q.ops = r.ops
      /\ Message(q) \in Sound /\ Alike(q, Message(q))
  BY <1>1, <1>2, LoggedInSound, LoggedInAlike, MessagesSound, MessagesAlike
<1>4. q.problem_class # "CERTIFICATE_ERROR"
  BY <1>3 DEF Sound
<1>5. /\ ~LoginFails(Here, r) => Note(Here, q) /\ pc' = "operate"
      /\ LoginFails(Here, r) /\ r.type = "VM" => Note(Here, q) /\ pc' = "fallback"
      /\ LoginFails(Here, r) /\ r.type # "VM" => Note(Here, Message(q)) /\ pc' = "find"
  BY <1>4 DEF Login
<1>6. Capable(Here) => Marked(Here) \/ Clean(Here)
  BY <1>1 DEF Search
<1>7. Capable(Here) /\ Clean(Here) =>
        /\ LoginFails(Here, r) => Fallen(Here) /\ r.type = "VM" /\ ~r.force
        /\ ~LoginFails(Here, r) => mood[Here] \in {"well", "needless", "hangup"}
  BY <1>1, <1>2, CapableLogin DEF Clean
<1> HIDE DEF q
<1>8. ASSUME NEW n, Note(Here, n), n.type = r.type, n.force = r.force, Marked(Here)
      PROVE  Marked(Here)'
  <2>1. server'[Here] = n
    BY <1>1, <1>2, <1>8 DEF Note, SInv
  <2> QED
    BY <1>1, <1>8, <2>1 DEF Marked
<1>9. Note(Here, q) => (Marked(Here) => Marked(Here)')
  BY <1>3, <1>8
<1>10. Note(Here, Message(q)) => (Marked(Here) => Marked(Here)')
  BY <1>3, <1>8 DEF Alike
<1>11. CASE ~LoginFails(Here, r)
  BY <1>1, <1>3, <1>5, <1>6, <1>7, <1>9, <1>11, SearchOn DEF AtServer
<1>12. CASE LoginFails(Here, r) /\ r.type = "VM"
  BY <1>1, <1>3, <1>5, <1>6, <1>7, <1>9, <1>12, SearchOn DEF AtServer
<1>13. CASE LoginFails(Here, r) /\ r.type # "VM"
  <2>1. Message(q).type = r.type
    BY <1>3 DEF Alike
  <2> QED
    BY <1>1, <1>5, <1>6, <1>7, <1>10, <1>13, <2>1, SearchOn DEF AtServer
<1> QED
  BY <1>11, <1>12, <1>13

LEMMA FallbackGivenUp ==
  ASSUME NoImpostor, GivenUp, AllInstalled, Fallback
  PROVE  Kinds' /\ Moods' /\ FirstRequest' /\ Search' /\ StatusSearch' /\ UnlessMarked' /\ StatusIsRight'
<1> DEFINE o == LoggedOut(Here, server[Here])
<1> DEFINE f == [o EXCEPT !.type = "VM5"]
<1> DEFINE r == Prepared(f)
<1> DEFINE q == Checked(r)
<1> DEFINE l == LoggedIn(Here, q)
<1>1. /\ SInv /\ Kinds /\ Search /\ pc = "fallback" /\ mood \in [Server -> Mood]
      /\ UNCHANGED <<mood, request, at, requests>> /\ Here' = Here
      /\ server[Here].type = "VM"
  BY DEF GivenUp, SInv, TypeOK, Fallback, Unwatched, Here, Search
<1>2. Here \in Server /\ server[Here] \in Sound
  BY <1>1, HereSound DEF AtServer
<1>3. o \in Sound /\ Alike(server[Here], o)
  BY <1>2, LoggedOutSound, LoggedOutAlike
<1>4. f \in Sound /\ f.type = "VM5" /\ f.force = server[Here].force
  <2> HIDE DEF o
  <2> QED
    BY <1>3 DEF Sound, ServerState, Alike
<1> HIDE DEF f
<1>5. f.type \in Installed /\ "VM5" \in Installed
  BY <1>4 DEF AllInstalled
<1>6. r \in Sound /\ r.type = "VM5" /\ r.force = server[Here].force /\ r.ops = "VM5"
  BY <1>4, <1>5, PreparedSound, PreparedAlike
<1> HIDE DEF r
<1>7. q \in Sound /\ q.type = "VM5" /\ q.force = server[Here].force /\ q.ops = "VM5"
  BY <1>6, CheckedSound, CheckedAlike DEF Alike
<1> HIDE DEF q
<1>8. l \in Sound /\ l.type = "VM5" /\ l.force = server[Here].force /\ l.ops = "VM5"
  BY <1>1, <1>2, <1>7, LoggedInSound, LoggedInAlike
<1> HIDE DEF l
<1>9. Alike(l, Message(l))
  BY <1>8, MessagesAlike
<1>10. LoginFails(Here, q) <=> ~Fallen(Here)
  BY <1>7 DEF LoginFails, Fallen, Vsmserve
<1>11. IF LoginFails(Here, q) THEN Note(Here, Message(l)) /\ pc' = "find" ELSE Note(Here, l) /\ pc' = "operate"
  BY <1>5 DEF Fallback, l, q, r, f
<1>12. Configured[Here] = "VM"
  BY <1>1, <1>2, StonithAssumption DEF Kinds
<1>13. ASSUME NEW n, Note(Here, n), n.type = "VM5", Marked(Here)
       PROVE  Marked(Here)'
  <2>1. server'[Here] = n
    BY <1>1, <1>2, <1>13 DEF Note, SInv
  <2> QED
    BY <1>1, <1>12, <1>13, <2>1 DEF Marked
<1>14. Capable(Here) => Marked(Here) \/ Fallen(Here)
  BY <1>1 DEF Search
<1>15. CASE LoginFails(Here, q)
  <2>1. Message(l).type = "VM5" /\ Note(Here, Message(l)) /\ pc' = "find"
    BY <1>8, <1>9, <1>11, <1>15 DEF Alike
  <2>2. Capable(Here) => Marked(Here)'
    BY <1>10, <1>13, <1>14, <1>15, <2>1
  <2> QED
    BY <1>1, <2>1, <2>2, SearchOn DEF AtServer
<1>16. CASE ~LoginFails(Here, q)
  <2>1. Note(Here, l) /\ pc' = "operate" /\ Fallen(Here)
    BY <1>10, <1>11, <1>16
  <2> QED
    BY <1>1, <1>8, <2>1, SearchOn DEF AtServer
<1> QED
  BY <1>15, <1>16

LEMMA AskedAlike ==
  ASSUME NEW r \in Sound
  PROVE  /\ Asked(r).type = r.type /\ Asked(r).ops = r.ops /\ Asked(r).known = r.known
         /\ r.force => Asked(r).force
  BY DEF Asked, Sound, ServerState

LEMMA OperateGivenUp ==
  ASSUME GivenUp, Operate \/ SendCommand \/ Await \/ OperateOnMissing
  PROVE  Kinds' /\ Moods' /\ FirstRequest' /\ Search' /\ StatusSearch' /\ UnlessMarked' /\ StatusIsRight'
<1> DEFINE o == server[Here]
<1> DEFINE r == Asked(o)
<1> DEFINE d == [CreateMsg(r) EXCEPT !.problem_class = "OK"]
<1>1. /\ SInv /\ Search /\ pc \in {"operate", "wait"} /\ request \in Ops
      /\ pc' \in {"find", "wait", "logout", "aborted"}
      /\ UNCHANGED <<mood, request, at, requests>> /\ Here' = Here
  BY DEF GivenUp, SInv, Operate, SendCommand, Await, OperateOnMissing, Returned, Unwatched, Here, Searching
<1>2. Here \in Server /\ o \in Sound
  BY <1>1, HereSound DEF AtServer
<1>3. /\ r \in Sound /\ r.type = o.type /\ r.ops = o.ops /\ (o.force => r.force)
  BY <1>1, <1>2, AskedSound, AskedAlike
<1> HIDE DEF r
<1>4. /\ Fatal(r) \in Sound /\ Alike(r, Fatal(r)) /\ Alike(Fatal(r), Message(Fatal(r)))
      /\ CreateMsg(r) \in Sound /\ Alike(r, CreateMsg(r))
  BY <1>3, MessagesSound, MessagesAlike
<1>5. d.type = o.type
  BY <1>3, <1>4 DEF Sound, ServerState, Alike
<1> HIDE DEF d
<1>6. Message(Fatal(r)).type = o.type /\ (o.force => Message(Fatal(r)).force) /\ Fatal(r).type = o.type
  BY <1>3, <1>4 DEF Alike
<1>7. Capable(Here) =>
        Marked(Here) \/ mood[Here] \in {"well", "needless", "hangup"} \/ (Fallen(Here) /\ o.ops = "VM5")
  BY <1>1 DEF Search
<1>8. CASE pc' \in {"logout", "aborted"}
  <2>1. \E n : Note(Here, n) /\ n.type = o.type
    BY <1>3, <1>5, <1>6, <1>8 DEF Operate, SendCommand, Await, OperateOnMissing, Returned, r, d
  <2> QED
    BY <1>1, <1>8, <2>1, SearchOn DEF AtServer, Searching
<1>9. CASE pc' = "wait"
  <2>1. Note(Here, r)
    BY <1>9 DEF Operate, SendCommand, Await, OperateOnMissing, Returned, r
  <2>2. server'[Here] = r
    BY <1>1, <1>2, <2>1 DEF Note, SInv
  <2>3. Marked(Here) => Marked(Here)'
    BY <1>1, <1>3, <2>2 DEF Marked
  <2> QED
    BY <1>1, <1>3, <1>7, <1>9, <2>1, <2>3, SearchOn DEF AtServer
<1>10. CASE pc' = "find"
  <2>1. /\ Note(Here, Message(Fatal(r)))
        /\ mood[Here] \in {"needless", "failing"} \cup Mute \/ ~Answered(Here, r)
        /\ ~Ignored(Here)
    BY <1>10 DEF Operate, SendCommand, Await, OperateOnMissing, Returned, r
  <2>2. Capable(Here) => mood[Here] \notin Mute
    BY <1>2, StonithAssumption DEF Capable, Mute
  <2>3. Capable(Here) => Marked(Here)
    BY <1>3, <1>7, <2>1, <2>2 DEF Ignored, Answered, Refusing, Fallen, Vsmserve, Mute
  <2>4. server'[Here] = Message(Fatal(r))
    BY <1>1, <1>2, <2>1 DEF Note, SInv
  <2>5. Marked(Here) => Marked(Here)'
    BY <1>1, <1>6, <2>4 DEF Marked
  <2> QED
    BY <1>1, <1>6, <1>10, <2>1, <2>3, <2>5, SearchOn DEF AtServer
<1> QED
  BY <1>1, <1>8, <1>9, <1>10

LEMMA LogoutGivenUp ==
  ASSUME GivenUp, Logout
  PROVE  Kinds' /\ Moods' /\ FirstRequest' /\ Search' /\ StatusSearch' /\ UnlessMarked' /\ StatusIsRight'
<1> DEFINE r == server[Here]
<1> DEFINE q == IF r.problem_class = "CERTIFICATE_ERROR" THEN Message(r) ELSE r
<1> DEFINE f == IF q.problem = "null" THEN q ELSE [q EXCEPT !.problem = "freed"]
<1> DEFINE g == LoggedOut(Here, f)
<1>1. /\ SInv /\ Kinds /\ Moods /\ FirstRequest /\ pc = "logout" /\ at \in 1..Len(Order) /\ request \in Ops
      /\ pc' = "idle" /\ result' = "S_OK" /\ UNCHANGED <<mood, request, requests>>
  BY DEF GivenUp, SInv, Logout, AtServer
<1>2. Here \in Server /\ r \in Sound
  BY <1>1, HereSound DEF AtServer
<1>3. q \in Sound /\ q.type = r.type
  BY <1>2, MessagesSound, MessagesAlike DEF Alike
<1> HIDE DEF q
<1>4. f \in Sound /\ f.type = r.type
  BY <1>3 DEF Sound, ServerState
<1> HIDE DEF f
<1>5. g \in Sound /\ g.type = r.type /\ Message(g).type = r.type
  <2>1. g \in Sound /\ Alike(f, g)
    BY <1>2, <1>4, LoggedOutSound, LoggedOutAlike
  <2> HIDE DEF g
  <2>2. Alike(g, Message(g))
    BY <2>1, MessagesAlike
  <2> QED
    BY <1>4, <2>1, <2>2 DEF Alike
<1>6. Note(Here, Message(g)) \/ Note(Here, g)
  BY DEF Logout, g, f, q
<1> HIDE DEF g
<1>7. Kinds' /\ Moods'
  BY <1>1, <1>5, <1>6, Others DEF Here
<1>8. FirstRequest'
  BY <1>1 DEF FirstRequest, Searching
<1>9. Search' /\ StatusSearch'
  BY <1>1 DEF Search, StatusSearch
<1>10. UnlessMarked' /\ StatusIsRight'
  BY <1>1, StonithAssumption DEF UnlessMarked, StatusIsRight, Ended
<1> QED
  BY <1>7, <1>8, <1>9, <1>10

\* Places in the order of the servers.
LEMMA Places ==
  ASSUME NEW a \in Nat, NEW n \in Nat, NEW b \in Nat, b >= a
  PROVE  /\ \A j \in b + 1..n : j \in a + 1..n
         /\ b \in a + 1..n => \A i \in 1..b - 1 : ~(i <= a) => i \in a + 1..n /\ ~(b <= i)
         /\ b \in a + 1..n => \A i \in 1..b - 1 : i <= a => i \in 1..a
  OBVIOUS

LEMMA FindGivenUp ==
  ASSUME GivenUp, FindServer
  PROVE  Kinds' /\ Moods' /\ FirstRequest' /\ Search' /\ StatusSearch' /\ UnlessMarked' /\ StatusIsRight'
<1>1. /\ SInv /\ Kinds /\ Moods /\ FirstRequest /\ Search /\ at \in 0..Len(Order) /\ Len(Order) \in Nat
      /\ pc = "find" /\ pc' = "prepare" /\ UNCHANGED <<server, mood, requests>>
      /\ at' \in Further(at) /\ \A k \in Further(at) : at' <= k
  BY StonithAssumption DEF GivenUp, SInv, TypeOK, FindServer
<1>2. at' \in at + 1..Len(Order) /\ at' \in Nat
  BY <1>1 DEF Further
<1>0. at \in Nat /\ Len(Order) \in Nat /\ at' \in at + 1..Len(Order) /\ at' \in Nat /\ at' >= at
  BY <1>1, <1>2
<1>3. ASSUME NEW i \in 1..at' - 1 PROVE Passed(i)'
  <2>0. i \in 1..at' - 1
    OBVIOUS
  <2>1. CASE i <= at
    <3>1. i \in 1..at
      BY <1>0, <2>0, <2>1, Places, Zenon
    <3>2. Passed(i)
      BY <1>1, <3>1 DEF Search
    <3> QED
      BY <1>1, <3>2 DEF Passed, Capable, Marked
  <2>2. CASE ~(i <= at)
    <3>1. i \in at + 1..Len(Order) /\ ~(at' <= i)
      BY <1>0, <2>0, <2>2, Places, Zenon
    <3>2. Order[i] \notin Has
      BY <1>1, <3>1 DEF Further
    <3> QED
      BY <3>2 DEF Passed
  <2> QED
    BY <2>1, <2>2
<1>4. \A j \in at' + 1..Len(Order) : j \in at + 1..Len(Order)
  BY <1>0, Places, Zenon
<1>5. FirstRequest'
  BY <1>1, <1>2, <1>4 DEF FirstRequest, Searching, Clean, Here
<1>6. Search' /\ StatusSearch'
  BY <1>1, <1>3 DEF Search, StatusSearch
<1>7. Kinds' /\ Moods'
  BY <1>1 DEF Kinds, Moods, MoodsOf
<1>8. UnlessMarked' /\ StatusIsRight'
  BY <1>1 DEF UnlessMarked, StatusIsRight, Ended
<1> QED
  BY <1>5, <1>6, <1>7, <1>8

\* The request is given up.
LEMMA NoServerGivenUp ==
  ASSUME GivenUp, NoServer
  PROVE  Kinds' /\ Moods' /\ FirstRequest' /\ Search' /\ StatusSearch' /\ UnlessMarked' /\ StatusIsRight'
<1>1. /\ SInv /\ Kinds /\ Moods /\ FirstRequest /\ Search /\ at \in 0..Len(Order) /\ Len(Order) \in Nat
      /\ request \in Ops /\ Further(at) = {}
      /\ pc = "find" /\ pc' = "idle" /\ UNCHANGED <<server, mood, request, at, requests>>
  BY StonithAssumption DEF GivenUp, SInv, TypeOK, NoServer, Searching
<1>2. ASSUME NEW s \in Has, Capable(s) PROVE Marked(s)
  <2>1. PICK i \in 1..Len(Order) : Order[i] = s
    BY StonithAssumption, OrderAssumption
  <2>2. i \notin at + 1..Len(Order)
    BY <1>1, <2>1 DEF Further
  <2>3. i \in 1..at
    BY <1>1, <2>2
  <2>4. Passed(i)
    BY <1>1, <2>3 DEF Search
  <2> QED
    BY <1>2, <2>1, <2>4 DEF Passed
<1>3. UnlessMarked'
  BY <1>1, <1>2 DEF UnlessMarked, Capable, Marked
<1>4. Kinds' /\ Moods' /\ FirstRequest' /\ Search' /\ StatusSearch' /\ StatusIsRight'
  BY <1>1, StonithAssumption
  DEF Kinds, Moods, MoodsOf, FirstRequest, Searching, Clean, Search, StatusSearch, StatusIsRight
<1> QED
  BY <1>3, <1>4

LEMMA BeginGivenUp ==
  ASSUME GivenUp, NEW r, NEW p \in {"find", "status"}, Begin(r, 0, p)
  PROVE  Kinds' /\ Moods' /\ FirstRequest' /\ Search' /\ StatusSearch' /\ UnlessMarked' /\ StatusIsRight'
<1>1. /\ Kinds /\ FirstRequest /\ requests \in Nat /\ Order \in Seq(Server) /\ Len(Order) \in Nat
  BY StonithAssumption DEF GivenUp, SInv, TypeOK
<1>2. /\ pc' = p /\ at' = 0 /\ requests' = requests + 1 /\ UNCHANGED server /\ answer' = "none"
      /\ \A s \in Server : mood'[s] \in MoodsOf(s)
  BY DEF Begin
<1>3. Kinds' /\ Moods'
  BY <1>1, <1>2 DEF Kinds, Moods, MoodsOf
<1>4. FirstRequest'
  <2>1. requests' # 0 /\ (requests' <= 1 => requests = 0)
    BY <1>1, <1>2
  <2>2. \A j \in at' + 1..Len(Order) : Order[j] \in Server
    BY <1>1, <1>2
  <2> QED
    BY <1>1, <1>2, <2>1, <2>2 DEF FirstRequest, Clean
<1>5. \A i \in 1..at' : FALSE
  BY <1>2
<1>6. Search' /\ StatusSearch'
  BY <1>2, <1>5 DEF Search, StatusSearch
<1>7. UnlessMarked' /\ StatusIsRight'
  BY <1>2 DEF UnlessMarked, StatusIsRight, Ended
<1> QED
  BY <1>3, <1>4, <1>6, <1>7

\* A step of the status request that does not end it.
LEMMA StatusOn ==
  ASSUME GivenUp, pc \in {"status", "status_fallback"}, pc' \in {"status", "status_fallback"},
         UNCHANGED <<mood, request, result, requests>>, at \in 0..Len(Order), at' \in {at, at + 1},
         Kinds', Moods', StatusSearch',
         \A j \in at' + 1..Len(Order) : Clean(Order[j]) => Clean(Order[j])'
  PROVE  Kinds' /\ Moods' /\ FirstRequest' /\ Search' /\ StatusSearch' /\ UnlessMarked' /\ StatusIsRight'
<1>1. FirstRequest /\ Len(Order) \in Nat
  BY StonithAssumption DEF GivenUp
<1>0. at \in Nat /\ Len(Order) \in Nat /\ at' \in Nat /\ at' >= at
  BY <1>1
<1>2. \A j \in at' + 1..Len(Order) : j \in at + 1..Len(Order)
  BY <1>0, Places, Zenon
<1>3. FirstRequest'
  BY <1>1, <1>2 DEF FirstRequest
<1>4. Search'
  BY DEF Search
<1>5. UnlessMarked' /\ StatusIsRight'
  BY DEF UnlessMarked, StatusIsRight, Ended
<1> QED
  BY <1>3, <1>4, <1>5

\* A login that succeeds is to a server that is operational.
LEMMA TriedOperational ==
  ASSUME NoImpostor, RefusalsShow, SInv, Kinds, Moods, NEW s \in Server, NEW r,
         r.type = server[s].type \/ (r.type = "VM5" /\ server[s].type = "VM"),
         r.ops = r.type, r.known = server[s].known
  PROVE  /\ ~LoginFails(s, r) => Operational(s)
         /\ Operational(s) /\ LoginFails(s, r) /\ r.type # "VM5" => r.type = "VM" /\ Fallen(s)
         /\ Operational(s) /\ LoginFails(s, r) /\ r.type = "VM5" => ~Fallen(s)
<1>1. /\ Configured[s] \in {"VM", "LPAR"} /\ mood[s] \in MoodsOf(s) /\ mood[s] \in MoodKind
      /\ r.type = Configured[s] \/ (r.type = "VM5" /\ Configured[s] = "VM")
  BY StonithAssumption DEF Kinds, Moods, MoodsOf
<1>2. CASE r.type = "LPAR"
  <2>1. mood[s] \in Serving \cup {"down", "moved"}
    <3>1. Configured[s] = "LPAR" /\ s \notin Encrypted
      BY <1>1, <1>2, StonithAssumption
    <3>2. MoodsOf(s) = Mood \ ({"impostor", "refuses"} \cup Vsmserve)
      BY <3>1 DEF MoodsOf
    <3> QED
      BY <1>1, <3>2 DEF MoodKind, Serving, Vsmserve
  <2> QED
    BY <1>1, <1>2, <2>1 DEF LoginFails, Operational, Serving
<1>3. CASE r.type = "VM"
  <2>1. mood[s] \in Serving \cup Vsmserve \cup {"down", "refuses"}
    <3>1. Configured[s] = "VM" /\ mood[s] \in Mood
      BY <1>1, <1>3 DEF MoodsOf
    <3>2. MoodsOf(s) \in {Mood \ {"moved", "silent"}, Mood \ {"moved", "silent", "impostor"}}
      BY <3>1 DEF MoodsOf
    <3>3. mood[s] # "moved"
      BY <1>1, <3>2
    <3>4. mood[s] # "impostor"
      BY <3>1 DEF NoImpostor
    <3> QED
      BY <1>1, <3>3, <3>4 DEF MoodKind, Serving, Vsmserve
  <2>2. mood[s] \in Refusing => s \in Encrypted
    BY <1>1, <1>3 DEF RefusalsShow, MoodsOf
  <2> QED
    BY <1>1, <1>3, <2>1, <2>2 DEF LoginFails, Operational, Serving, Fallen, Refusing, NotThere, Vsmserve
<1>4. CASE r.type = "VM5"
  BY <1>1, <1>4 DEF LoginFails, Operational, Serving, Fallen, Vsmserve
<1> QED
  BY <1>1, <1>2, <1>3, <1>4

\* One server of the status request: it was tried without success.
LEMMA TriedInVain ==
  ASSUME NoImpostor, RefusalsShow, SInv, Kinds, Moods, NEW s \in Server, NEW r,
         Marked(s) \/ Clean(s), Operational(s), r.type = server[s].type, r.force = server[s].force,
         r.ops = r.type, r.known = server[s].known, Objects(r) \/ LoginFails(s, r)
  PROVE  Marked(s) \/ (~r.force /\ Fallen(s) /\ r.type = "VM")
<1> SUFFICES ASSUME ~Marked(s) PROVE ~r.force /\ Fallen(s) /\ r.type = "VM"
  OBVIOUS
<1>1. Clean(s) /\ Configured[s] \in {"VM", "LPAR"}
  BY StonithAssumption
<1>2. ~r.force /\ r.type \in {"VM", "LPAR"}
  BY <1>1 DEF Clean
<1>3. ~Objects(r)
  BY <1>2 DEF Objects
<1>4. LoginFails(s, r) /\ r.type # "VM5"
  BY <1>2, <1>3
<1> QED
  BY <1>2, <1>4, TriedOperational

LEMMA StatusServerGivenUp ==
  ASSUME NoImpostor, RefusalsShow, AllInstalled, GivenUp, StatusServer
  PROVE  Kinds' /\ Moods' /\ FirstRequest' /\ Search' /\ StatusSearch' /\ UnlessMarked' /\ StatusIsRight'
<1>a. PICK k : k = at + 1
  OBVIOUS
<1>b. PICK s : s = Order[k]
  OBVIOUS
<1> DEFINE o == server[s]
<1> DEFINE r == Prepared(o)
<1> DEFINE t == Tried(s, r)
<1>1. /\ SInv /\ Kinds /\ Moods /\ FirstRequest /\ StatusSearch /\ pc = "status" /\ at' = k
      /\ at \in 0..Len(Order) /\ Len(Order) \in Nat /\ k \in 1..Len(Order) /\ k - 1 = at /\ requests \in Nat
      /\ UNCHANGED <<mood, request, result, requests>>
  BY <1>a, StonithAssumption DEF GivenUp, SInv, TypeOK, StatusServer
<1>2. s \in Server /\ o \in Sound
  BY <1>1, <1>b, StonithAssumption DEF SInv
<1>3. /\ r \in Sound
      /\ r.type = o.type /\ r.force = o.force /\ r.known = o.known /\ r.ops = r.type
      /\ r.ops \in {"VM", "VM5", "LPAR"}
  BY <1>1, <1>2, PreparedSound, PreparedAlike, Loaded DEF Sound, ServerState
<1>4. /\ t.server.type = o.type /\ t.server.force = o.force
      /\ t.ok <=> ~Objects(r) /\ ~LoginFails(s, r)
      /\ ~t.cert
      /\ o.known => t.server.known
      /\ ~t.ok => t.server.known = o.known
  <2> HIDE DEF r
  <2> QED
    BY <1>1, <1>2, <1>3, TriedFacts, Zenon
<1>5. IF answer = "operational" THEN Note(s, r) /\ UNCHANGED <<pc, answer>>
      ELSE /\ Note(s, t.server)
           /\ ~t.ok /\ r.type = "VM" => pc' = "status_fallback"
           /\ ~(~t.ok /\ r.type = "VM") => pc' = "status" /\ answer' = Verdict(s, t.ok)
  BY <1>3, <1>4, <1>a, <1>b DEF StatusServer
<1>6. Marked(s) \/ Clean(s)
  <2>1. CASE requests > 1
    BY <2>1, MarkedOrClean
  <2>2. CASE requests <= 1
    BY <1>1, <1>b, <2>2 DEF FirstRequest, Searching
  <2> QED
    BY <1>1, <2>1, <2>2
<1>7. Operational(s) /\ (Objects(r) \/ LoginFails(s, r)) => Marked(s) \/ (~r.force /\ Fallen(s) /\ r.type = "VM")
  BY <1>1, <1>2, <1>3, <1>6, TriedInVain
<1>8. ~LoginFails(s, r) => Operational(s)
  BY <1>1, <1>2, <1>3, TriedOperational
<1> HIDE DEF t, r
<1>9. ASSUME NEW n, Note(s, n), n.type = o.type, n.force = o.force
      PROVE  /\ server'[s] = n /\ Kinds' /\ Moods'
             /\ \A i \in 1..at : Looked(i) => Looked(i)'
             /\ \A j \in k + 1..Len(Order) : Clean(Order[j]) => Clean(Order[j])'
             /\ \A z \in Server : z # s => server'[z] = server[z]
             /\ Marked(s) => Marked(s)'
  <2>1. /\ server'[s] = n /\ Kinds' /\ Moods'
        /\ \A i \in 1..k - 1 : Looked(i) => Looked(i)'
        /\ \A j \in k + 1..Len(Order) : Clean(Order[j]) => Clean(Order[j])'
        /\ \A z \in Server : z # s => server'[z] = server[z]
    BY <1>1, <1>b, <1>9, Others
  <2>2. Marked(s) => Marked(s)'
    BY <1>1, <1>9, <2>1 DEF Marked
  <2> QED
    BY <1>1, <2>1, <2>2
<1>10. CASE answer = "operational"
  <2>1. Note(s, r) /\ pc' = "status" /\ answer' = "operational"
    BY <1>1, <1>5, <1>10
  <2>2. /\ server'[s] = r /\ Kinds' /\ Moods'
        /\ \A j \in k + 1..Len(Order) : Clean(Order[j]) => Clean(Order[j])'
        /\ \A z \in Server : z # s => server'[z] = server[z]
    BY <1>3, <1>9, <2>1
  <2>3. PICK z \in Server : Operational(z)
    BY <1>1, <1>10 DEF StatusSearch
  <2>4. Operational(z)'
    BY <1>1, <1>3, <2>2, <2>3 DEF Operational
  <2>5. StatusSearch'
    BY <2>1, <2>4 DEF StatusSearch
  <2> QED
    BY <1>1, <2>1, <2>2, <2>5, StatusOn
<1>11. CASE answer # "operational" /\ t.ok
  <2>1. Note(s, t.server) /\ pc' = "status" /\ answer' = "operational"
    BY <1>5, <1>11 DEF Verdict
  <2>2. /\ server'[s] = t.server /\ Kinds' /\ Moods'
        /\ \A j \in k + 1..Len(Order) : Clean(Order[j]) => Clean(Order[j])'
    BY <1>4, <1>9, <2>1
  <2>3. Operational(s)
    BY <1>4, <1>8, <1>11
  <2>4. Operational(s)'
    BY <1>1, <1>4, <2>2, <2>3 DEF Operational
  <2>5. StatusSearch'
    BY <1>2, <2>1, <2>4 DEF StatusSearch
  <2> QED
    BY <1>1, <2>1, <2>2, <2>5, StatusOn
<1>12. CASE answer # "operational" /\ ~t.ok
  <2>1. Note(s, t.server) /\ pc' \in {"status", "status_fallback"}
    BY <1>5, <1>12
  <2>2. /\ server'[s] = t.server /\ Kinds' /\ Moods'
        /\ \A i \in 1..at : Looked(i) => Looked(i)'
        /\ \A j \in k + 1..Len(Order) : Clean(Order[j]) => Clean(Order[j])'
        /\ Marked(s) => Marked(s)'
    BY <1>4, <1>9, <2>1
  <2>3. \A i \in 1..at : Looked(i)'
    BY <1>1, <1>12, <2>2 DEF StatusSearch
  <2>4. Operational(s)' => Operational(s)
    BY <1>1, <1>4, <1>12, <2>2 DEF Operational
  <2>5. Operational(s)' => Marked(s)' \/ (~o.force /\ Fallen(s) /\ r.type = "VM")
    BY <1>3, <1>4, <1>7, <1>12, <2>2, <2>4
  <2>6. Fallen(s)' = Fallen(s) /\ s = Here'
    BY <1>1, <1>b DEF Fallen, Here
  <2>7. CASE r.type = "VM"
    <3>1. pc' = "status_fallback"
      BY <1>5, <1>12, <2>7
    <3>2. StatusSearch'
      BY <1>1, <1>3, <1>4, <2>2, <2>3, <2>5, <2>6, <2>7, <3>1 DEF StatusSearch
    <3> QED
      BY <1>1, <2>1, <2>2, <3>2, StatusOn
  <2>8. CASE r.type # "VM"
    <3>1. pc' = "status" /\ answer' = "none"
      BY <1>5, <1>12, <2>8 DEF Verdict
    <3>2. Looked(k)'
      BY <1>b, <2>5, <2>8 DEF Looked
    <3>3. \A i \in 1..k : i \in 1..at \/ i = k
      BY <1>1
    <3>4. StatusSearch'
      BY <1>1, <2>3, <3>1, <3>2, <3>3 DEF StatusSearch
    <3> QED
      BY <1>1, <2>1, <2>2, <3>4, StatusOn
  <2> QED
    BY <2>7, <2>8
<1> QED
  BY <1>10, <1>11, <1>12

LEMMA StatusFallbackGivenUp ==
  ASSUME NoImpostor, RefusalsShow, AllInstalled, GivenUp, StatusFallback
  PROVE  Kinds' /\ Moods' /\ FirstRequest' /\ Search' /\ StatusSearch' /\ UnlessMarked' /\ StatusIsRight'
<1>a. PICK s : s = Here
  OBVIOUS
<1> DEFINE o == server[s]
<1> DEFINE f == [o EXCEPT !.type = "VM5"]
<1> DEFINE r == Prepared(f)
<1> DEFINE t == Tried(s, r)
<1>1. /\ SInv /\ Kinds /\ Moods /\ FirstRequest /\ StatusSearch /\ pc = "status_fallback" /\ pc' = "status"
      /\ at \in 1..Len(Order) /\ Len(Order) \in Nat /\ s = Order[at] /\ requests \in Nat
      /\ UNCHANGED <<mood, request, at, result, requests>>
  <2>1. pc = "status_fallback" /\ UNCHANGED <<mood, request, at, result, requests>>
    BY DEF StatusFallback
  <2>2. s \in Server /\ server[s] \in Sound
    BY <1>a, <2>1, HereSound DEF GivenUp, AtServer
  <2>3. f \in Sound /\ f.type = "VM5"
    BY <2>2 DEF Sound, ServerState
  <2> HIDE DEF f
  <2>4. r.ops = "VM5"
    BY <2>3, PreparedAlike DEF AllInstalled
  <2>5. pc' = "status"
    BY <1>a, <2>4 DEF StatusFallback, f
  <2> QED
    BY <1>a, <2>1, <2>5, StonithAssumption DEF GivenUp, SInv, TypeOK, AtServer, Here
<1>2. s \in Server /\ o \in Sound /\ o.type = "VM" /\ Configured[s] = "VM"
  <2>1. s \in Server /\ o \in Sound /\ o.type = "VM"
    BY <1>1, <1>a, HereSound DEF AtServer, StatusSearch
  <2> QED
    BY <1>1, <2>1, StonithAssumption DEF Kinds
<1>3. f \in Sound /\ f.type = "VM5" /\ f.force = o.force /\ f.known = o.known
  BY <1>2 DEF Sound, ServerState
<1>4. Note(s, t.server) /\ answer' = Verdict(s, t.ok)
  <2>1. r.ops # "unloaded"
    <3> HIDE DEF f
    <3>1. r.ops = "VM5"
      BY <1>3, PreparedAlike DEF AllInstalled
    <3> QED
      BY <3>1
  <2> QED
    BY <1>a, <2>1 DEF StatusFallback
<1> HIDE DEF f
<1>5. r \in Sound /\ r.type = "VM5" /\ r.force = o.force /\ r.known = o.known /\ r.ops = "VM5"
  BY <1>3, PreparedSound, PreparedAlike DEF AllInstalled
<1>6. /\ t.server.type = "VM5"
      /\ t.ok <=> ~Objects(r) /\ ~LoginFails(s, r)
      /\ o.known => t.server.known
      /\ ~t.ok => t.server.known = o.known
  <2> HIDE DEF r
  <2>1. r.ops \in {"VM", "VM5", "LPAR"}
    BY <1>5
  <2>2. /\ Tried(s, r).server.type = r.type
        /\ Tried(s, r).ok <=> ~Objects(r) /\ ~LoginFails(s, r)
        /\ r.known => Tried(s, r).server.known
        /\ ~Tried(s, r).ok => Tried(s, r).server.known = r.known
    BY <1>1, <1>2, <1>5, <2>1, TriedFacts, Zenon
  <2> QED
    BY <1>5, <2>2, Zenon
<1>7. ~LoginFails(s, r) => Operational(s)
  BY <1>1, <1>2, <1>5, TriedOperational
<1>8. ~o.force /\ Fallen(s) => t.ok
  BY <1>5, <1>6 DEF Objects, LoginFails, Fallen
<1> HIDE DEF t, r
<1>9. /\ server'[s] = t.server /\ Kinds' /\ Moods'
      /\ \A i \in 1..at - 1 : Looked(i) => Looked(i)'
      /\ \A j \in at + 1..Len(Order) : Clean(Order[j]) => Clean(Order[j])'
  BY <1>1, <1>2, <1>4, <1>6, Others
<1>10. \A i \in 1..at - 1 : Looked(i)'
  BY <1>1, <1>9 DEF StatusSearch
<1>11. StatusSearch'
  <2>1. CASE t.ok
    <3>1. Operational(s)
      BY <1>6, <1>7, <2>1
    <3>2. Operational(s)'
      BY <1>1, <1>2, <1>9, <3>1 DEF Operational
    <3>3. answer' = "operational"
      BY <1>4, <2>1 DEF Verdict
    <3> QED
      BY <1>1, <1>2, <3>2, <3>3 DEF StatusSearch
  <2>2. CASE ~t.ok
    <3>1. Operational(s)' => Operational(s)
      BY <1>1, <1>2, <1>9 DEF Operational
    <3>2. Operational(s) => Marked(s)
      BY <1>1, <1>8, <1>a, <2>2 DEF StatusSearch
    <3>3. Marked(s) => Marked(s)'
      BY <1>1, <1>2, <1>6, <1>9 DEF Marked
    <3>4. Looked(at)'
      BY <1>1, <3>1, <3>2, <3>3 DEF Looked
    <3>5. \A i \in 1..at : i \in 1..at - 1 \/ i = at
      BY <1>1
    <3>6. answer' = "none"
      BY <1>4, <2>2 DEF Verdict
    <3> QED
      BY <1>1, <1>10, <3>4, <3>5, <3>6 DEF StatusSearch
  <2> QED
    BY <2>1, <2>2
<1>12. at \in 0..Len(Order)
  BY <1>1
<1> QED
  BY <1>1, <1>9, <1>11, <1>12, StatusOn

LEMMA StatusEndGivenUp ==
  ASSUME GivenUp, StatusEnd
  PROVE  Kinds' /\ Moods' /\ FirstRequest' /\ Search' /\ StatusSearch' /\ UnlessMarked' /\ StatusIsRight'
<1>1. /\ SInv /\ Kinds /\ Moods /\ FirstRequest /\ StatusSearch /\ pc = "status" /\ pc' = "idle"
      /\ at = Len(Order) /\ request = "status" /\ UNCHANGED <<server, mood, request, at, requests>>
      /\ result' = IF answer = "operational" THEN "S_OK" ELSE "S_OOPS"
  BY DEF GivenUp, SInv, StatusEnd
<1>2. ASSUME answer # "operational", NEW s \in Server, Operational(s) PROVE Marked(s)
  <2>1. PICK i \in 1..Len(Order) : Order[i] = s
    BY OrderAssumption
  <2>2. Looked(i)
    BY <1>1, <1>2 DEF StatusSearch
  <2> QED
    BY <1>2, <2>1, <2>2 DEF Looked
<1>3. answer = "operational" => \E s \in Server : Operational(s)
  BY <1>1 DEF StatusSearch
<1>4. StatusIsRight'
  BY <1>1, <1>2, <1>3 DEF StatusIsRight, Ended, Operational, Marked
<1>5. Kinds' /\ Moods' /\ FirstRequest' /\ Search' /\ StatusSearch'
  BY <1>1 DEF Kinds, Moods, MoodsOf, FirstRequest, Searching, Clean, Search, StatusSearch
<1>6. UnlessMarked'
  BY <1>1, StonithAssumption DEF UnlessMarked
<1> QED
  BY <1>4, <1>5, <1>6

LEMMA AbortGivenUp ==
  ASSUME GivenUp, Abort \/ UNCHANGED vars
  PROVE  Kinds' /\ Moods' /\ FirstRequest' /\ Search' /\ StatusSearch' /\ UnlessMarked' /\ StatusIsRight'
<1>1. CASE Abort
  BY <1>1 DEF Abort, GivenUp, Kinds, Moods, MoodsOf, FirstRequest, Searching, Clean, Search, StatusSearch,
     UnlessMarked, StatusIsRight, Ended
<1>2. CASE UNCHANGED vars
  <2>1. UNCHANGED <<server, mood, pc, request, at, result, answer, requests>>
    BY <1>2 DEF vars
  <2>2. Kinds' /\ Moods' /\ FirstRequest'
    BY <2>1 DEF GivenUp, Kinds, Moods, MoodsOf, FirstRequest, Searching, Clean, Here
  <2>3. Search'
    BY <2>1 DEF GivenUp, Search, Passed, Capable, Marked, Clean, Fallen, Here
  <2>4. StatusSearch'
    BY <2>1 DEF GivenUp, StatusSearch, Looked, Operational, Marked, Fallen, Here
  <2>5. UnlessMarked' /\ StatusIsRight'
    BY <2>1 DEF GivenUp, UnlessMarked, StatusIsRight, Ended, Capable, Operational, Marked
  <2> QED
    BY <2>2, <2>3, <2>4, <2>5
<1> QED
  BY <1>1, <1>2

LEMMA GivenUpStep ==
  ASSUME NoImpostor, RefusalsShow, AllInstalled, GivenUp, [Next]_vars
  PROVE  GivenUp'
<1>1. SInv'
  BY Step DEF GivenUp
<1> SUFFICES Kinds' /\ Moods' /\ FirstRequest' /\ Search' /\ StatusSearch' /\ UnlessMarked' /\ StatusIsRight'
  BY <1>1 DEF GivenUp
<1>2. CASE (\E op \in Ops : Request(op)) \/ Status
  BY <1>2, BeginGivenUp DEF Request, Status
<1>3. CASE ResetReq
  BY <1>3, FindGivenUp, NoServerGivenUp, PrepareGivenUp, LoginGivenUp, FallbackGivenUp, OperateGivenUp, LogoutGivenUp
  DEF ResetReq
<1>4. CASE StatusServer \/ StatusFallback \/ StatusEnd
  BY <1>4, StatusServerGivenUp, StatusFallbackGivenUp, StatusEndGivenUp
<1>5. CASE Abort \/ UNCHANGED vars
  BY <1>5, AbortGivenUp
<1> QED
  BY <1>2, <1>3, <1>4, <1>5 DEF Next, WaitAgain, Stopped

LEMMA GivenUpInitially ==
  ASSUME Init PROVE GivenUp
<1>1. SInv
  BY Initially
<1>2. Kinds /\ \A s \in Server : Clean(s)
  BY StonithAssumption DEF Init, Kinds, Clean
<1>3. Moods
  BY DEF Init, Moods
<1> QED
  BY <1>1, <1>2, <1>3
  DEF Init, GivenUp, FirstRequest, Searching, Search, StatusSearch, UnlessMarked, StatusIsRight, Ended

\* A request is given up only after every server that defines the image has been tried, and nothing
\* but the marks of earlier requests kept one that could carry it out from doing so
\* (lic_vps_reset_req).
THEOREM GivenUpForAReason ==
  ASSUME NoImpostor, RefusalsShow, AllInstalled
  PROVE  Spec => []UnlessMarked
<1>1. GivenUp => UnlessMarked
  BY DEF GivenUp
<1> QED
  BY <1>1, GivenUpInitially, GivenUpStep, PTL DEF Spec

\* The status request says what it finds (lic_vps_status).
THEOREM StatusTells ==
  ASSUME NoImpostor, RefusalsShow, AllInstalled
  PROVE  Spec => []StatusIsRight
<1>1. GivenUp => StatusIsRight
  BY DEF GivenUp
<1> QED
  BY <1>1, GivenUpInitially, GivenUpStep, PTL DEF Spec
=============================================================================
