---------------------------- MODULE SniplCommand ----------------------------
(***************************************************************************)
(* One call of snipl: command_processing of snipl.c gives one operation to *)
(* every image of the command line, in turn.  A z/VM system is reached     *)
(* through the socket interface of vmsmapi6.c, modelled with its byte      *)
(* stream, or through the RPC interface of vmsmapi.c, modelled with its    *)
(* session token (VmRpc); an SE through sniplapi.c, where the outcome of   *)
(* an operation is a choice: HwmcaCommand models how it is found.          *)
(***************************************************************************)
EXTENDS VmRpc, Sequences

CONSTANTS
  Images,     \* number of images on the command line
  Types,      \* the types of server, "VM", "LPAR" or both
  Rest,       \* length of what follows the fields snipl reads of a response, in units
  Faults      \* which failures the environment may show

FaultKind == {"no_library", "connect_timeout", "refused", "resolve", "certificate", "send_error",
              "no_answer", "close", "refusal", "pieces", "rpc_error", "logout_error", "unanswered"}

ASSUME SniplCommandAssumption ==
  /\ Images \in Nat \ {0} /\ Types \subseteq {"VM", "LPAR"} /\ Rest \in 0..6
  /\ Faults \subseteq FaultKind

\* Two bytes of the stream are one unit.  The server sends a request id and then the fields
\* output_length, request_id, return_code and reason_code, four bytes each.
IdLength == 2
BodyLength == 8
ReturnCode == {5, 6}   \* the units of return_code within the body

Image == 1..Images
Unit == [request : Image, zero : BOOLEAN]
Outcome == {"ok", "refused", "send_failed", "timed_out", "no_connection", "not_received", "unanswered",
            "rejected", "none"}

VARIABLES
  listing,   \* the operation is LIST
  type,      \* server->type
  pc,        \* where command_processing is
  image,     \* index of the image it works on
  ret,       \* its variable ret, 0 or not
  outcome,   \* outcome[j]: what the operation on image j returned
  sock,      \* what priv->sockid refers to
  stream,    \* units the server has sent over this connection and that are on their way
  buffer,    \* units that have arrived and are not read
  want,      \* vm6_recv_all: how many units are asked for
  total,     \* vm6_recv_all: how many have been read
  outlist,   \* vm6_recv_all: the units of the last recv
  inbox,     \* requests the server has received over this connection, not yet answered
  executed,  \* images for which the server has carried out the operation
  taken      \* taken[j]: units of the response for image j that were read

socketVars == <<listing, type, pc, image, ret, outcome, sock, stream, buffer, want, total, outlist, inbox,
                executed, taken>>
vars == <<socketVars, rpcVars>>

network == <<stream, buffer, inbox>>
receive == <<want, total, outlist>>

Init ==
  /\ listing \in BOOLEAN /\ type \in Types /\ pc = "prepare" /\ image = 1 /\ ret = 0
  /\ outcome = [j \in Image |-> "none"]
  /\ sock = "none" /\ stream = <<>> /\ buffer = <<>>
  /\ want = 0 /\ total = 0 /\ outlist = <<>>
  /\ inbox = <<>> /\ executed = {} /\ taken = [j \in Image |-> 0]
  /\ RpcInit

(***************************************************************************)
(* snipl_prepare, snipl_prepare_check, snipl_login.  The images of a z/VM  *)
(* system are listed from the configuration file.                          *)
(***************************************************************************)
ListVm ==
  /\ pc = "prepare" /\ listing /\ type = "VM"
  /\ pc' = "out"
  /\ UNCHANGED <<listing, type, image, ret, outcome, sock, network, receive, executed, taken>>

PrepareFails ==
  /\ pc = "prepare" /\ ~(listing /\ type = "VM") /\ "no_library" \in Faults
  /\ ret' = 1 /\ pc' = "out"
  /\ UNCHANGED <<listing, type, image, outcome, sock, network, receive, executed, taken>>

Prepare ==
  /\ pc = "prepare" /\ ~(listing /\ type = "VM")
  /\ pc' = "login"
  /\ UNCHANGED <<listing, type, image, ret, outcome, sock, network, receive, executed, taken>>

\* vm6_server_login: the results of getaddrinfo, connect and the comparison of fingerprints.
\* A refused connect counts as connected; a name that does not resolve leaves priv->sockid
\* alone; a connection that is not there in time is still being set up.
Connect(res) ==
  /\ res = "connected" \/ res \in Faults
  /\ sock' = CASE res \in {"connected", "certificate"} -> "open"
               [] res = "refused" -> "dead"
               [] res = "connect_timeout" -> "connecting"
               [] res = "resolve" -> sock
  /\ IF res = "resolve" THEN UNCHANGED network
     ELSE stream' = <<>> /\ buffer' = <<>> /\ inbox' = <<>>
  /\ ret' = IF res \in {"connected", "refused"} THEN 0 ELSE 1

ConnectResult == {"connected", "refused", "connect_timeout", "resolve", "certificate"}

Login ==
  /\ pc = "login" /\ type = "VM"
  /\ \E res \in ConnectResult :
       /\ Connect(res)
       /\ pc' = CASE res = "certificate" -> "confirm"
                  [] res \in {"connect_timeout", "resolve"} -> "fallback"
                  [] OTHER -> "operate"
  /\ UNCHANGED <<listing, type, image, outcome, receive, executed, taken>>

\* The user may accept the certificate: ret keeps its value.
Confirm ==
  /\ pc = "confirm"
  /\ pc' \in {"operate", "logout"}
  /\ UNCHANGED <<listing, type, image, ret, outcome, sock, network, receive, executed, taken>>

\* Another login error: log out and go on with the RPC interface.
Fallback ==
  /\ pc = "fallback"
  /\ sock' = "none"
  /\ \/ "no_library" \in Faults /\ pc' = "out" /\ UNCHANGED <<listing, type, ret, rpcVars>>
     \/ "rpc_error" \in Faults /\ pc' = "out" /\ type' = "VM5" /\ UNCHANGED <<ret, rpcVars>>
     \/ pc' = "operate" /\ type' = "VM5" /\ ret' = 0 /\ RpcLogin
  /\ UNCHANGED <<listing, image, outcome, network, receive, executed, taken>>

LoginLpar ==
  /\ pc = "login" /\ type = "LPAR"
  /\ \/ pc' = "operate" /\ UNCHANGED ret
     \/ "rpc_error" \in Faults /\ pc' = "out" /\ ret' = 1
  /\ UNCHANGED <<listing, type, image, outcome, sock, network, receive, executed, taken>>

(***************************************************************************)
(* vm6_command_handling: send the request, receive the request id, receive *)
(* the fields, look at return_code.                                        *)
(***************************************************************************)
Finish(o) ==
  /\ outcome' = [outcome EXCEPT ![image] = o]
  /\ ret' = IF o = "ok" THEN 0 ELSE 1
  /\ pc' = "print"

Expect(n, where) ==
  /\ want' = n /\ total' = 0 /\ outlist' = <<>> /\ pc' = where

\* A connection that is still being set up may be there before the send times out.
Send ==
  /\ pc = "operate" /\ type = "VM" /\ sock \in {"open", "connecting", "closed"}
  /\ sock' = IF sock = "connecting" THEN "open" ELSE sock
  /\ inbox' = IF sock = "closed" THEN inbox ELSE Append(inbox, image)
  /\ Expect(IdLength, "recv_id")
  /\ UNCHANGED <<listing, type, image, ret, outcome, stream, buffer, executed, taken>>

SendFails ==
  /\ pc = "operate" /\ type = "VM"
  /\ sock \in {"dead", "connecting"} \/ "send_error" \in Faults
  /\ Finish("send_failed")
  /\ UNCHANGED <<listing, type, image, sock, network, receive, executed, taken>>

\* One recv of vm6_recv_all.  Every chunk is written to the start of outlist.
Chunk == IF want - total < Len(buffer) THEN want - total ELSE Len(buffer)

Take ==
  /\ outlist' = SubSeq(buffer, 1, Chunk)
  /\ buffer' = SubSeq(buffer, Chunk + 1, Len(buffer))
  /\ taken' = [taken EXCEPT ![image] = @ + Chunk]
  /\ UNCHANGED <<listing, type, image, sock, stream, inbox, executed>>

Receiving == pc \in {"recv_id", "recv_body"}

Receive ==
  /\ Receiving /\ buffer # <<>> /\ total + Chunk < want
  /\ Take
  /\ total' = total + Chunk
  /\ UNCHANGED <<pc, ret, outcome, want>>

\* vm6_recv_all returns what the last recv returned, not the total.
Enough(n) == n = want

Accepts(body) == \A i \in ReturnCode : i <= Len(body) => body[i].zero

ReceiveLast ==
  /\ Receiving /\ buffer # <<>> /\ total + Chunk = want
  /\ Take
  /\ IF ~Enough(Chunk) THEN Finish("not_received") /\ UNCHANGED <<want, total>>
     ELSE IF pc = "recv_id" THEN /\ want' = BodyLength /\ total' = 0 /\ pc' = "recv_body"
                                 /\ UNCHANGED <<ret, outcome>>
     ELSE /\ Finish(IF Accepts(outlist') THEN "ok" ELSE "refused")
          /\ UNCHANGED <<want, total>>

AtEnd == buffer = <<>> /\ stream = <<>> /\ sock = "closed"

\* Mutated form: vm6_recv_all tries again at the end of the connection.
BugSpins == Receiving /\ AtEnd /\ UNCHANGED socketVars

\* The other side has closed the connection and all it sent is read, be it a part of a response.
ReceiveEnd ==
  /\ Receiving /\ AtEnd
  /\ Finish("no_connection")
  /\ UNCHANGED <<listing, type, image, sock, network, receive, executed, taken>>

WaitTimeout ==
  /\ Receiving /\ buffer = <<>> /\ ~AtEnd /\ "no_answer" \in Faults
  /\ Finish("timed_out")
  /\ UNCHANGED <<listing, type, image, sock, network, receive, executed, taken>>

ListLpar ==
  /\ pc = "operate" /\ listing
  /\ pc' = "logout"
  /\ UNCHANGED <<listing, type, image, ret, outcome, sock, network, receive, executed, taken>>

\* The SE: the command is sent, or the send ends with an error and the SE may have it all the same.
SendLpar ==
  /\ pc = "operate" /\ type = "LPAR" /\ ~listing
  /\ \/ pc' = "await" /\ UNCHANGED <<ret, outcome, executed>>
     \/ /\ "send_error" \in Faults /\ Finish("send_failed")
        /\ executed' \in {executed, executed \cup {image}}
  /\ UNCHANGED <<listing, type, image, sock, network, receive, taken>>

\* The acknowledgement says what became of the operation; an error of the wait, or an event that
\* does not fit into the buffer, says nothing.
AwaitLpar ==
  /\ pc = "await"
  /\ \/ Finish("ok") /\ executed' = executed \cup {image}
     \/ Finish("refused") /\ UNCHANGED executed
     \/ /\ "unanswered" \in Faults /\ Finish("unanswered")
        /\ executed' \in {executed, executed \cup {image}}
  /\ UNCHANGED <<listing, type, image, sock, network, receive, taken>>

\* The wait has timed out and starts again, as often as it takes.
WaitAgain == pc = "await" /\ UNCHANGED vars

\* The RPC interface, with the session the fallback has opened.
OperateRpc ==
  /\ pc = "operate" /\ type = "VM5"
  /\ \/ RpcAnswered(TRUE) /\ Finish("ok") /\ executed' = executed \cup {image}
     \/ RpcAnswered(FALSE) /\ Finish("refused") /\ UNCHANGED executed
     \/ RpcRejected /\ Finish("rejected") /\ UNCHANGED executed
     \/ /\ "unanswered" \in Faults /\ Finish("unanswered")
        /\ \/ RpcUnanswered(TRUE) /\ executed' \in {executed, executed \cup {image}}
           \/ RpcUnanswered(FALSE) /\ UNCHANGED executed
  /\ UNCHANGED <<listing, type, image, sock, network, receive, taken>>

(***************************************************************************)
(* The loop over the images.  A z/VM system is logged in to again before   *)
(* every further image; whether that worked is not looked at.              *)
(***************************************************************************)
\* Mutated forms: no second login; the loop leaves out the last image.
BugKeepConnection ==
  /\ pc = "print" /\ image < Images
  /\ image' = image + 1 /\ pc' = "operate"
  /\ UNCHANGED <<listing, type, ret, outcome, sock, network, receive, executed, taken>>

BugSkipsLast ==
  /\ pc = "print" /\ image < Images
  /\ IF image + 1 = Images THEN pc' = "logout" /\ UNCHANGED image
     ELSE image' = image + 1 /\ pc' = "operate"
  /\ UNCHANGED <<listing, type, ret, outcome, sock, network, receive, executed, taken>>

NextImage ==
  /\ pc = "print" /\ image < Images
  /\ image' = image + 1 /\ pc' = "operate"
  /\ IF type = "VM" THEN \E res \in ConnectResult : Connect(res)
     ELSE UNCHANGED <<ret, sock, network>>
  /\ UNCHANGED <<listing, type, outcome, receive, executed, taken>>

LastImage ==
  /\ pc = "print" /\ image = Images
  /\ pc' = "logout"
  /\ UNCHANGED <<listing, type, image, ret, outcome, sock, network, receive, executed, taken>>

\* Mutated form: ret is what the logout returns.
BugLogoutWins ==
  /\ pc = "logout" /\ pc' = "out" /\ sock' = "none"
  /\ \/ ret' = 0
     \/ "logout_error" \in Faults /\ type = "LPAR" /\ ret' = 1
  /\ UNCHANGED <<listing, type, image, outcome, network, receive, executed, taken>>

\* An error of the logout counts only if nothing else has gone wrong.
Logout ==
  /\ pc = "logout"
  /\ pc' = "out" /\ sock' = "none"
  /\ \/ UNCHANGED ret
     \/ "logout_error" \in Faults /\ type = "LPAR" /\ ret' = 1
  /\ UNCHANGED <<listing, type, image, outcome, network, receive, executed, taken>>

Exit ==
  /\ pc = "out" /\ pc' = "done"
  /\ UNCHANGED <<listing, type, image, ret, outcome, sock, network, receive, executed, taken>>

(***************************************************************************)
(* The SMAPI request server at the other end.                              *)
(***************************************************************************)
Word(j, zero) == <<[request |-> j, zero |-> TRUE], [request |-> j, zero |-> zero]>>

\* A counter of one, followed by zeros: one image was processed.
RestOf(j) == SubSeq(Word(j, FALSE) \o Word(j, TRUE) \o Word(j, TRUE), 1, Rest)

Response(j, ok, reason) ==
  Word(j, FALSE) \o Word(j, FALSE) \o Word(j, FALSE) \o Word(j, ok) \o Word(j, reason) \o RestOf(j)

Serve ==
  /\ inbox # <<>> /\ sock = "open"
  /\ inbox' = Tail(inbox)
  /\ LET j == Head(inbox)
     IN  \/ stream' = stream \o Response(j, TRUE, TRUE) /\ executed' = executed \cup {j}
         \/ /\ "refusal" \in Faults /\ UNCHANGED executed
            /\ stream' = stream \o Response(j, FALSE, FALSE)
         \/ "no_answer" \in Faults /\ UNCHANGED <<stream, executed>>
  /\ UNCHANGED <<listing, type, pc, image, ret, outcome, sock, buffer, receive, taken, rpcVars>>

Arrive ==
  /\ stream # <<>> /\ sock \in {"open", "closed"}
  /\ \E n \in IF "pieces" \in Faults THEN 1..Len(stream) ELSE {Len(stream)} :
       /\ buffer' = buffer \o SubSeq(stream, 1, n)
       /\ stream' = SubSeq(stream, n + 1, Len(stream))
  /\ UNCHANGED <<listing, type, pc, image, ret, outcome, sock, receive, inbox, executed, taken, rpcVars>>

\* A server that hangs up in the middle of a response sends no more than the start of it.
Close ==
  /\ "close" \in Faults /\ sock = "open"
  /\ sock' = "closed"
  /\ \E n \in 0..Len(stream) : stream' = SubSeq(stream, 1, n)
  /\ UNCHANGED <<listing, type, pc, image, ret, outcome, buffer, inbox, receive, executed, taken, rpcVars>>

Elsewhere ==
  \/ ListVm \/ PrepareFails \/ Prepare \/ Login \/ Confirm \/ LoginLpar
  \/ Send \/ SendFails \/ Receive \/ ReceiveLast \/ ReceiveEnd \/ WaitTimeout \/ ListLpar \/ SendLpar
  \/ NextImage \/ LastImage \/ Logout \/ Exit

Snipl == (Elsewhere /\ UNCHANGED rpcVars) \/ Fallback \/ OperateRpc

\* The wait for an SE, which ends when the SE wants.
Acknowledged == AwaitLpar /\ UNCHANGED rpcVars

RequestServer == Serve \/ Close

Ended == pc = "done" /\ UNCHANGED vars

Next == Snipl \/ Acknowledged \/ WaitAgain \/ RequestServer \/ Arrive \/ Ended

Spec == Init /\ [][Next]_vars

\* snipl is a sequential program; the network delivers what was sent; a request server without
\* the fault no_answer answers.  Nothing is assumed of an SE.
FairSpec == Spec /\ WF_vars(Snipl) /\ WF_vars(Serve) /\ WF_vars(Arrive)

(***************************************************************************)
(* Properties.                                                             *)
(***************************************************************************)
TypeOK ==
  /\ listing \in BOOLEAN
  /\ type \in {"VM", "VM5", "LPAR"}
  /\ pc \in {"prepare", "login", "confirm", "fallback", "operate", "recv_id", "recv_body", "await",
             "print", "logout", "out", "done"}
  /\ image \in Image /\ ret \in {0, 1}
  /\ outcome \in [Image -> Outcome]
  /\ sock \in {"none", "open", "dead", "connecting", "closed"}
  /\ stream \in Seq(Unit) /\ buffer \in Seq(Unit) /\ outlist \in Seq(Unit)
  /\ inbox \in Seq(Image)
  /\ want \in {0, IdLength, BodyLength} /\ total \in 0..want
  /\ executed \subseteq Image /\ taken \in [Image -> Nat]
  /\ token \in 0..valid /\ valid \in Nat

\* What snipl says of an operation is what became of it: one that counts as successful was
\* carried out for this image, one that counts as refused was not.  The response of another
\* command, or what is left of one, is never taken for its own (vm6_command_handling and the
\* login before every further image).
OutcomeIsOwn ==
  \A j \in Image : /\ outcome[j] = "ok" => j \in executed
                   /\ outcome[j] = "refused" => j \notin executed

\* VSMSERVE rejects a request for its session token only after a call that brought no answer:
\* whatever an answer says, the token in it is used for the next image (vm_image_activate and
\* the operations like it).
TokenIsKept ==
  \A j \in Image : outcome[j] = "rejected" => \E k \in 1..j - 1 : outcome[k] = "unanswered"

\* When snipl exits with 0 the operation on the last image was successful (the loop and the
\* label logout of command_processing).
ZeroMeansLastDone == pc = "done" /\ ret = 0 /\ ~listing => outcome[Images] = "ok"

\* The type invariant, whose bound for image is the one of the loop, together with
\* ZeroMeansLastDone (command_processing).
IInv == TypeOK /\ ZeroMeansLastDone

\* When snipl exits with 0 every operation was successful.
ZeroMeansAllDone == pc = "done" /\ ret = 0 /\ ~listing => \A j \in Image : outcome[j] = "ok"

\* After a login every image was operated on, whatever became of the ones before it: one
\* failure does not end the loop (the loop of command_processing).
EveryImageTried ==
  pc = "done" /\ outcome[1] # "none" => \A j \in Image : outcome[j] # "none"

\* A response is called "not received" only when it has not arrived in full (vm6_recv_all and
\* its callers).
NotReceivedIsTrue ==
  \A j \in Image : outcome[j] = "not_received" => taken[j] \notin {IdLength, IdLength + BodyLength}

\* A call without an answer concerns one image only: the next one is operated on as if there had
\* been none.
LossIsOver == \A j \in Image : outcome[j] # "rejected"

\* snipl comes to an end: a z/VM system that falls silent, or hangs up with a part of a response
\* sent, does not keep it waiting (the time limits and the loop of vm6_recv_all).  Only an SE that
\* never acknowledges a command does (the wait of command_handling has no limit).
SniplEnds == <>(pc = "done") \/ <>[](pc = "await")
=============================================================================
