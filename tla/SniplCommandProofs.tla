-------------------------- MODULE SniplCommandProofs --------------------------
(***************************************************************************)
(* Proofs about SniplCommand, for every number of images, both types of    *)
(* server, every length of a response and all failures.                    *)
(***************************************************************************)
EXTENDS SniplCommand, TLAPS

Before == {"prepare", "login", "confirm", "fallback"}
Within == {"operate", "await", "recv_id", "recv_body"}
Behind == {"logout", "out", "done"}

Shape ==
  /\ image \in Image /\ outcome \in [Image -> Outcome] /\ type \in {"VM", "VM5", "LPAR"}
  /\ pc \in Before \cup Within \cup {"print"} \cup Behind
  /\ pc \in {"recv_id", "recv_body", "confirm", "fallback"} => type = "VM"
  /\ pc = "await" => type = "LPAR"
  /\ pc \in Before => type # "VM5"

Untried == image = 1 /\ \A j \in Image : outcome[j] = "none"

\* A list is not an operation on images.
Listed == listing => Untried /\ (type = "LPAR" \/ pc \in {"prepare", "out", "done"}) /\ pc \notin {"print", "await"}

\* The loop has tried the images up to the current one, or all, or has not begun.
Loop ==
  /\ pc \in Before => Untried
  /\ pc \in Within => \A j \in Image : outcome[j] = "none" <=> j >= image
  /\ pc = "print" => \A j \in Image : outcome[j] = "none" <=> j > image
  /\ pc \in Behind => Untried \/ \A j \in Image : outcome[j] # "none"

\* ret is about the current image, and not 0 where no image was tried.
Return ==
  /\ pc \in {"confirm", "fallback"} => ret = 1
  /\ pc = "print" /\ ret = 0 => outcome[image] = "ok"
  /\ pc \in Behind /\ ret = 0 /\ ~listing => outcome[Images] = "ok"

\* The token is the one VSMSERVE expects, or an earlier image had no answer.
Tokens ==
  /\ pc = "operate" /\ type = "VM5" =>
       token = valid \/ \E k \in Image : k < image /\ outcome[k] = "unanswered"
  /\ pc = "print" /\ type = "VM5" =>
       token = valid \/ \E k \in Image : k <= image /\ outcome[k] = "unanswered"
  /\ TokenIsKept

LoopInv == Shape /\ Listed /\ Loop /\ Return /\ Tokens

Observed == <<listing, type, pc, image, ret, outcome, token, valid>>

LEMMA ImageNumbers ==
  /\ Images \in Nat \ {0} /\ Image = 1..Images /\ 1 \in Image /\ Images \in Image
  BY SniplCommandAssumption DEF Image

\* Only what is observed matters.
LEMMA Unobserved ==
  ASSUME LoopInv, UNCHANGED Observed
  PROVE  LoopInv'
  BY DEF LoopInv, Observed, Shape, Untried, Listed, Loop, Return, Tokens, TokenIsKept

\* An operation has ended.
LEMMA Finished ==
  ASSUME LoopInv, pc \in Within, ~listing, NEW o \in Outcome \ {"none"}, Finish(o),
         UNCHANGED <<listing, type, image>>,
         o = "rejected" => \E k \in Image : k < image /\ outcome[k] = "unanswered",
         type = "VM5" =>
           token' = valid' \/ o = "unanswered" \/ \E k \in Image : k < image /\ outcome[k] = "unanswered"
  PROVE  LoopInv'
<1>1. /\ image \in Image /\ outcome \in [Image -> Outcome] /\ type \in {"VM", "VM5", "LPAR"}
      /\ \A j \in Image : outcome[j] = "none" <=> j >= image
      /\ TokenIsKept
  BY DEF LoopInv, Shape, Loop, Tokens
<1>2. /\ pc' = "print" /\ outcome' = [outcome EXCEPT ![image] = o]
      /\ (ret' = 0 => o = "ok")
  BY DEF Finish
<1>3. outcome'[image] = o /\ \A j \in Image : j # image => outcome'[j] = outcome[j]
  BY <1>1, <1>2
<1>4. Shape'
  BY <1>1, <1>2 DEF Shape, Before
<1>5. Loop'
  BY <1>1, <1>2, <1>3, ImageNumbers DEF Loop, Before, Within, Behind
<1>6. Listed' /\ Return'
  BY <1>2, <1>3 DEF Listed, Return, Behind
<1>7. \A k \in Image : k < image => outcome'[k] = outcome[k]
  BY <1>1, <1>3, ImageNumbers
<1>8. TokenIsKept'
  <2> SUFFICES ASSUME NEW j \in Image', outcome'[j] = "rejected"
               PROVE  \E k \in 1..j - 1 : outcome'[k] = "unanswered"
    BY DEF TokenIsKept
  <2>0. j \in Image
    BY DEF Image
  <2>1. CASE j = image
    <3>1. PICK k \in Image : k < image /\ outcome[k] = "unanswered"
      BY <1>3, <2>1
    <3> QED
      BY <1>7, <2>0, <2>1, <3>1, ImageNumbers
  <2>2. CASE j # image
    <3>1. outcome[j] = "rejected"
      BY <1>3, <2>0, <2>2
    <3>2. PICK k \in 1..j - 1 : outcome[k] = "unanswered"
      BY <1>1, <2>0, <3>1 DEF TokenIsKept
    <3>3. k \in Image
      BY <2>0, <3>2, ImageNumbers
    <3>4. ~(image >= image) \/ outcome[image] = "none"
      BY <1>1
    <3>5. k # image
      BY <1>1, <3>2, <3>4, ImageNumbers
    <3> QED
      BY <1>3, <3>2, <3>3, <3>5
  <2> QED
    BY <2>1, <2>2
<1>9. Tokens'
  BY <1>1, <1>2, <1>3, <1>7, <1>8, ImageNumbers DEF Tokens
<1> QED
  BY <1>4, <1>5, <1>6, <1>9 DEF LoopInv

\* A step before the loop, or behind it.
LEMMA Outside ==
  ASSUME LoopInv, pc \in Before \cup Behind, UNCHANGED <<listing, image, outcome>>,
         type' \in {"VM", "VM5", "LPAR"}, pc' \in Before => type' # "VM5",
         pc' \in Before \cup {"operate"} \cup Behind, pc \in Behind => pc' \in Behind,
         listing => type' = "LPAR" \/ pc' \in {"out", "done"},
         pc' \in {"confirm", "fallback"} => ret' = 1 /\ type' = "VM",
         pc' \in Behind /\ ret' = 0 => listing \/ (pc \in Behind /\ ret = 0),
         pc' = "operate" /\ type' = "VM5" => token' = valid'
  PROVE  LoopInv'
<1>1. Shape' /\ Listed'
  BY DEF LoopInv, Shape, Listed, Untried, Before, Behind, Within
<1>2. Loop'
  <2>1. CASE pc \in Before
    <3>1. Untried
      BY <2>1 DEF LoopInv, Loop
    <3> QED
      BY <3>1, ImageNumbers DEF Loop, Untried, Before, Behind, Within
  <2>2. CASE pc \in Behind
    BY <2>2 DEF LoopInv, Loop, Untried, Before, Behind, Within
  <2> QED
    BY <2>1, <2>2
<1>3. Return'
  BY DEF LoopInv, Return, Before, Behind
<1>4. Tokens'
  BY DEF LoopInv, Tokens, TokenIsKept, Before, Behind
<1> QED
  BY <1>1, <1>2, <1>3, <1>4 DEF LoopInv

LEMMA BeforeStep ==
  ASSUME LoopInv, ListVm \/ PrepareFails \/ Prepare \/ Login \/ Confirm \/ LoginLpar, UNCHANGED rpcVars
  PROVE  LoopInv'
<1>1. /\ type \in {"VM", "LPAR"} /\ pc \in Before
      /\ listing => type = "LPAR" \/ pc \in {"prepare", "out", "done"}
      /\ pc \in {"confirm", "fallback"} => ret = 1 /\ type = "VM"
  BY DEF LoopInv, Shape, Listed, Return, ListVm, PrepareFails, Prepare, Login, Confirm, LoginLpar, Before
<1>2. CASE ListVm
  BY <1>1, <1>2, Outside DEF ListVm, Before, Behind
<1>3. CASE PrepareFails
  BY <1>1, <1>3, Outside DEF PrepareFails, Before, Behind
<1>4. CASE Prepare
  BY <1>1, <1>4, Outside DEF Prepare, Before, Behind
<1>5. CASE Login
  <2>1. PICK res \in ConnectResult :
          /\ Connect(res)
          /\ pc' = CASE res = "certificate" -> "confirm"
                     [] res \in {"connect_timeout", "resolve"} -> "fallback"
                     [] OTHER -> "operate"
    BY <1>5 DEF Login
  <2>2. pc' \in {"confirm", "fallback", "operate"} /\ (pc' \in {"confirm", "fallback"} => ret' = 1)
    BY <2>1 DEF Connect, ConnectResult
  <2>3. /\ pc = "login" /\ type = "VM" /\ ~listing /\ UNCHANGED <<listing, type, image, outcome>>
    BY <1>1, <1>5 DEF Login
  <2>4. /\ pc \in Before \cup Behind /\ ~(pc \in Behind) /\ ~(pc' \in Behind) /\ type' = "VM"
        /\ pc' \in Before \cup {"operate"} \cup Behind
    BY <2>2, <2>3 DEF Before, Behind
  <2>5. UNCHANGED <<listing, image, outcome>>
    BY <2>3
  <2> QED
    BY <2>2, <2>3, <2>4, <2>5, Outside
<1>6. CASE Confirm
  BY <1>1, <1>6, Outside DEF Confirm, Before, Behind
<1>7. CASE LoginLpar
  BY <1>1, <1>7, Outside DEF LoginLpar, Before, Behind
<1> QED
  BY <1>2, <1>3, <1>4, <1>5, <1>6, <1>7

LEMMA FallbackStep ==
  ASSUME LoopInv, Fallback
  PROVE  LoopInv'
<1>1. /\ pc = "fallback" /\ type = "VM" /\ ret = 1 /\ ~listing
  BY DEF LoopInv, Shape, Listed, Return, Fallback
<1>2. UNCHANGED <<listing, image, outcome>> /\ (pc' = "operate" => token' = valid')
  BY DEF Fallback, RpcLogin
<1>3. pc' \in {"out", "operate"} /\ type' \in {"VM", "VM5"} /\ (pc' = "out" => ret' = 1)
  BY <1>1 DEF Fallback
<1>4. /\ pc \in Before \cup Behind /\ ~(pc \in Behind) /\ type' \in {"VM", "VM5", "LPAR"}
      /\ pc' \in Before \cup {"operate"} \cup Behind
      /\ pc' \notin Before /\ pc' \notin {"confirm", "fallback"} /\ (pc' \in Behind => ret' # 0)
  BY <1>1, <1>3 DEF Before, Behind
<1> QED
  BY <1>1, <1>2, <1>4, Outside

LEMMA BehindStep ==
  ASSUME LoopInv, Logout \/ Exit, UNCHANGED rpcVars
  PROVE  LoopInv'
<1>1. /\ pc \in Behind /\ pc' \in {"out", "done"} /\ UNCHANGED <<listing, type, image, outcome>>
      /\ ret' = ret \/ ret' = 1
  BY DEF Logout, Exit, Behind
<1>2. type \in {"VM", "VM5", "LPAR"} /\ (listing => type = "LPAR" \/ pc' \in {"out", "done"})
  BY <1>1 DEF LoopInv, Shape
<1> QED
  BY <1>1, <1>2, Outside DEF Before, Behind

\* The bytes of a response are read.
LEMMA ReadingStep ==
  ASSUME LoopInv, pc \in Within, type = "VM", UNCHANGED <<listing, type, image, ret, outcome, token, valid>>,
         pc' \in {"recv_id", "recv_body"}
  PROVE  LoopInv'
<1>1. Shape' /\ Listed' /\ Loop' /\ Return' /\ Tokens'
  BY DEF LoopInv, Shape, Listed, Loop, Return, Tokens, TokenIsKept, Before, Within, Behind
<1> QED
  BY <1>1 DEF LoopInv

LEMMA SocketStep ==
  ASSUME LoopInv, Send \/ SendFails \/ Receive \/ ReceiveLast \/ ReceiveEnd \/ WaitTimeout, UNCHANGED rpcVars
  PROVE  LoopInv'
<1>1. pc \in Within /\ type = "VM"
  BY DEF Send, SendFails, Receive, ReceiveLast, ReceiveEnd, WaitTimeout, Receiving, Within, LoopInv, Shape
<1>2. ~listing
  BY <1>1 DEF LoopInv, Listed, Within
<1>3. UNCHANGED <<listing, type, image, rpcVars>>
  BY DEF Send, SendFails, Receive, ReceiveLast, ReceiveEnd, WaitTimeout, Take
<1>4. \/ UNCHANGED <<ret, outcome>> /\ pc' \in {"recv_id", "recv_body"}
      \/ \E o \in Outcome \ {"none", "rejected"} : Finish(o)
  <2>1. CASE Send
    BY <2>1 DEF Send, Expect
  <2>2. CASE SendFails \/ ReceiveEnd \/ WaitTimeout
    BY <2>2 DEF SendFails, ReceiveEnd, WaitTimeout, Outcome
  <2>3. CASE Receive
    BY <2>3 DEF Receive, Receiving
  <2>4. CASE ReceiveLast
    BY <2>4 DEF ReceiveLast, Outcome
  <2> QED
    BY <2>1, <2>2, <2>3, <2>4
<1>5. CASE UNCHANGED <<ret, outcome>> /\ pc' \in {"recv_id", "recv_body"}
  BY <1>1, <1>3, <1>5, ReadingStep DEF rpcVars
<1>6. ASSUME NEW o \in Outcome \ {"none", "rejected"}, Finish(o) PROVE LoopInv'
  BY <1>1, <1>2, <1>3, <1>6, Finished
<1> QED
  BY <1>4, <1>5, <1>6

LEMMA LparStep ==
  ASSUME LoopInv, SendLpar \/ AwaitLpar, UNCHANGED rpcVars
  PROVE  LoopInv'
<1>1. pc \in Within /\ ~listing /\ type = "LPAR" /\ UNCHANGED <<listing, type, image>>
  BY DEF SendLpar, AwaitLpar, Within, LoopInv, Shape, Listed
<1>2. CASE \E o \in {"ok", "refused", "send_failed", "unanswered"} : Finish(o)
  BY <1>1, <1>2, Finished DEF Outcome
<1>3. CASE pc = "operate" /\ pc' = "await" /\ UNCHANGED <<ret, outcome>>
  BY <1>1, <1>3
  DEF LoopInv, Shape, Listed, Loop, Return, Tokens, TokenIsKept, Before, Within, Behind, rpcVars
<1> QED
  BY <1>2, <1>3 DEF SendLpar, AwaitLpar

\* The request with the token that is kept.
LEMMA RpcStep ==
  ASSUME LoopInv, OperateRpc
  PROVE  LoopInv'
<1>1. pc = "operate" /\ type = "VM5" /\ UNCHANGED <<listing, type, image>>
  BY DEF OperateRpc
<1>2. ~listing /\ pc \in Within
  BY <1>1 DEF LoopInv, Listed, Within
<1>3. token = valid \/ \E k \in Image : k < image /\ outcome[k] = "unanswered"
  BY <1>1 DEF LoopInv, Tokens
<1>4. ASSUME NEW ok \in BOOLEAN, RpcAnswered(ok) PROVE token' = valid'
  <2>1. PICK op \in ImageOperation :
          \E form \in IF ok THEN {"resok"} ELSE Failures(op) : token' = Kept(op, form, valid')
    BY <1>4 DEF RpcAnswered
  <2>2. PICK form \in IF ok THEN {"resok"} ELSE Failures(op) : token' = Kept(op, form, valid')
    BY <2>1
  <2>3. form \in Saved(op)
    BY <2>2 DEF ImageOperation, Failures, Saved, SavedByActivate, SavedByReset, SavedByDeactivate,
                SavedByGetstatus
  <2> QED
    BY <2>2, <2>3 DEF Kept
<1>5. CASE \E o \in {"ok", "refused"} : Finish(o) /\ token' = valid'
  BY <1>1, <1>2, <1>5, Finished DEF Outcome
<1>6. CASE RpcRejected /\ Finish("rejected")
  <2>1. \E k \in Image : k < image /\ outcome[k] = "unanswered"
    BY <1>3, <1>6 DEF RpcRejected
  <2> QED
    BY <1>1, <1>2, <1>6, <2>1, Finished DEF Outcome
<1>7. CASE Finish("unanswered")
  BY <1>1, <1>2, <1>7, Finished DEF Outcome
<1> QED
  BY <1>4, <1>5, <1>6, <1>7 DEF OperateRpc

LEMMA ListStep ==
  ASSUME LoopInv, ListLpar, UNCHANGED rpcVars
  PROVE  LoopInv'
<1>1. /\ pc = "operate" /\ pc' = "logout" /\ listing /\ Untried /\ type = "LPAR"
      /\ UNCHANGED <<listing, type, image, ret, outcome>>
  BY DEF LoopInv, Listed, ListLpar
<1> QED
  BY <1>1 DEF LoopInv, Shape, Untried, Listed, Loop, Return, Tokens, TokenIsKept, Before, Within, Behind

LEMMA NextImageStep ==
  ASSUME LoopInv, NextImage, UNCHANGED rpcVars
  PROVE  LoopInv'
<1>1. /\ pc = "print" /\ pc' = "operate" /\ image < Images /\ image' = image + 1
      /\ UNCHANGED <<listing, type, outcome, token, valid>>
  BY DEF NextImage, rpcVars
<1>2. /\ image \in Image /\ ~listing
      /\ \A j \in Image : outcome[j] = "none" <=> j > image
  BY <1>1 DEF LoopInv, Shape, Listed, Loop
<1>3. image' \in Image /\ \A j \in Image : j > image <=> j >= image'
  BY <1>1, <1>2, ImageNumbers
<1>4. Shape' /\ Listed' /\ Return'
  BY <1>1, <1>2, <1>3 DEF LoopInv, Shape, Listed, Return, Before, Within, Behind
<1>5. Loop'
  BY <1>1, <1>2, <1>3 DEF Loop, Before, Within, Behind
<1>6. \A k \in Image : k <= image => k < image'
  BY <1>1, <1>2, ImageNumbers
<1>7. Tokens'
  BY <1>1, <1>6 DEF LoopInv, Tokens, TokenIsKept
<1> QED
  BY <1>4, <1>5, <1>7 DEF LoopInv

LEMMA LastImageStep ==
  ASSUME LoopInv, LastImage, UNCHANGED rpcVars
  PROVE  LoopInv'
<1>1. /\ pc = "print" /\ pc' = "logout" /\ image = Images
      /\ UNCHANGED <<listing, type, image, ret, outcome, token, valid>>
  BY DEF LastImage, rpcVars
<1>2. \A j \in Image : outcome[j] # "none"
  BY <1>1, ImageNumbers DEF LoopInv, Loop
<1> QED
  BY <1>1, <1>2 DEF LoopInv, Shape, Listed, Loop, Return, Tokens, TokenIsKept, Before, Within, Behind

LEMMA Keeps ==
  ASSUME LoopInv, [Next]_vars
  PROVE  LoopInv'
<1>1. CASE Elsewhere /\ UNCHANGED rpcVars
  BY <1>1, BeforeStep, SocketStep, ListStep, LparStep, NextImageStep, LastImageStep, BehindStep DEF Elsewhere
<1>2. CASE Fallback \/ OperateRpc
  BY <1>2, FallbackStep, RpcStep
<1>3. CASE Acknowledged
  BY <1>3, LparStep DEF Acknowledged
<1>4. CASE Serve \/ Close \/ Arrive \/ WaitAgain \/ Ended \/ UNCHANGED vars
  <2>1. UNCHANGED Observed
    BY <1>4 DEF Serve, Close, Arrive, WaitAgain, Ended, vars, socketVars, rpcVars, Observed
  <2> QED
    BY <2>1, Unobserved
<1> QED
  BY <1>1, <1>2, <1>3, <1>4 DEF Next, Snipl, RequestServer

LEMMA Initially ==
  ASSUME Init PROVE LoopInv
<1>1. /\ pc = "prepare" /\ image = 1 /\ outcome = [j \in Image |-> "none"] /\ type \in {"VM", "LPAR"}
  BY SniplCommandAssumption DEF Init
<1> QED
  BY <1>1, ImageNumbers
  DEF LoopInv, Shape, Untried, Listed, Loop, Return, Tokens, TokenIsKept, Before, Within, Behind, Outcome

LEMMA LoopInvariant == Spec => []LoopInv
  BY Initially, Keeps, PTL DEF Spec

\* However many images there are and whatever fails, after a login none is left out.
THEOREM NoneIsLeftOut == Spec => []EveryImageTried
<1>1. LoopInv => EveryImageTried
  BY ImageNumbers DEF LoopInv, Loop, Untried, EveryImageTried, Behind
<1> QED
  BY <1>1, LoopInvariant, PTL

\* Whatever fails, 0 means that the operation on the last image was successful.
THEOREM ReturnIsTheLast == Spec => []ZeroMeansLastDone
<1>1. LoopInv => ZeroMeansLastDone
  BY DEF LoopInv, Return, ZeroMeansLastDone, Behind
<1> QED
  BY <1>1, LoopInvariant, PTL

\* Whatever the answers say, the token of the last one is used.
THEOREM TokenStays == Spec => []TokenIsKept
<1>1. LoopInv => TokenIsKept
  BY DEF LoopInv, Tokens
<1> QED
  BY <1>1, LoopInvariant, PTL

(***************************************************************************)
(* The socket interface: types.                                            *)
(***************************************************************************)

OfLength(S, n) == {s \in Seq(S) : Len(s) = n}
Concat(u, s, t) == u = s \o t

\* A sequence of m and one of n make one of m + n.
LEMMA Longer ==
  ASSUME NEW S, NEW m \in Nat, NEW n \in Nat, NEW s \in OfLength(S, m), NEW t \in OfLength(S, n),
         NEW u, Concat(u, s, t), NEW k, k = m + n
  PROVE  /\ u \in OfLength(S, k)
         /\ \A i \in 1..m : u[i] = s[i]
         /\ \A i \in 1..n : u[m + i] = t[i]
<1>1. s \in Seq(S) /\ t \in Seq(S)
  BY DEF OfLength
<1>2. /\ s \o t \in Seq(S) /\ Len(s \o t) = Len(s) + Len(t)
      /\ \A i \in 1..Len(s) : (s \o t)[i] = s[i]
      /\ \A i \in 1..Len(t) : (s \o t)[Len(s) + i] = t[i]
  BY ONLY <1>1
<1>3. Len(s) = m /\ Len(t) = n
  BY DEF OfLength
<1> QED
  BY <1>2, <1>3 DEF OfLength, Concat
\* The beginning of a sequence.
LEMMA Beginning ==
  ASSUME NEW S, NEW m \in Nat, NEW s \in OfLength(S, m), NEW n \in 0..m
  PROVE  SubSeq(s, 1, n) \in OfLength(S, n)
<1>1. s \in Seq(S) /\ Len(s) = m
  BY DEF OfLength
<1>2. \A k \in 0..Len(s) : SubSeq(s, 1, k) \in Seq(S) /\ Len(SubSeq(s, 1, k)) = k
  <2>1. s \in Seq(S)
    BY <1>1
  <2> QED
    BY ONLY <2>1
<1> QED
  BY <1>1, <1>2 DEF OfLength

Chain(v, a, b, c, d, e, r) == v = a \o b \o c \o d \o e \o r

\* In a sequence of fields of two units, the fourth is at the places 7 and 8.
LEMMA Fields ==
  ASSUME NEW S, NEW a \in OfLength(S, 2), NEW b \in OfLength(S, 2), NEW c \in OfLength(S, 2),
         NEW d \in OfLength(S, 2), NEW e \in OfLength(S, 2), NEW n \in Nat, NEW r \in OfLength(S, n),
         NEW v, Chain(v, a, b, c, d, e, r)
  PROVE  v \in OfLength(S, 10 + n) /\ v[7] = d[1] /\ v[8] = d[2]
<1>1. PICK x : Concat(x, a, b)
  BY DEF Concat
<1>2. PICK y : Concat(y, x, c)
  BY DEF Concat
<1>3. PICK z : Concat(z, y, d)
  BY DEF Concat
<1>4. PICK w : Concat(w, z, e)
  BY DEF Concat
<1>5. Concat(v, w, r)
  BY <1>1, <1>2, <1>3, <1>4, Zenon DEF Concat, Chain
<1>6. x \in OfLength(S, 4)
  BY <1>1, Longer
<1>7. y \in OfLength(S, 6)
  BY <1>2, <1>6, Longer
<1>8. z \in OfLength(S, 8) /\ \A i \in 1..2 : z[6 + i] = d[i]
  BY <1>3, <1>7, Longer
<1>9. z[6 + 1] = d[1] /\ z[6 + 2] = d[2]
  BY <1>8
<1>10. w \in OfLength(S, 10) /\ \A i \in 1..8 : w[i] = z[i]
  BY <1>4, <1>8, Longer
<1>11. v \in OfLength(S, 10 + n) /\ \A i \in 1..10 : v[i] = w[i]
  BY <1>5, <1>10, Longer
<1> QED
  BY <1>9, <1>10, <1>11

LEMMA TailFacts ==
  ASSUME NEW S, NEW s \in Seq(S), s # <<>>
  PROVE  Tail(s) \in Seq(S) /\ Head(s) \in S
  OBVIOUS

\* A field is two units, the second of which may be zero.
LEMMA WordFacts ==
  ASSUME NEW j \in Image, NEW zero \in BOOLEAN
  PROVE  /\ Word(j, zero) \in OfLength(Unit, 2)
         /\ Word(j, zero)[1].zero = TRUE /\ Word(j, zero)[2].zero = zero
  BY DEF Word, Unit, OfLength

LEMMA RestOfFields ==
  ASSUME NEW f \in OfLength(Unit, 2), NEW t \in OfLength(Unit, 2)
  PROVE  SubSeq(f \o t \o t, 1, Rest) \in OfLength(Unit, Rest)
<1>1. PICK x : Concat(x, f, t)
  BY DEF Concat
<1>2. PICK y : Concat(y, x, t)
  BY DEF Concat
<1>3. x \in OfLength(Unit, 4)
  BY <1>1, Longer
<1>4. y \in OfLength(Unit, 6)
  BY <1>2, <1>3, Longer
<1>5. SubSeq(y, 1, Rest) \in OfLength(Unit, Rest)
  BY <1>4, Beginning, SniplCommandAssumption
<1> QED
  BY <1>1, <1>2, <1>5 DEF Concat

\* The units of a response: those of return_code are the seventh and the eighth.
LEMMA ResponseFacts ==
  ASSUME NEW j \in Image, NEW ok \in BOOLEAN, NEW reason \in BOOLEAN
  PROVE  /\ Response(j, ok, reason) \in Seq(Unit)
         /\ Response(j, ok, reason)[7].zero = TRUE /\ Response(j, ok, reason)[8].zero = ok
<1>1. Rest \in Nat
  BY SniplCommandAssumption
<1>2. PICK f \in OfLength(Unit, 2) : f = Word(j, FALSE)
  BY WordFacts
<1>3. PICK o \in OfLength(Unit, 2) : o = Word(j, ok) /\ o[1].zero = TRUE /\ o[2].zero = ok
  BY WordFacts
<1>4. PICK g \in OfLength(Unit, 2) : g = Word(j, reason)
  BY WordFacts
<1>5. PICK r \in OfLength(Unit, Rest) : r = RestOf(j)
  <2>1. Word(j, FALSE) \in OfLength(Unit, 2) /\ Word(j, TRUE) \in OfLength(Unit, 2)
    BY WordFacts
  <2> QED
    BY <2>1, RestOfFields, Zenon DEF RestOf
<1>6. PICK v : v = f \o f \o f \o o \o g \o r
  OBVIOUS
<1>7. v = Response(j, ok, reason)
  BY <1>2, <1>3, <1>4, <1>5, <1>6, Zenon DEF Response
<1>8. Chain(v, f, f, f, o, g, r)
  BY <1>6 DEF Chain
<1>9. v \in OfLength(Unit, 10 + Rest) /\ v[7] = o[1] /\ v[8] = o[2]
  BY ONLY <1>1, <1>8, Fields, f \in OfLength(Unit, 2), o \in OfLength(Unit, 2), g \in OfLength(Unit, 2),
     r \in OfLength(Unit, Rest)
<1>10. v \in Seq(Unit)
  BY <1>9 DEF OfLength
<1> QED
  BY <1>3, <1>7, <1>9, <1>10

\* The variables of the socket interface.
Sockets ==
  /\ listing \in BOOLEAN /\ ret \in {0, 1} /\ sock \in {"none", "open", "dead", "connecting", "closed"}
  /\ stream \in Seq(Unit) /\ buffer \in Seq(Unit) /\ outlist \in Seq(Unit) /\ inbox \in Seq(Image)
  /\ want \in {0, IdLength, BodyLength} /\ total \in 0..want
  /\ executed \subseteq Image /\ taken \in [Image -> Nat]
  /\ token \in 0..valid /\ valid \in Nat

\* vm6_recv_all has not yet what it was asked for.
Progress ==
  /\ pc = "recv_id" => want = IdLength /\ total < want
  /\ pc = "recv_body" => want = BodyLength /\ total < want

TypeInv == LoopInv /\ Sockets /\ Progress

\* A sequence taken apart.
LEMMA Split ==
  ASSUME NEW S, NEW s \in Seq(S), NEW n \in 0..Len(s)
  PROVE  /\ SubSeq(s, 1, n) \in Seq(S) /\ Len(SubSeq(s, 1, n)) = n
         /\ \A i \in 1..n : SubSeq(s, 1, n)[i] = s[i]
         /\ SubSeq(s, n + 1, Len(s)) \in Seq(S) /\ Len(SubSeq(s, n + 1, Len(s))) = Len(s) - n
         /\ \A i \in 1..Len(s) - n : SubSeq(s, n + 1, Len(s))[i] = s[n + i]
  OBVIOUS

\* A sequence put together.
LEMMA Joined ==
  ASSUME NEW S, NEW s \in Seq(S), NEW t \in Seq(S)
  PROVE  /\ s \o t \in Seq(S) /\ Len(s \o t) = Len(s) + Len(t)
         /\ \A i \in 1..Len(s) : (s \o t)[i] = s[i]
         /\ \A i \in Len(s) + 1..Len(s) + Len(t) : (s \o t)[i] = t[i - Len(s)]
  OBVIOUS

LEMMA Added ==
  ASSUME NEW S, NEW s \in Seq(S), NEW e \in S
  PROVE  Append(s, e) \in Seq(S)
  OBVIOUS

\* What one recv takes: something, and not more than is asked for.
LEMMA ChunkFacts ==
  ASSUME Sockets, Receiving, Progress, buffer # <<>>
  PROVE  /\ Chunk \in 1..Len(buffer) /\ Chunk \in Nat /\ total + Chunk <= want
         /\ SubSeq(buffer, 1, Chunk) \in Seq(Unit) /\ SubSeq(buffer, Chunk + 1, Len(buffer)) \in Seq(Unit)
         /\ want \in Nat /\ total \in Nat
<1>1. buffer \in Seq(Unit) /\ Len(buffer) \in Nat /\ Len(buffer) # 0
  <2>1. buffer \in Seq(Unit)
    BY DEF Sockets
  <2> QED
    BY <2>1
<1>2. want \in Nat /\ total \in Nat /\ total < want
  BY DEF Sockets, Progress, Receiving, IdLength, BodyLength
<1>3. Chunk \in 1..Len(buffer) /\ total + Chunk <= want
  BY <1>1, <1>2 DEF Chunk
<1>4. Chunk \in 0..Len(buffer) /\ Chunk \in Nat
  BY <1>1, <1>3
<1> QED
  BY <1>1, <1>2, <1>3, <1>4, Split

\* A step that neither sends nor receives.
LEMMA Aside ==
  ASSUME Sockets, pc' \notin {"recv_id", "recv_body"}, UNCHANGED <<listing, receive, taken>>,
         ret' \in {0, 1}, sock' \in {"none", "open", "dead", "connecting", "closed"},
         UNCHANGED network \/ (stream' = <<>> /\ buffer' = <<>> /\ inbox' = <<>>),
         executed' \subseteq Image, token' \in 0..valid', valid' \in Nat
  PROVE  Sockets' /\ Progress'
<1>0. <<>> \in Seq(Unit) /\ <<>> \in Seq(Image)
  OBVIOUS
<1>1. /\ UNCHANGED <<listing, want, total, outlist, taken>>
      /\ stream' \in Seq(Unit) /\ buffer' \in Seq(Unit) /\ inbox' \in Seq(Image)
  <2>1. stream \in Seq(Unit) /\ buffer \in Seq(Unit) /\ inbox \in Seq(Image)
    BY DEF Sockets
  <2>2. UNCHANGED <<stream, buffer, inbox>> \/ (stream' = <<>> /\ buffer' = <<>> /\ inbox' = <<>>)
    BY DEF network
  <2> QED
    BY ONLY <1>0, <2>1, <2>2, UNCHANGED <<listing, receive, taken>> DEF receive
<1>2. Sockets'
  BY <1>1 DEF Sockets, Image, Unit, IdLength, BodyLength
<1>3. Progress'
  BY DEF Progress
<1> QED
  BY <1>2, <1>3

\* The steps before the loop, between two images, and behind it.
LEMMA AroundTypes ==
  ASSUME TypeInv,
         \/ ListVm \/ PrepareFails \/ Prepare \/ Login \/ Confirm \/ LoginLpar
         \/ SendFails \/ ReceiveEnd \/ WaitTimeout \/ ListLpar \/ SendLpar \/ AwaitLpar
         \/ NextImage \/ LastImage \/ Logout \/ Exit,
         UNCHANGED rpcVars
  PROVE  Sockets' /\ Progress'
<1>1. Sockets /\ image \in Image
  BY DEF TypeInv, LoopInv, Shape
<1>2. /\ ret \in {0, 1} /\ sock \in {"none", "open", "dead", "connecting", "closed"}
      /\ executed \subseteq Image /\ token' \in 0..valid' /\ valid' \in Nat
  BY <1>1 DEF Sockets, rpcVars
<1>3. ASSUME NEW res \in ConnectResult, Connect(res)
      PROVE  /\ ret' \in {0, 1} /\ sock' \in {"none", "open", "dead", "connecting", "closed"}
             /\ UNCHANGED network \/ (stream' = <<>> /\ buffer' = <<>> /\ inbox' = <<>>)
  BY <1>2, <1>3 DEF Connect, ConnectResult
<1>4. CASE ListVm \/ PrepareFails \/ Prepare \/ Confirm \/ LoginLpar \/ ListLpar \/ LastImage \/ Logout \/ Exit
  BY <1>1, <1>2, <1>4, Aside
  DEF ListVm, PrepareFails, Prepare, Confirm, LoginLpar, ListLpar, LastImage, Logout, Exit
<1>5. CASE Login \/ (NextImage /\ type = "VM")
  <2>1. PICK res \in ConnectResult : Connect(res)
    BY <1>5 DEF Login, NextImage
  <2>2. /\ UNCHANGED <<listing, receive, taken, executed>>
        /\ pc' \notin {"recv_id", "recv_body"}
    BY <1>5 DEF Login, NextImage
  <2> QED
    BY <1>1, <1>2, <1>3, <2>1, <2>2, Aside
<1>6. CASE NextImage /\ type # "VM"
  BY <1>1, <1>2, <1>6, Aside DEF NextImage
<1>7. CASE SendFails \/ ReceiveEnd \/ WaitTimeout
  BY <1>1, <1>2, <1>7, Aside DEF SendFails, ReceiveEnd, WaitTimeout, Finish
<1>8. CASE SendLpar \/ AwaitLpar
  <2>1. executed' \subseteq Image /\ pc' \in {"await", "print"} /\ ret' \in {0, 1}
    BY <1>1, <1>2, <1>8 DEF SendLpar, AwaitLpar, Finish
  <2>2. UNCHANGED <<listing, receive, taken, network, sock>>
    BY <1>8 DEF SendLpar, AwaitLpar
  <2> QED
    BY <1>1, <1>2, <2>1, <2>2, Aside
<1> QED
  BY <1>4, <1>5, <1>6, <1>7, <1>8

LEMMA RpcTypes ==
  ASSUME TypeInv, Fallback \/ OperateRpc
  PROVE  Sockets' /\ Progress'
<1>1. Sockets /\ image \in Image
  BY DEF TypeInv, LoopInv, Shape
<1>2. /\ ret \in {0, 1} /\ sock \in {"none", "open", "dead", "connecting", "closed"}
      /\ executed \subseteq Image /\ token \in 0..valid /\ valid \in Nat
  BY <1>1 DEF Sockets
<1>3. CASE Fallback
  <2>1. /\ UNCHANGED <<listing, receive, taken, network, executed>>
        /\ pc' \in {"out", "operate"} /\ ret' \in {0, 1} /\ sock' = "none"
    BY <1>2, <1>3 DEF Fallback
  <2>2. token' \in 0..valid' /\ valid' \in Nat
    BY <1>2, <1>3 DEF Fallback, RpcLogin, rpcVars
  <2> QED
    BY <1>1, <1>2, <2>1, <2>2, Aside
<1>4. CASE OperateRpc
  <2>1. UNCHANGED <<listing, receive, taken, network, sock>>
    BY <1>4 DEF OperateRpc
  <2>2. pc' = "print" /\ ret' \in {0, 1}
    BY <1>4 DEF OperateRpc, Finish
  <2>3. executed' \subseteq Image
    BY <1>1, <1>2, <1>4 DEF OperateRpc
  <2>4. token' \in 0..valid' /\ valid' \in Nat
    BY <1>2, <1>4 DEF OperateRpc, RpcAnswered, Kept, RpcRejected, RpcUnanswered
  <2> QED
    BY <1>1, <1>2, <2>1, <2>2, <2>3, <2>4, Aside
<1> QED
  BY <1>3, <1>4

LEMMA SendTypes ==
  ASSUME TypeInv, Send, UNCHANGED rpcVars
  PROVE  Sockets' /\ Progress'
<1>1. Sockets /\ image \in Image
  BY DEF TypeInv, LoopInv, Shape
<1>2. inbox \in Seq(Image) /\ <<>> \in Seq(Unit)
  BY <1>1 DEF Sockets
<1>3. inbox' \in Seq(Image)
  BY <1>1, <1>2, Added DEF Send
<1>4. /\ UNCHANGED <<listing, ret, stream, buffer, executed, taken, token, valid, image>>
      /\ want' = IdLength /\ total' = 0 /\ outlist' = <<>> /\ pc' = "recv_id"
      /\ sock' \in {sock, "open"}
  BY DEF Send, Expect, rpcVars
<1> QED
  BY <1>1, <1>2, <1>3, <1>4 DEF Sockets, Progress, IdLength, BodyLength

LEMMA ReceiveTypes ==
  ASSUME TypeInv, Receive \/ ReceiveLast, UNCHANGED rpcVars
  PROVE  Sockets' /\ Progress'
<1>1. Sockets /\ Progress /\ Receiving /\ buffer # <<>>
  BY DEF TypeInv, Receive, ReceiveLast
<1>2. /\ Chunk \in Nat /\ total + Chunk <= want
      /\ SubSeq(buffer, 1, Chunk) \in Seq(Unit) /\ SubSeq(buffer, Chunk + 1, Len(buffer)) \in Seq(Unit)
      /\ want \in Nat /\ total \in Nat
  BY <1>1, ChunkFacts
<1>3. Take
  BY DEF Receive, ReceiveLast
<1>4. /\ UNCHANGED <<listing, sock, stream, inbox, executed, token, valid>>
      /\ buffer' \in Seq(Unit) /\ outlist' \in Seq(Unit)
  BY <1>2, <1>3 DEF Take, rpcVars
<1>5. taken' \in [Image -> Nat]
  <2>1. taken \in [Image -> Nat] /\ taken' = [taken EXCEPT ![image] = @ + Chunk]
    BY <1>1, <1>3 DEF Sockets, Take
  <2>2. image \in Image
    BY DEF TypeInv, LoopInv, Shape
  <2> QED
    BY <1>2, <2>1, <2>2
<1>6. /\ ret' \in {0, 1} /\ want' \in {0, IdLength, BodyLength} /\ total' \in 0..want'
      /\ Progress'
  <2>1. CASE Receive
    BY <1>1, <1>2, <2>1 DEF Receive, Sockets, Progress, Receiving
  <2>2. CASE ReceiveLast
    <3>1. CASE ~Enough(Chunk)
      BY <1>1, <2>2, <3>1 DEF ReceiveLast, Finish, Sockets, Progress
    <3>2. CASE Enough(Chunk) /\ pc = "recv_id"
      BY <1>1, <2>2, <3>2 DEF ReceiveLast, Sockets, Progress, BodyLength
    <3>3. CASE Enough(Chunk) /\ pc # "recv_id"
      BY <1>1, <2>2, <3>3 DEF ReceiveLast, Finish, Sockets, Progress
    <3> QED
      BY <3>1, <3>2, <3>3
  <2> QED
    BY <2>1, <2>2
<1>7. Sockets'
  BY <1>1, <1>4, <1>5, <1>6 DEF Sockets, Unit, Image, IdLength, BodyLength
<1> QED
  BY <1>6, <1>7

\* The network, seen from no step of snipl.
LEMMA NetworkTypes ==
  ASSUME TypeInv, Serve \/ Arrive \/ Close
  PROVE  Sockets' /\ Progress'
<1>1. /\ Sockets /\ Progress
      /\ UNCHANGED <<listing, pc, image, ret, want, total, outlist, taken, token, valid>>
  BY DEF TypeInv, Serve, Arrive, Close, receive, rpcVars
<1>2. stream \in Seq(Unit) /\ buffer \in Seq(Unit) /\ inbox \in Seq(Image) /\ executed \subseteq Image
  BY <1>1 DEF Sockets
<1>3. /\ stream' \in Seq(Unit) /\ buffer' \in Seq(Unit) /\ inbox' \in Seq(Image) /\ executed' \subseteq Image
  <2>1. CASE Serve
    <3>1. inbox # <<>> /\ inbox' = Tail(inbox) /\ UNCHANGED buffer
      BY <2>1 DEF Serve
    <3>2. Tail(inbox) \in Seq(Image) /\ Head(inbox) \in Image
      BY <1>2, <3>1, TailFacts
    <3>3. \A ok, reason \in BOOLEAN : Response(Head(inbox), ok, reason) \in Seq(Unit)
      BY <3>2, ResponseFacts
    <3>4. \A ok, reason \in BOOLEAN : stream \o Response(Head(inbox), ok, reason) \in Seq(Unit)
      BY <1>2, <3>3, Joined
    <3>5. stream' \in Seq(Unit) /\ executed' \subseteq Image
      BY <1>2, <2>1, <3>2, <3>4 DEF Serve
    <3> QED
      BY <1>2, <3>1, <3>2, <3>5
  <2>2. CASE Arrive
    <3>1. UNCHANGED <<inbox, executed>>
      BY <2>2 DEF Arrive
    <3>2. PICK n \in IF "pieces" \in Faults THEN 1..Len(stream) ELSE {Len(stream)} :
            /\ buffer' = buffer \o SubSeq(stream, 1, n)
            /\ stream' = SubSeq(stream, n + 1, Len(stream))
      BY <2>2 DEF Arrive
    <3>0. n \in 0..Len(stream)
      <4>1. Len(stream) \in Nat
        BY <1>2
      <4> QED
        BY <4>1
    <3>3. SubSeq(stream, 1, n) \in Seq(Unit) /\ SubSeq(stream, n + 1, Len(stream)) \in Seq(Unit)
      BY <1>2, <3>0, Split
    <3> QED
      BY <1>2, <3>1, <3>2, <3>3, Joined
  <2>3. CASE Close
    <3>1. UNCHANGED <<buffer, inbox, executed>>
      BY <2>3 DEF Close
    <3>2. PICK n \in 0..Len(stream) : stream' = SubSeq(stream, 1, n)
      BY <2>3 DEF Close
    <3> QED
      BY <1>2, <3>1, <3>2, Split
  <2> QED
    BY <2>1, <2>2, <2>3
<1>4. sock' \in {"none", "open", "dead", "connecting", "closed"}
  BY <1>1 DEF Serve, Arrive, Close, Sockets
<1>5. Sockets'
  BY <1>1, <1>3, <1>4 DEF Sockets, Image, Unit, IdLength, BodyLength
<1>6. Progress'
  BY <1>1 DEF Progress, IdLength, BodyLength
<1> QED
  BY <1>5, <1>6

LEMMA KeepsTypes ==
  ASSUME TypeInv, [Next]_vars
  PROVE  TypeInv'
<1>1. LoopInv'
  BY Keeps DEF TypeInv
<1> SUFFICES Sockets' /\ Progress'
  BY <1>1 DEF TypeInv
<1>2. CASE Elsewhere /\ UNCHANGED rpcVars
  BY <1>2, AroundTypes, SendTypes, ReceiveTypes DEF Elsewhere
<1>3. CASE Fallback \/ OperateRpc
  BY <1>3, RpcTypes
<1>4. CASE Serve \/ Close \/ Arrive
  BY <1>4, NetworkTypes
<1>5. CASE WaitAgain \/ Ended \/ UNCHANGED vars
  <2>1. UNCHANGED vars
    BY <1>5 DEF WaitAgain, Ended
  <2> QED
    BY <2>1 DEF vars, socketVars, rpcVars, TypeInv, Sockets, Progress, Unit, Image, IdLength, BodyLength
<1>6. CASE Acknowledged
  BY <1>6, AroundTypes DEF Acknowledged
<1> QED
  BY <1>2, <1>3, <1>4, <1>5, <1>6 DEF Next, Snipl, RequestServer

LEMMA InitialTypes ==
  ASSUME Init PROVE TypeInv
<1>1. <<>> \in Seq(Unit) /\ <<>> \in Seq(Image)
  OBVIOUS
<1>2. Sockets
  BY <1>1 DEF Init, RpcInit, Sockets
<1> QED
  BY <1>2, Initially DEF Init, TypeInv, Progress

LEMMA TypeInvariant == Spec => []TypeInv
  BY InitialTypes, KeepsTypes, PTL DEF Spec

\* Whatever the network and the servers do, every variable keeps its range (vm6_recv_all never
\* counts beyond what it was asked for, the loop never beyond the last image), and ZeroMeansLastDone.
THEOREM StaysTyped == Spec => []IInv
<1>1. TypeInv => TypeOK
  BY DEF TypeInv, LoopInv, Shape, Sockets, TypeOK, Before, Within, Behind
<1>2. TypeInv => ZeroMeansLastDone
  BY DEF TypeInv, LoopInv, Return, ZeroMeansLastDone, Behind
<1> QED
  BY <1>1, <1>2, TypeInvariant, PTL DEF IInv

(***************************************************************************)
(* The socket interface: whose response is read.                           *)
(***************************************************************************)

\* Before the request for the current image is known to the other side.
Unasked == Before \cup {"operate", "await"}

Silence == stream = <<>> /\ buffer = <<>> /\ inbox = <<>>

\* Nothing was done for an image behind the current one, nor for the current one before its
\* request.
Ahead ==
  /\ \A j \in executed : j <= image
  /\ \A j \in Image : j > image => taken[j] = 0
  /\ pc \in Unasked => image \notin executed /\ taken[image] = 0 /\ Silence
  /\ type # "VM" => Silence

\* What was read of the current response.
Reading ==
  /\ pc = "recv_id" => taken[image] = total
  /\ pc = "recv_body" => taken[image] = IdLength + total

\* The server has no request but that of the current image, and answers it once.
Pending ==
  /\ pc \in {"recv_id", "recv_body"} =>
       \/ inbox = <<>>
       \/ inbox = <<image>> /\ stream = <<>> /\ buffer = <<>> /\ taken[image] = 0 /\ image \notin executed
  /\ pc \in {"print"} \cup Behind =>
       inbox = <<>> \/ (inbox = <<image>> /\ outcome[image] \notin {"ok", "refused"})

\* The unit at place p of a response tells, if it is one of return_code, what became of the request.
Tells(u, p) == (p = 7 => u.zero) /\ (p = 8 => (u.zero <=> image \in executed))

Coming ==
  pc \in {"recv_id", "recv_body"} =>
    /\ \A i \in 1..Len(buffer) : Tells(buffer[i], taken[image] + i)
    /\ \A i \in 1..Len(stream) : Tells(stream[i], taken[image] + Len(buffer) + i)

Wire == TypeInv /\ Ahead /\ Reading /\ Pending /\ Coming /\ OutcomeIsOwn

\* A step that neither sends nor receives nor does anything for an image.
LEMMA AsideWire ==
  ASSUME Wire, pc' \notin {"recv_id", "recv_body"}, UNCHANGED <<image, outcome, taken, executed>>,
         UNCHANGED network \/ Silence',
         pc' \in Unasked => pc \in Unasked,
         pc' \in {"print"} \cup Behind => pc \in Unasked \cup Behind \/ pc = "print",
         type' # "VM" => type # "VM" \/ pc \in Before
  PROVE  Ahead' /\ Reading' /\ Pending' /\ Coming' /\ OutcomeIsOwn'
<1>1. /\ Ahead /\ Pending /\ OutcomeIsOwn /\ (Silence => UNCHANGED <<stream, buffer, inbox>>)
  BY DEF Wire, Silence, network
<1>2. Ahead'
  BY <1>1 DEF Ahead, Silence, network, Image, Unasked, Before
<1>3. Pending'
  BY <1>1 DEF Pending, Ahead, Silence, network
<1>4. Reading' /\ Coming'
  BY DEF Reading, Coming
<1>5. OutcomeIsOwn'
  BY <1>1 DEF OutcomeIsOwn, Image
<1> QED
  BY <1>2, <1>3, <1>4, <1>5

LEMMA AroundWire ==
  ASSUME Wire, "resolve" \notin Faults,
         \/ ListVm \/ PrepareFails \/ Prepare \/ Login \/ Confirm \/ LoginLpar \/ Fallback
         \/ ListLpar \/ (SendLpar /\ pc' = "await") \/ LastImage \/ Logout \/ Exit
  PROVE  Ahead' /\ Reading' /\ Pending' /\ Coming' /\ OutcomeIsOwn'
<1>1. CASE ListVm \/ PrepareFails \/ Prepare \/ Confirm \/ LoginLpar
  BY <1>1, AsideWire DEF ListVm, PrepareFails, Prepare, Confirm, LoginLpar, Before, Unasked, Behind
<1>2. CASE Login
  <2>1. PICK res \in ConnectResult : Connect(res)
    BY <1>2 DEF Login
  <2>2. Silence'
    BY <2>1 DEF Connect, Silence
  <2>3. pc = "login" /\ pc' \in {"confirm", "fallback", "operate"} /\ type' = type
    BY <1>2 DEF Login
  <2>4. UNCHANGED <<image, outcome, taken, executed>>
    BY <1>2 DEF Login
  <2> QED
    BY <2>2, <2>3, <2>4, AsideWire DEF Before, Unasked, Behind
<1>3. CASE Fallback
  <2>1. pc = "fallback" /\ pc' \in {"out", "operate"} /\ UNCHANGED <<image, outcome, network, taken, executed>>
    BY <1>3 DEF Fallback
  <2> QED
    BY <2>1, AsideWire DEF Before, Unasked, Behind
<1>4. CASE ListLpar \/ LastImage \/ Logout \/ Exit
  <2>1. /\ pc' \in Behind /\ UNCHANGED <<image, outcome, network, taken, executed, type>>
        /\ pc \in {"operate", "print"} \cup Behind
    BY <1>4 DEF ListLpar, LastImage, Logout, Exit, Behind
  <2>2. pc' \notin {"recv_id", "recv_body"} /\ pc' \notin Unasked
    BY <2>1 DEF Before, Unasked, Behind
  <2> QED
    BY <2>1, <2>2, AsideWire DEF Unasked
<1>5. CASE SendLpar /\ pc' = "await"
  <2>1. /\ pc = "operate" /\ UNCHANGED <<image, outcome, network, taken, type>>
        /\ ~Finish("send_failed")
    BY <1>5 DEF SendLpar, Finish
  <2>2. UNCHANGED <<outcome, executed>>
    BY <1>5, <2>1 DEF SendLpar
  <2> QED
    BY <1>5, <2>1, <2>2, AsideWire DEF Before, Unasked, Behind
<1> QED
  BY <1>1, <1>2, <1>3, <1>4, <1>5

\* An operation ends without having been answered, or is carried out without a connection.
LEMMA FinishWire ==
  ASSUME Wire, pc \in Within, NEW o \in Outcome, Finish(o), UNCHANGED <<image, type, taken, network>>,
         UNCHANGED executed \/ executed' = executed \cup {image},
         o = "ok" => image \in executed', o = "refused" => image \notin executed',
         o \in {"ok", "refused"} => inbox = <<>>
  PROVE  Ahead' /\ Reading' /\ Pending' /\ Coming' /\ OutcomeIsOwn'
<1>1. /\ image \in Image /\ outcome \in [Image -> Outcome] /\ executed \subseteq Image
      /\ Ahead /\ Pending /\ OutcomeIsOwn
  BY DEF Wire, TypeInv, LoopInv, Shape, Sockets
<1>2. pc' = "print" /\ outcome' = [outcome EXCEPT ![image] = o] /\ UNCHANGED <<stream, buffer, inbox>>
  BY DEF Finish, network
<1>3. outcome'[image] = o /\ \A j \in Image : j # image => outcome'[j] = outcome[j]
  BY <1>1, <1>2
<1>4. Ahead'
  <2>1. image <= image /\ (type # "VM" => Silence)
    BY <1>1, ImageNumbers DEF Ahead
  <2>2. \A j \in executed' : j <= image'
    BY <1>1, <2>1 DEF Ahead
  <2>3. \A j \in Image' : j > image' => taken'[j] = 0
    BY <1>1 DEF Ahead, Image
  <2>4. pc' \notin Unasked
    BY <1>2 DEF Before, Unasked
  <2> QED
    BY <1>2, <2>1, <2>2, <2>3, <2>4 DEF Ahead, Silence
<1>5. inbox = <<>> \/ inbox = <<image>>
  BY <1>1 DEF Pending, Ahead, Silence, Within, Unasked
<1>6. Pending'
  BY <1>2, <1>3, <1>5 DEF Pending
<1>7. OutcomeIsOwn'
  <2>1. ASSUME NEW j \in Image
        PROVE  (outcome'[j] = "ok" => j \in executed') /\ (outcome'[j] = "refused" => j \notin executed')
    BY <1>1, <1>3 DEF OutcomeIsOwn
  <2> QED
    BY <2>1 DEF OutcomeIsOwn, Image
<1> QED
  BY <1>2, <1>4, <1>6, <1>7 DEF Reading, Coming

LEMMA OperateWire ==
  ASSUME Wire, SendFails \/ ReceiveEnd \/ WaitTimeout \/ (SendLpar /\ pc' # "await") \/ AwaitLpar \/ OperateRpc
  PROVE  Ahead' /\ Reading' /\ Pending' /\ Coming' /\ OutcomeIsOwn'
<1>1. CASE SendFails \/ ReceiveEnd \/ WaitTimeout
  <2>1. PICK o \in {"send_failed", "no_connection", "timed_out"} : Finish(o)
    BY <1>1 DEF SendFails, ReceiveEnd, WaitTimeout
  <2>2. UNCHANGED <<image, type, taken, network, executed>> /\ pc \in Within
    BY <1>1 DEF SendFails, ReceiveEnd, WaitTimeout, Receiving, Within
  <2> QED
    BY <2>1, <2>2, FinishWire DEF Outcome
<1>2. CASE (SendLpar /\ pc' # "await") \/ AwaitLpar \/ OperateRpc
  <2>1. pc \in {"operate", "await"} /\ UNCHANGED <<image, type, taken, network>>
    BY <1>2 DEF SendLpar, AwaitLpar, OperateRpc
  <2>2. pc \in Within /\ inbox = <<>> /\ image \notin executed
    BY <2>1 DEF Wire, Ahead, Silence, Unasked, Within
  <2>3. CASE Finish("ok") /\ executed' = executed \cup {image}
    BY <2>1, <2>2, <2>3, FinishWire DEF Outcome
  <2>4. CASE \E o \in {"refused", "rejected", "unanswered", "send_failed"} : Finish(o) /\ UNCHANGED executed
    BY <2>1, <2>2, <2>4, FinishWire DEF Outcome
  <2>5. CASE \E o \in {"unanswered", "send_failed"} : Finish(o) /\ executed' = executed \cup {image}
    BY <2>1, <2>2, <2>5, FinishWire DEF Outcome
  <2> QED
    BY <1>2, <2>3, <2>4, <2>5 DEF SendLpar, AwaitLpar, OperateRpc
<1> QED
  BY <1>1, <1>2

LEMMA SendWire ==
  ASSUME Wire, Send
  PROVE  Ahead' /\ Reading' /\ Pending' /\ Coming' /\ OutcomeIsOwn'
<1>1. /\ pc = "operate" /\ pc' = "recv_id" /\ total' = 0 /\ type = "VM"
      /\ UNCHANGED <<image, type, outcome, stream, buffer, executed, taken>>
      /\ inbox' \in {inbox, Append(inbox, image)}
  BY DEF Send, Expect
<1>2. /\ Ahead /\ OutcomeIsOwn /\ image \notin executed /\ taken[image] = 0
      /\ stream = <<>> /\ buffer = <<>> /\ inbox = <<>>
  BY <1>1 DEF Wire, Ahead, Silence, Unasked
<1>3. Append(<<>>, image) = <<image>> /\ Len(<<>>) = 0
  OBVIOUS
<1>4. inbox' \in {<<>>, <<image>>}
  BY <1>1, <1>2, <1>3
<1>5. Ahead'
  BY <1>1, <1>2 DEF Ahead, Before, Unasked, Image
<1>6. Reading' /\ Pending'
  BY <1>1, <1>2, <1>4 DEF Reading, Pending, Behind
<1>7. Coming'
  BY <1>1, <1>2, <1>3 DEF Coming
<1>8. OutcomeIsOwn'
  BY <1>1, <1>2 DEF OutcomeIsOwn, Image
<1> QED
  BY <1>5, <1>6, <1>7, <1>8

\* The new connection carries nothing.
LEMMA NextImageWire ==
  ASSUME Wire, "resolve" \notin Faults, NextImage
  PROVE  Ahead' /\ Reading' /\ Pending' /\ Coming' /\ OutcomeIsOwn'
<1>1. /\ pc = "print" /\ pc' = "operate" /\ image < Images /\ image' = image + 1
      /\ UNCHANGED <<type, outcome, executed, taken>>
  BY DEF NextImage
<1>2. image \in Image /\ executed \subseteq Image /\ Ahead /\ OutcomeIsOwn
  BY DEF Wire, TypeInv, LoopInv, Shape, Sockets
<1>3. Silence'
  BY <1>2 DEF NextImage, Connect, Silence, network, Ahead
<1>4. image' \in Image /\ \A j \in Image : (j > image' => j > image) /\ (j <= image => j <= image')
  BY <1>1, <1>2, ImageNumbers
<1>5. image' > image /\ ~(image' <= image)
  BY <1>1, <1>2, ImageNumbers
<1>6. Ahead'
  BY <1>1, <1>2, <1>3, <1>4, <1>5 DEF Ahead, Image
<1>7. OutcomeIsOwn'
  BY <1>1, <1>2 DEF OutcomeIsOwn, Image
<1> QED
  BY <1>1, <1>6, <1>7 DEF Reading, Pending, Coming, Behind

\* What is left of a response after a recv.
LEMMA TakenFrom ==
  ASSUME Wire, Receiving, buffer # <<>>, Take
  PROVE  /\ UNCHANGED <<image, type, executed>> /\ image \in Image /\ inbox = <<>> /\ inbox' = <<>>
         /\ taken[image] \in Nat /\ taken'[image] = taken[image] + Chunk
         /\ pc' \notin Unasked => Ahead'
         /\ \A i \in 1..Len(buffer') : Tells(buffer'[i], taken'[image] + i)
         /\ \A i \in 1..Len(stream') : Tells(stream'[i], taken'[image] + Len(buffer') + i)
<1>1. /\ image \in Image /\ buffer \in Seq(Unit) /\ stream \in Seq(Unit) /\ taken \in [Image -> Nat]
      /\ Sockets /\ Progress /\ Ahead /\ Coming /\ Pending /\ type = "VM"
  BY DEF Wire, TypeInv, LoopInv, Shape, Sockets, Receiving
<1>2. Chunk \in 1..Len(buffer) /\ Chunk \in Nat /\ Chunk \in 0..Len(buffer) /\ Len(buffer) \in Nat
  <2>1. Chunk \in 1..Len(buffer) /\ Chunk \in Nat
    BY <1>1, ChunkFacts
  <2>2. Len(buffer) \in Nat
    BY <1>1
  <2> QED
    BY <2>1, <2>2
<1>3. /\ UNCHANGED <<image, type, executed, stream, inbox>>
      /\ buffer' = SubSeq(buffer, Chunk + 1, Len(buffer)) /\ taken' = [taken EXCEPT ![image] = @ + Chunk]
  BY DEF Take
<1>4. inbox = <<>>
  BY <1>1 DEF Pending, Receiving
<1>5. /\ taken[image] \in Nat /\ taken'[image] = taken[image] + Chunk
      /\ \A j \in Image : j # image => taken'[j] = taken[j]
  BY <1>1, <1>2, <1>3
<1>6. \A j \in Image : j > image => j # image
  BY <1>1, ImageNumbers
<1>7. pc' \notin Unasked => Ahead'
  BY <1>1, <1>3, <1>5, <1>6 DEF Ahead, Image
<1>8. /\ Len(buffer') = Len(buffer) - Chunk
      /\ \A i \in 1..Len(buffer) - Chunk : buffer'[i] = buffer[Chunk + i]
  BY <1>1, <1>2, <1>3, Split
<1>9. /\ \A i \in 1..Len(buffer) : Tells(buffer[i], taken[image] + i)
      /\ \A i \in 1..Len(stream) : Tells(stream[i], taken[image] + Len(buffer) + i)
  BY <1>1 DEF Coming, Receiving
<1>10. ASSUME NEW i \in 1..Len(buffer')
       PROVE  Tells(buffer'[i], taken'[image] + i)
  <2>1. i \in 1..Len(buffer) - Chunk /\ Chunk + i \in 1..Len(buffer)
        /\ taken[image] + (Chunk + i) = taken'[image] + i
    BY <1>2, <1>5, <1>8
  <2> QED
    BY <1>8, <1>9, <2>1
<1>11. ASSUME NEW i \in 1..Len(stream')
       PROVE  Tells(stream'[i], taken'[image] + Len(buffer') + i)
  <2>1. i \in 1..Len(stream) /\ taken[image] + Len(buffer) + i = taken'[image] + Len(buffer') + i
    <3>1. Len(stream) \in Nat
      BY <1>1
    <3> QED
      BY <1>2, <1>3, <1>5, <1>8, <3>1
  <2> QED
    BY <1>3, <1>9, <2>1
<1> QED
  BY <1>1, <1>3, <1>4, <1>5, <1>7, <1>10, <1>11

LEMMA ReceiveWire ==
  ASSUME Wire, Receive
  PROVE  Ahead' /\ Reading' /\ Pending' /\ Coming' /\ OutcomeIsOwn'
<1>1. /\ Receiving /\ buffer # <<>> /\ Take /\ UNCHANGED <<pc, outcome>> /\ total' = total + Chunk
  BY DEF Receive
<1>2. pc' \in {"recv_id", "recv_body"} /\ pc' \notin Unasked
      /\ pc' \notin {"print"} \cup Behind
  BY <1>1 DEF Receiving, Before, Unasked, Behind
<1>3. /\ UNCHANGED <<image, type, executed>> /\ inbox' = <<>>
      /\ taken[image] \in Nat /\ taken'[image] = taken[image] + Chunk /\ Ahead'
      /\ \A i \in 1..Len(buffer') : Tells(buffer'[i], taken'[image] + i)
      /\ \A i \in 1..Len(stream') : Tells(stream'[i], taken'[image] + Len(buffer') + i)
  BY <1>1, <1>2, TakenFrom
<1>4. Reading'
  <2>1. total \in Nat /\ Chunk \in Nat
    BY <1>1, ChunkFacts DEF Wire, TypeInv
  <2> QED
    BY <1>1, <1>3, <2>1 DEF Wire, Reading, IdLength
<1>5. Pending'
  BY <1>2, <1>3 DEF Pending
<1>6. Coming'
  BY <1>3 DEF Coming, Tells
<1>7. OutcomeIsOwn'
  BY <1>1, <1>3 DEF Wire, OutcomeIsOwn, Image
<1> QED
  BY <1>3, <1>4, <1>5, <1>6, <1>7

\* The last recv of an item: of a body that is read at once, return_code is where it is looked for.
LEMMA ReceiveLastWire ==
  ASSUME Wire, ReceiveLast
  PROVE  Ahead' /\ Reading' /\ Pending' /\ Coming' /\ OutcomeIsOwn'
<1>1. /\ Receiving /\ buffer # <<>> /\ Take /\ total + Chunk = want
      /\ pc' \in {"print", "recv_body"}
  BY DEF ReceiveLast, Finish
<1>2. pc' \notin Unasked
  BY <1>1 DEF Before, Unasked
<1>3. /\ UNCHANGED <<image, type, executed>> /\ image \in Image /\ inbox' = <<>>
      /\ taken[image] \in Nat /\ taken'[image] = taken[image] + Chunk /\ Ahead'
      /\ \A i \in 1..Len(buffer') : Tells(buffer'[i], taken'[image] + i)
      /\ \A i \in 1..Len(stream') : Tells(stream'[i], taken'[image] + Len(buffer') + i)
  BY <1>1, <1>2, TakenFrom
<1>4. /\ Sockets /\ Progress /\ Reading /\ Coming /\ OutcomeIsOwn
      /\ outcome \in [Image -> Outcome]
  BY DEF Wire, TypeInv, LoopInv, Shape
<1>5. /\ total \in Nat /\ Chunk \in Nat /\ want \in Nat /\ Chunk \in 1..Len(buffer)
      /\ buffer \in Seq(Unit)
  BY <1>1, <1>4, ChunkFacts DEF Sockets
<1>6. Pending'
  BY <1>3 DEF Pending
<1>7. Coming'
  BY <1>3 DEF Coming, Tells
<1>8. CASE ~Enough(Chunk)
  <2>1. pc' = "print" /\ outcome' = [outcome EXCEPT ![image] = "not_received"]
    BY <1>8 DEF ReceiveLast, Finish
  <2>2. OutcomeIsOwn'
    BY <1>3, <1>4, <2>1 DEF OutcomeIsOwn, Image
  <2> QED
    BY <1>3, <1>6, <1>7, <2>1, <2>2 DEF Reading
<1>9. CASE Enough(Chunk) /\ pc = "recv_id"
  <2>1. pc' = "recv_body" /\ total' = 0 /\ UNCHANGED outcome
    BY <1>9 DEF ReceiveLast
  <2>2. Chunk = IdLength /\ total = 0 /\ taken[image] = total
    BY <1>1, <1>4, <1>5, <1>9 DEF Enough, Progress, Reading
  <2>3. Reading'
    BY <1>3, <2>1, <2>2 DEF Reading, IdLength
  <2>4. OutcomeIsOwn'
    BY <1>3, <1>4, <2>1 DEF OutcomeIsOwn, Image
  <2> QED
    BY <1>3, <1>6, <1>7, <2>3, <2>4
<1>10. CASE Enough(Chunk) /\ pc # "recv_id"
  <2>1. /\ pc = "recv_body" /\ pc' = "print" /\ outlist' = SubSeq(buffer, 1, Chunk)
        /\ outcome' = [outcome EXCEPT ![image] = IF Accepts(outlist') THEN "ok" ELSE "refused"]
    BY <1>1, <1>10 DEF ReceiveLast, Finish, Take, Receiving
  <2>2. Chunk = 8 /\ taken[image] = 2
    BY <1>1, <1>4, <1>5, <1>10, <2>1 DEF Enough, Progress, Reading, BodyLength, IdLength
  <2>3. 8 \in 0..Len(buffer) /\ 5 \in 1..Len(buffer) /\ 6 \in 1..Len(buffer)
    <3>1. Len(buffer) \in Nat
      BY <1>5
    <3> QED
      BY <1>5, <2>2, <3>1
  <2>4. Len(outlist') = 8 /\ outlist'[5] = buffer[5] /\ outlist'[6] = buffer[6]
    <3>1. /\ Len(SubSeq(buffer, 1, 8)) = 8
          /\ \A i \in 1..8 : SubSeq(buffer, 1, 8)[i] = buffer[i]
      BY <1>5, <2>3, Split
    <3> QED
      BY <2>1, <2>2, <3>1
  <2>5. \A i \in 1..Len(buffer) : Tells(buffer[i], taken[image] + i)
    BY <1>4, <2>1 DEF Coming
  <2>6. Tells(buffer[5], 7) /\ Tells(buffer[6], 8)
    BY <2>2, <2>3, <2>5
  <2>7. (buffer[6].zero <=> image \in executed) /\ buffer[5].zero
    BY <2>6 DEF Tells
  <2>8. Accepts(outlist') <=> image \in executed
    <3>1. 5 <= Len(outlist') /\ 6 <= Len(outlist')
      BY <2>4
    <3>2. Accepts(outlist') <=> outlist'[5].zero /\ outlist'[6].zero
      BY <3>1, Zenon DEF Accepts, ReturnCode
    <3> QED
      BY <2>4, <2>7, <3>2
  <2>9. OutcomeIsOwn'
    BY <1>3, <1>4, <2>1, <2>8 DEF OutcomeIsOwn, Image
  <2> QED
    BY <1>3, <1>6, <1>7, <2>1, <2>9 DEF Reading
<1> QED
  BY <1>8, <1>9, <1>10

\* The server answers the one request it has.
LEMMA ServeWire ==
  ASSUME Wire, Serve
  PROVE  Ahead' /\ Reading' /\ Pending' /\ Coming' /\ OutcomeIsOwn'
<1>1. /\ inbox # <<>> /\ inbox' = Tail(inbox)
      /\ UNCHANGED <<type, pc, image, outcome, buffer, total, taken>>
  BY DEF Serve, receive
<1>2. /\ image \in Image /\ Ahead /\ Reading /\ Pending /\ OutcomeIsOwn /\ outcome \in [Image -> Outcome]
      /\ pc \in Before \cup Within \cup {"print"} \cup Behind
      /\ pc \in Within => outcome[image] = "none"
  <2>1. /\ image \in Image /\ Ahead /\ Reading /\ Pending /\ OutcomeIsOwn /\ outcome \in [Image -> Outcome]
        /\ pc \in Before \cup Within \cup {"print"} \cup Behind
    BY DEF Wire, TypeInv, LoopInv, Shape
  <2>2. pc \in Within => \A j \in Image : outcome[j] = "none" <=> j >= image
    BY DEF Wire, TypeInv, LoopInv, Loop
  <2>3. image >= image
    BY <2>1, ImageNumbers
  <2> QED
    BY <2>1, <2>2, <2>3
<1>3. type = "VM" /\ pc \notin Unasked
  BY <1>1, <1>2 DEF Ahead, Silence
<1>4. /\ inbox = <<image>> /\ outcome[image] \notin {"ok", "refused"}
      /\ pc \in {"recv_id", "recv_body"} =>
           stream = <<>> /\ buffer = <<>> /\ taken[image] = 0 /\ image \notin executed
  BY <1>1, <1>2, <1>3 DEF Pending, Within, Unasked
<1>5. Head(<<image>>) = image /\ Tail(<<image>>) = <<>>
  OBVIOUS
<1>6. inbox' = <<>> /\ Head(inbox) = image
  BY <1>1, <1>4, <1>5
<1>7. executed' = executed \/ executed' = executed \cup {image}
  BY <1>6 DEF Serve
<1>8. Ahead'
  <2>1. image <= image
    BY <1>2, ImageNumbers
  <2> QED
    BY <1>1, <1>2, <1>3, <1>7, <2>1 DEF Ahead, Image
<1>9. Reading' /\ Pending'
  BY <1>1, <1>2, <1>6 DEF Reading, Pending
<1>10. OutcomeIsOwn'
  BY <1>1, <1>2, <1>4, <1>7 DEF OutcomeIsOwn, Image
<1>11. Coming'
  <2>1. CASE pc \notin {"recv_id", "recv_body"}
    BY <1>1, <2>1 DEF Coming
  <2>2. CASE pc \in {"recv_id", "recv_body"}
    <3>1. /\ stream = <<>> /\ image \notin executed /\ Len(<<>>) = 0
          /\ buffer' = <<>> /\ taken'[image'] = 0 /\ UNCHANGED image
      BY <1>1, <1>4, <2>2
    <3>2. ASSUME NEW ok \in BOOLEAN, NEW reason \in BOOLEAN,
                 stream' = stream \o Response(image, ok, reason), image \in executed' <=> ok
          PROVE  Coming'
      <4>1. /\ Response(image, ok, reason) \in Seq(Unit)
            /\ Response(image, ok, reason)[7].zero = TRUE /\ Response(image, ok, reason)[8].zero = ok
        BY <1>2, ResponseFacts
      <4>2. stream' = Response(image, ok, reason)
        BY <3>1, <3>2, <4>1
      <4>3. stream' \in Seq(Unit) /\ stream'[7].zero /\ (stream'[8].zero <=> image \in executed')
        BY <3>2, <4>1, <4>2
      <4>4. ASSUME NEW i \in 1..Len(stream')
            PROVE  /\ 0 + 0 + i = 7 => stream'[i].zero
                   /\ 0 + 0 + i = 8 => (stream'[i].zero <=> image \in executed')
        <5>1. Len(stream') \in Nat
          BY <4>3
        <5>2. i \in Nat /\ 0 + 0 + i = i
          BY <5>1
        <5> QED
          BY <4>3, <5>2
      <4> QED
        BY <3>1, <4>4 DEF Coming, Tells
    <3>3. CASE UNCHANGED <<stream, executed>>
      BY <3>1, <3>3 DEF Coming
    <3> QED
      BY <1>6, <3>1, <3>2, <3>3 DEF Serve
  <2> QED
    BY <2>1, <2>2
<1> QED
  BY <1>8, <1>9, <1>10, <1>11

LEMMA ArriveWire ==
  ASSUME Wire, Arrive
  PROVE  Ahead' /\ Reading' /\ Pending' /\ Coming' /\ OutcomeIsOwn'
<1>1. /\ stream # <<>> /\ UNCHANGED <<type, pc, image, outcome, total, inbox, executed, taken>>
  BY DEF Arrive, receive
<1>2. /\ image \in Image /\ Ahead /\ Reading /\ Pending /\ Coming /\ OutcomeIsOwn
      /\ stream \in Seq(Unit) /\ buffer \in Seq(Unit) /\ taken[image] \in Nat
  BY DEF Wire, TypeInv, LoopInv, Shape, Sockets
<1>3. pc \notin Unasked /\ type = "VM"
  BY <1>1, <1>2 DEF Ahead, Silence
<1>4. Ahead'
  BY <1>1, <1>2, <1>3 DEF Ahead, Image
<1>5. Reading' /\ OutcomeIsOwn'
  BY <1>1, <1>2 DEF Reading, OutcomeIsOwn, Image
<1>6. Pending'
  BY <1>1, <1>2 DEF Pending
<1>7. Coming'
  <2>1. PICK n \in IF "pieces" \in Faults THEN 1..Len(stream) ELSE {Len(stream)} :
          /\ buffer' = buffer \o SubSeq(stream, 1, n)
          /\ stream' = SubSeq(stream, n + 1, Len(stream))
    BY DEF Arrive
  <2>2. n \in 0..Len(stream) /\ Len(stream) \in Nat /\ Len(buffer) \in Nat /\ n \in Nat
    <3>1. Len(stream) \in Nat /\ Len(buffer) \in Nat
      BY <1>2
    <3> QED
      BY <3>1
  <2>3. /\ SubSeq(stream, 1, n) \in Seq(Unit) /\ Len(SubSeq(stream, 1, n)) = n
        /\ \A i \in 1..n : SubSeq(stream, 1, n)[i] = stream[i]
        /\ Len(stream') = Len(stream) - n
        /\ \A i \in 1..Len(stream) - n : stream'[i] = stream[n + i]
    BY <1>2, <2>1, <2>2, Split
  <2>4. /\ Len(buffer') = Len(buffer) + n
        /\ \A i \in 1..Len(buffer) : buffer'[i] = buffer[i]
        /\ \A i \in Len(buffer) + 1..Len(buffer) + n : buffer'[i] = stream[i - Len(buffer)]
    <3>1. /\ Len(buffer') = Len(buffer) + n
          /\ \A i \in 1..Len(buffer) : buffer'[i] = buffer[i]
          /\ \A i \in Len(buffer) + 1..Len(buffer) + n : buffer'[i] = SubSeq(stream, 1, n)[i - Len(buffer)]
      BY <1>2, <2>1, <2>3, Joined
    <3>2. \A i \in Len(buffer) + 1..Len(buffer) + n : i - Len(buffer) \in 1..n
      BY <2>2
    <3> QED
      BY <2>3, <3>1, <3>2
  <2> SUFFICES ASSUME pc \in {"recv_id", "recv_body"}
               PROVE  /\ \A i \in 1..Len(buffer') : Tells(buffer'[i], taken[image] + i)
                      /\ \A i \in 1..Len(stream') : Tells(stream'[i], taken[image] + Len(buffer') + i)
    BY <1>1 DEF Coming, Tells
  <2>5. /\ \A i \in 1..Len(buffer) : Tells(buffer[i], taken[image] + i)
        /\ \A i \in 1..Len(stream) : Tells(stream[i], taken[image] + Len(buffer) + i)
    BY <1>2 DEF Coming
  <2>6. ASSUME NEW i \in 1..Len(buffer')
        PROVE  Tells(buffer'[i], taken[image] + i)
    <3>1. CASE i \in 1..Len(buffer)
      BY <2>4, <2>5, <3>1
    <3>2. CASE i \notin 1..Len(buffer)
      <4>0. /\ Len(buffer') = Len(buffer) + n /\ taken[image] \in Nat /\ n <= Len(stream)
            /\ i \in 1..Len(buffer')
        BY <1>2, <2>2, <2>4
      <4>1. /\ i \in Len(buffer) + 1..Len(buffer) + n /\ i - Len(buffer) \in 1..Len(stream)
            /\ taken[image] + Len(buffer) + (i - Len(buffer)) = taken[image] + i
        BY ONLY <2>2, <3>2, <4>0
      <4> QED
        BY <2>4, <2>5, <4>1
    <3> QED
      BY <3>1, <3>2
  <2>7. ASSUME NEW i \in 1..Len(stream')
        PROVE  Tells(stream'[i], taken[image] + Len(buffer') + i)
    <3>1. /\ i \in 1..Len(stream) - n /\ n + i \in 1..Len(stream)
          /\ taken[image] + Len(buffer) + (n + i) = taken[image] + Len(buffer') + i
      BY <1>2, <2>2, <2>3, <2>4
    <3> QED
      BY <2>3, <2>5, <3>1
  <2> QED
    BY <2>6, <2>7
<1> QED
  BY <1>4, <1>5, <1>6, <1>7

\* The start of a response tells what the whole of it does.
LEMMA CloseWire ==
  ASSUME Wire, Close
  PROVE  Ahead' /\ Reading' /\ Pending' /\ Coming' /\ OutcomeIsOwn'
<1>1. UNCHANGED <<type, pc, image, outcome, buffer, inbox, total, executed, taken>>
  BY DEF Close, receive
<1>2. PICK n \in 0..Len(stream) : stream' = SubSeq(stream, 1, n)
  BY DEF Close
<1>3. /\ image \in Image /\ Ahead /\ Reading /\ Pending /\ Coming /\ OutcomeIsOwn /\ stream \in Seq(Unit)
  BY DEF Wire, TypeInv, LoopInv, Shape, Sockets
<1>4. /\ Len(stream) \in Nat /\ Len(stream') = n
      /\ \A i \in 1..n : i \in 1..Len(stream) /\ stream'[i] = stream[i]
  <2>1. Len(stream) \in Nat
    BY <1>3
  <2>2. Len(stream') = n /\ \A i \in 1..n : stream'[i] = stream[i]
    BY <1>2, <1>3, Split
  <2> QED
    BY <2>1, <2>2
<1>5. stream = <<>> => stream' = <<>>
  <2>1. stream' \in Seq(Unit)
    BY <1>2, <1>3, Split
  <2>2. stream = <<>> => Len(stream') = 0
    BY <1>4
  <2> QED
    BY <2>1, <2>2
<1>6. Ahead' /\ Pending'
  BY <1>1, <1>3, <1>5 DEF Ahead, Pending, Silence, Image
<1>7. Reading' /\ OutcomeIsOwn'
  BY <1>1, <1>3 DEF Reading, OutcomeIsOwn, Image
<1>8. Coming'
  BY <1>1, <1>3, <1>4 DEF Coming, Tells
<1> QED
  BY <1>6, <1>7, <1>8

LEMMA KeepsWire ==
  ASSUME Wire, "resolve" \notin Faults, [Next]_vars
  PROVE  Wire'
<1>1. TypeInv'
  BY KeepsTypes DEF Wire
<1> SUFFICES Ahead' /\ Reading' /\ Pending' /\ Coming' /\ OutcomeIsOwn'
  BY <1>1 DEF Wire
<1>2. CASE Elsewhere \/ Fallback \/ OperateRpc \/ Acknowledged
  <2>1. CASE SendLpar
    BY <2>1, AroundWire, OperateWire
  <2> QED
    BY <1>2, <2>1, AroundWire, OperateWire, SendWire, ReceiveWire, ReceiveLastWire, NextImageWire
    DEF Elsewhere, Acknowledged
<1>3. CASE Serve \/ Arrive \/ Close
  BY <1>3, ServeWire, ArriveWire, CloseWire
<1>4. CASE WaitAgain \/ Ended \/ UNCHANGED vars
  <2>1. UNCHANGED <<type, pc, image, outcome, stream, buffer, inbox, total, executed, taken>>
    BY <1>4 DEF WaitAgain, Ended, vars, socketVars, network, receive
  <2>2. Ahead /\ Reading /\ Pending /\ Coming /\ OutcomeIsOwn
    BY DEF Wire
  <2> QED
    BY <2>1, <2>2 DEF Ahead, Silence, Reading, Pending, Coming, Tells, OutcomeIsOwn, Image
<1> QED
  BY <1>2, <1>3, <1>4 DEF Next, Snipl, RequestServer

LEMMA InitialWire ==
  ASSUME Init PROVE Wire
<1>1. /\ pc = "prepare" /\ executed = {} /\ taken = [j \in Image |-> 0]
      /\ stream = <<>> /\ buffer = <<>> /\ inbox = <<>> /\ image = 1
      /\ outcome = [j \in Image |-> "none"]
  BY DEF Init
<1> QED
  BY <1>1, InitialTypes, ImageNumbers
  DEF Wire, Ahead, Silence, Reading, Pending, Coming, OutcomeIsOwn, Behind

\* As long as the name of the server resolves at every login, what snipl says of an operation is
\* what became of it, in whatever pieces the responses arrive and whatever is lost.
THEOREM ReadsItsOwn == "resolve" \notin Faults /\ Spec => []OutcomeIsOwn
<1>1. Wire => OutcomeIsOwn
  BY DEF Wire
<1>2. SUFFICES ASSUME "resolve" \notin Faults PROVE Spec => []OutcomeIsOwn
  OBVIOUS
<1>3. Wire /\ [Next]_vars => Wire'
  BY <1>2, KeepsWire
<1> QED
  BY <1>1, <1>3, InitialWire, PTL DEF Spec
=============================================================================
