-------------------------------- MODULE VmRpc --------------------------------
(***************************************************************************)
(* The RPC interface to a VSMSERVE service machine (vmsmapi.c): a login    *)
(* brings a session token, a request carries the one that is kept, and the *)
(* answer brings the one for the next request, whatever else it says.      *)
(***************************************************************************)
EXTENDS Integers

VARIABLES
  token,  \* priv->session_token, 0 before the login
  valid   \* the token VSMSERVE takes next

rpcVars == <<token, valid>>

RpcInit == token = 0 /\ valid = 0

\* vm_server_login, with the connection that connectServer has made.
RpcLogin == valid' = valid + 1 /\ token' = valid'

(***************************************************************************)
(* An answer has one of four forms: the request was carried out (resok),   *)
(* for some of the images only (resfail_buf), for none of them             *)
(* (resfail_nobuf), or it was refused (resfail).  Every operation has code *)
(* of its own for each of them, and each copies the token it finds there.  *)
(***************************************************************************)
ImageOperation == {"activate", "reset", "deactivate", "getstatus"}

Failures(op) ==
  IF op = "getstatus" THEN {"resfail"} ELSE {"resfail", "resfail_buf", "resfail_nobuf"}

SavedByActivate == {"resok", "resfail", "resfail_buf", "resfail_nobuf"}
SavedByReset == {"resok", "resfail", "resfail_buf", "resfail_nobuf"}

\* Mutated form: one branch of one operation leaves the token alone.
BugSavedByDeactivate == {"resok", "resfail", "resfail_buf"}

SavedByDeactivate == {"resok", "resfail", "resfail_buf", "resfail_nobuf"}
SavedByGetstatus == {"resok", "resfail"}

Saved(op) ==
  CASE op = "activate" -> SavedByActivate
    [] op = "reset" -> SavedByReset
    [] op = "deactivate" -> SavedByDeactivate
    [] op = "getstatus" -> SavedByGetstatus

Kept(op, form, given) == IF form \in Saved(op) THEN given ELSE token

\* VSMSERVE knows the token and answers.  The operations of snipl are not told apart, so any of
\* them may be the one.
RpcAnswered(ok) ==
  /\ token = valid
  /\ valid' = valid + 1
  /\ \E op \in ImageOperation :
       \E form \in IF ok THEN {"resok"} ELSE Failures(op) : token' = Kept(op, form, valid')

\* It does not know it: what the answer brings is of no use.
RpcRejected ==
  /\ token # valid
  /\ token' = 0 /\ UNCHANGED valid

\* The call returns without an answer.  VSMSERVE may have had the request and answered it.
RpcUnanswered(received) ==
  /\ received => token = valid
  /\ valid' = IF received THEN valid + 1 ELSE valid
  /\ UNCHANGED token
=============================================================================
