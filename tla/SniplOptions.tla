---------------------------- MODULE SniplOptions ----------------------------
(***************************************************************************)
(* The options of snipl: what parse_command_input makes of each, which of  *)
(* them exclude each other, what the checks for the two types of server    *)
(* object to, and what an LPAR operation hands over to the SE.  An option  *)
(* is named by its letter in snipl.c.                                      *)
(***************************************************************************)
EXTENDS Integers, Sequences, FiniteSetsExt

Undefined == -1
NotANumber == -2   \* what sscanf does not take for a number without a sign
NotGiven == ""

\* A number kept in a C short.
Short(n) == ((n + 32768) % 65536) - 32768

Operation == [a |-> "ACTIVATE", o |-> "STOP", l |-> "LOAD", g |-> "GETSTATUS", s |-> "SCSILOAD",
              D |-> "SCSIDUMP", d |-> "DEACTIVATE", r |-> "RESET", i |-> "DIALOG", x |-> "LIST"]

\* invalid_option_combinations: the options an option must not stand beside.
Excluded ==
  [o |-> {"l", "s", "D", "a", "d", "r", "i", "x", "g"}, l |-> {"s", "D", "a", "d", "r", "i", "x", "g"},
   s |-> {"D", "a", "d", "r", "i", "x", "g"}, D |-> {"a", "d", "r", "i", "x", "g"},
   a |-> {"d", "r", "i", "x", "g", "X"}, d |-> {"r", "i", "x", "g"}, r |-> {"i", "x", "g", "X"},
   i |-> {"x", "g"}, x |-> {"g", "X"}, g |-> {"X"},
   V |-> {"L", "o", "l", "s", "D", "i", "m", "N", "A", "R", "C", "T", "S", "W", "I", "B", "O", "E"},
   p |-> {"P"}, L |-> {"z", "X"}, F |-> {"X"}]

ConflictIn(given) ==
  \E c \in given \cap DOMAIN Excluded : Excluded[c] \cap given # {}

\* main: the parameters before the first option.
NoParms ==
  [force |-> Undefined, clear |-> Undefined, store_stat |-> Undefined, load_timeout |-> Undefined,
   scsiload_bps |-> Undefined, msg_timeout |-> Undefined, shutdown_time |-> 0, timeout |-> 0,
   profile |-> NotGiven, load_address |-> NotGiven, load_parms |-> NotGiven, scsiload_wwpn |-> NotGiven,
   scsiload_lun |-> NotGiven, scsiload_bootrec |-> NotGiven, scsiload_ossparms |-> NotGiven,
   msgfilename |-> NotGiven, image_op |-> "OPUNKNOWN"]

(***************************************************************************)
(* parse_command_input: one option, with its value v or n where it has a   *)
(* string or a number.  A string is given by its class.                    *)
(***************************************************************************)
\* Values a check of the option itself refuses.
Bad(c, v, n) ==
  CASE c = "X" -> n \notin 1..32767
    [] c = "t" -> n < 1
    [] c = "m" -> n = NotANumber
    [] c = "T" -> n = NotANumber
    [] c = "B" -> n \notin 0..30
    [] c = "z" -> n \notin 0..65535
    [] c \in {"A", "W", "I", "E"} -> v \in {"not hexadecimal", "too long", "subchannel set 4"}
    [] OTHER -> FALSE

\* strncat: a short port name, LUN or boot record is filled up with zeros.
Padded(v) == IF v = "short" THEN "short, padded" ELSE v

Set(p, c, v, n) ==
  CASE c \in DOMAIN Operation -> [p EXCEPT !.image_op = Operation[c]]
    [] c = "F" -> [p EXCEPT !.force = 1]
    [] c = "C" -> [p EXCEPT !.clear = 0]
    [] c = "S" -> [p EXCEPT !.store_stat = 1]
    [] c = "T" -> [p EXCEPT !.load_timeout = Short(n)]
    [] c = "B" -> [p EXCEPT !.scsiload_bps = Short(n)]
    [] c = "m" -> [p EXCEPT !.msg_timeout = n]
    [] c = "X" -> [p EXCEPT !.shutdown_time = n]
    [] c = "t" -> [p EXCEPT !.timeout = n]
    [] c = "N" -> [p EXCEPT !.profile = v]
    [] c = "A" -> [p EXCEPT !.load_address = v]
    [] c = "R" -> [p EXCEPT !.load_parms = v]
    [] c = "W" -> [p EXCEPT !.scsiload_wwpn = Padded(v)]
    [] c = "I" -> [p EXCEPT !.scsiload_lun = Padded(v)]
    [] c = "E" -> [p EXCEPT !.scsiload_bootrec = Padded(v)]
    [] c = "O" -> [p EXCEPT !.scsiload_ossparms = v]
    [] c = "M" -> [p EXCEPT !.msgfilename = v]
    [] OTHER -> p

(***************************************************************************)
(* The checks before a login: pairs of a condition and the code it leads   *)
(* to, in the order of the code.  user, password, port and encryption are  *)
(* whether there is one; several says that more than one image is named.   *)
(***************************************************************************)
VmObjections(p, user, password) ==
  << <<~user, "MISSING_USERID">>, <<~password, "MISSING_PASSWORD">>,
     <<p.force # Undefined /\ p.image_op # "DEACTIVATE", "CONFLICTING_OPTIONS">>,
     <<p.profile # NotGiven, "CONFLICTING_OPTIONS">>,
     <<p.load_address # NotGiven, "CONFLICTING_OPTIONS">>, <<p.load_parms # NotGiven, "CONFLICTING_OPTIONS">>,
     <<p.clear # Undefined, "CONFLICTING_OPTIONS">>, <<p.store_stat # Undefined, "CONFLICTING_OPTIONS">>,
     <<p.load_timeout # Undefined, "CONFLICTING_OPTIONS">>, <<p.msg_timeout # Undefined, "CONFLICTING_OPTIONS">>,
     <<p.scsiload_wwpn # NotGiven, "CONFLICTING_OPTIONS">>, <<p.scsiload_lun # NotGiven, "CONFLICTING_OPTIONS">>,
     <<p.scsiload_bps # Undefined, "CONFLICTING_OPTIONS">>, <<p.scsiload_ossparms # NotGiven, "CONFLICTING_OPTIONS">>,
     <<p.scsiload_bootrec # NotGiven, "CONFLICTING_OPTIONS">>,
     <<p.image_op \in {"STOP", "LOAD", "DIALOG", "LIST", "SCSILOAD", "SCSIDUMP"}, "CONFLICTING_OPTIONS">> >>

Loads == {"LOAD", "SCSILOAD", "SCSIDUMP"}
Scsi == {"SCSILOAD", "SCSIDUMP"}

\* strncmp with "0000000000000000": only a value of sixteen zeros is noticed.
Noticed(v) == v = "zeros"

LparObjections(p, user, password, port, encryption, several, longName) ==
  << <<user /\ ~encryption, "USERNAME_ENC_OFF">>, <<encryption /\ ~user, "NO_USERNAME">>,
     <<port, "CONFLICTING_OPTIONS">>, <<~password, "MISSING_PASSWORD">>,
     <<p.msg_timeout # Undefined /\ p.image_op # "DIALOG", "CONFLICTING_OPTIONS">>,
     <<p.msg_timeout # Undefined /\ p.msg_timeout < 1, "INVALID_PARAMETER_VALUE">>,
     <<p.msgfilename # NotGiven /\ p.image_op # "DIALOG", "CONFLICTING_OPTIONS">>,
     <<p.profile # NotGiven /\ p.image_op # "ACTIVATE", "CONFLICTING_OPTIONS">>,
     <<p.profile = "too long", "INVALID_PARAMETER_VALUE">>,
     <<p.image_op \notin Loads /\ (p.load_address # NotGiven \/ p.load_parms # NotGiven), "CONFLICTING_OPTIONS">>,
     <<p.image_op # "LOAD" /\ (\/ p.clear # Undefined \/ p.store_stat # Undefined
                               \/ p.load_timeout # Undefined), "CONFLICTING_OPTIONS">>,
     <<p.load_parms = "too long", "INVALID_PARAMETER_VALUE">>,
     <<p.load_timeout # Undefined /\ p.load_timeout \notin 60..600, "INVALID_PARAMETER_VALUE">>,
     <<p.image_op \notin Scsi /\ (\/ Noticed(p.scsiload_wwpn) \/ Noticed(p.scsiload_lun)
                                  \/ Noticed(p.scsiload_bootrec) \/ p.scsiload_bps # Undefined
                                  \/ p.scsiload_ossparms # NotGiven), "CONFLICTING_OPTIONS">>,
     <<p.scsiload_bps > 30, "INVALID_PARAMETER_VALUE">>,
     <<longName, "INVALID_PARAMETER_VALUE">>,
     <<several /\ p.force # 1 /\ p.image_op = "LOAD" /\ p.load_address # NotGiven, "MORE_THAN_ONE_IMAGE">>,
     <<several /\ p.force # 1 /\ p.image_op \in Scsi
         /\ (p.load_address # NotGiven \/ p.scsiload_wwpn # NotGiven \/ p.scsiload_lun # NotGiven),
       "MORE_THAN_ONE_IMAGE">> >>

\* parms_check_vm returns at the first objection.
FirstObjection(objections) ==
  LET raised == {n \in DOMAIN objections : objections[n][1]}
  IN  IF raised = {} THEN "0" ELSE objections[Min(raised)][2]

\* snipl_lpar_prepare_check goes on; the last objection gives the code.
LastObjection(objections) ==
  LET raised == {n \in DOMAIN objections : objections[n][1]}
  IN  IF raised = {} THEN "0" ELSE objections[Max(raised)][2]

(***************************************************************************)
(* snipl_image_load, scsi_setup, snipl_image_activate: the operands of a   *)
(* command, and what the function leaves in the parameters.                *)
(***************************************************************************)
\* Mutated form: memory is cleared unless the command line says otherwise.
BugOperated(p) ==
  IF p.image_op # "LOAD" THEN p
  ELSE [p EXCEPT !.clear = IF @ # Undefined THEN @ ELSE 1,
                 !.load_timeout = IF @ = Undefined THEN 60 ELSE @,
                 !.store_stat = IF @ = Undefined THEN 0 ELSE @]

Operated(p) ==
  IF p.image_op # "LOAD" THEN p
  ELSE [p EXCEPT !.clear = IF @ # Undefined THEN @ ELSE IF p.store_stat = 1 THEN 0 ELSE 1,
                 !.load_timeout = IF @ = Undefined THEN 60 ELSE @,
                 !.store_stat = IF @ = Undefined THEN 0 ELSE @]

Operands(p) ==
  CASE p.image_op = "ACTIVATE" -> <<p.profile>>
    [] p.image_op = "LOAD" -> <<p.load_address, p.load_parms, p.clear, p.load_timeout, p.store_stat>>
    [] p.image_op \in Scsi -> <<p.load_address, p.load_parms, p.scsiload_wwpn, p.scsiload_lun, p.scsiload_bps,
                                p.scsiload_ossparms, p.scsiload_bootrec>>
    [] OTHER -> <<>>
=============================================================================
