--------------------------- MODULE SncapJobProofs ---------------------------
(***************************************************************************)
(* Proofs about SncapJob, whatever the options, their number and their     *)
(* order, and whatever the file says: what was decided about a job stays   *)
(* (JInv); and the job that goes to the server is complete, says what the  *)
(* options say, and takes the rest from one section (MadeInv).             *)
(***************************************************************************)
EXTENDS SncapJob, WellFoundedInduction, TLAPS

\* The fields of a job.
Field ==
  {"CPC_id", "TCR_id", "config_file", "software_model", "address", "password", "username", "operation",
   "mode", "encryption", "timeout", "cpu_quantity"}

\* While options are taken, a field that somebody has set shows in option_specified, or in the
\* operation that names a record.
Untouched ==
  pc = "options" =>
    /\ \A c \in DOMAIN TextOf : c \notin specified => job[TextOf[c]] = NULL
    /\ job.operation = "UNDEFINED" => job.TCR_id = NULL
    /\ "e" \notin specified => job.encryption = "undefined"

JInv == DOMAIN job = Field /\ Untouched

\* The step is one NothingOverwritten allows.
Kept ==
  rc' = "OK" =>
    /\ \A t \in Text \ {"CPC_id"} : job[t] # NULL => job'[t] = job[t]
    /\ job.CPC_id \in {NULL, job'.CPC_id} \/ (pc = "server" /\ job.address = NULL)
    /\ job.encryption # "undefined" => job'.encryption = job.encryption
    /\ job.operation # "UNDEFINED" => job'.operation = job.operation

(***************************************************************************)
(* The tables.                                                             *)
(***************************************************************************)
LEMMA Tables ==
  /\ DOMAIN OperationOf = {"a", "d", "h", "x", "c", "l", "q", "v"}
  /\ DOMAIN ModeOf = {"t", "V", "P", "n"}
  /\ DOMAIN CpuOf = {"C", "F", "A", "z", "I"}
  /\ DOMAIN TextOf = {"CPC", "f", "m", "S", "p", "u"}
  BY DEF OperationOf, ModeOf, CpuOf, TextOf

LEMMA Naming ==
  /\ \A c \in DOMAIN OperationOf : OperationOf[c] # "UNDEFINED"
  /\ \A c, d \in DOMAIN TextOf : TextOf[c] = TextOf[d] => c = d
  /\ \A c \in DOMAIN TextOf : TextOf[c] \in Text \ {"TCR_id"}
  /\ Text = {"CPC_id", "config_file", "software_model", "address", "password", "username", "TCR_id"}
  /\ Text \subseteq Field
  BY Tables DEF OperationOf, TextOf, Text, Field

(***************************************************************************)
(* The loop over the options.                                              *)
(***************************************************************************)
\* Nothing of what Kept speaks about changes.
Same(j, k) ==
  /\ \A t \in Text : k[t] = j[t]
  /\ k.encryption = j.encryption /\ k.operation = j.operation

LEMMA SameSteps ==
  ASSUME NEW j, DOMAIN j = Field, NEW v
  PROVE  /\ \A k : k = [j EXCEPT !.mode = v] => DOMAIN k = Field /\ Same(j, k)
         /\ \A k : k = [j EXCEPT !.cpu_quantity = v] => DOMAIN k = Field /\ Same(j, k)
         /\ \A k : k = [j EXCEPT !.timeout = v] => DOMAIN k = Field /\ Same(j, k)
  BY Naming DEF Same, Field

LEMMA TextStep ==
  ASSUME NEW j, DOMAIN j = Field, NEW f \in Text, NEW v
  PROVE  /\ DOMAIN [j EXCEPT ![f] = v] = Field
         /\ \A t \in Text : t # f => [j EXCEPT ![f] = v][t] = j[t]
         /\ [j EXCEPT ![f] = v].encryption = j.encryption
         /\ [j EXCEPT ![f] = v].operation = j.operation
  BY Naming DEF Field

LEMMA OperationStep ==
  ASSUME NEW j, DOMAIN j = Field, NEW o, o.opt \in DOMAIN OperationOf
  PROVE  /\ DOMAIN Handled(j, o) = Field
         /\ \A t \in Text : t # "TCR_id" => Handled(j, o)[t] = j[t]
         /\ Handled(j, o).encryption = j.encryption
         /\ Handled(j, o).operation = OperationOf[o.opt]
<1> DEFINE k == Handled(j, o)
<1>1. PICK w : k = [j EXCEPT !.operation = OperationOf[o.opt], !.TCR_id = w]
  BY Tables DEF Handled
<1>2. PICK v : v = OperationOf[o.opt]
  OBVIOUS
<1>3. k = [j EXCEPT !.operation = v, !.TCR_id = w]
  BY <1>1, <1>2
<1> HIDE DEF k
<1>4. /\ DOMAIN k = Field
      /\ \A t \in Text : t # "TCR_id" => k[t] = j[t]
      /\ k.encryption = j.encryption /\ k.operation = v
  BY <1>3, Naming DEF Field
<1> QED
  BY <1>2, <1>4 DEF k

LEMMA EncryptionStep ==
  ASSUME NEW j, DOMAIN j = Field, NEW v
  PROVE  LET k == [j EXCEPT !.encryption = v]
         IN  /\ DOMAIN k = Field
             /\ \A t \in Text : k[t] = j[t]
             /\ k.operation = j.operation
  BY Naming DEF Field

LEMMA OptionTaken ==
  ASSUME JInv, TakeOption
  PROVE  JInv' /\ Kept
<1> DEFINE o == Given
<1>1. /\ pc = "options" /\ DOMAIN job = Field /\ specified' = specified \cup {o.opt}
      /\ job' = Handled(job, o) /\ Refuses(o) = "OK"
  BY DEF JInv, TakeOption, Go
<1>2. /\ \A c \in DOMAIN TextOf : c \notin specified => job[TextOf[c]] = NULL
      /\ job.operation = "UNDEFINED" => job.TCR_id = NULL
      /\ "e" \notin specified => job.encryption = "undefined"
  BY <1>1 DEF JInv, Untouched
<1>3. o.opt \notin specified /\ HandlerRefuses(o) = "OK"
  BY <1>1 DEF Refuses
<1> HIDE DEF o
<1>4. ASSUME Same(job, job'), DOMAIN job' = Field
      PROVE  JInv' /\ Kept
  <2>1. Untouched'
    BY <1>1, <1>2, <1>4, Naming DEF Untouched, Same
  <2> QED
    BY <1>4, <2>1, Naming DEF JInv, Kept, Same
<1>5. CASE o.opt \in DOMAIN OperationOf
  <2>1. job.operation = "UNDEFINED"
    BY <1>3, <1>5, Tables DEF HandlerRefuses
  <2>3. /\ DOMAIN job' = Field /\ \A t \in Text : t # "TCR_id" => job'[t] = job[t]
        /\ job'.encryption = job.encryption /\ job'.operation = OperationOf[o.opt]
    BY <1>1, <1>5, OperationStep
  <2>4. job'.operation # "UNDEFINED"
    BY <1>5, <2>3, Naming
  <2>5. Untouched'
    BY <1>1, <1>2, <2>3, <2>4, Naming DEF Untouched
  <2>6. Kept
    BY <1>2, <2>1, <2>3, Naming DEF Kept
  <2> QED
    BY <2>3, <2>5, <2>6 DEF JInv
<1>6. CASE o.opt \in DOMAIN ModeOf
  <2>1. PICK v : job' = [job EXCEPT !.mode = v]
    BY <1>1, <1>6, Tables DEF Handled
  <2> QED
    BY <1>1, <1>4, <2>1, SameSteps
<1>7. CASE o.opt \in DOMAIN CpuOf
  <2>1. PICK v : job' = [job EXCEPT !.cpu_quantity = v]
    BY <1>1, <1>7, Tables DEF Handled
  <2> QED
    BY <1>1, <1>4, <2>1, SameSteps
<1>8. CASE o.opt \in DOMAIN TextOf
  <2> DEFINE f == TextOf[o.opt]
  <2>1. job' = [job EXCEPT ![f] = o.arg]
    BY <1>1, <1>8, Tables DEF Handled
  <2>2. f \in Text \ {"TCR_id"}
    BY <1>8, Naming
  <2>3. job[f] = NULL
    BY <1>2, <1>3, <1>8
  <2>4. \A c \in DOMAIN TextOf : c # o.opt => TextOf[c] # f
    BY <1>8, Naming
  <2> HIDE DEF f
  <2>5. /\ DOMAIN job' = Field /\ \A t \in Text : t # f => job'[t] = job[t]
        /\ job'.encryption = job.encryption /\ job'.operation = job.operation
    BY <1>1, <2>1, <2>2, TextStep
  <2>6. Untouched'
    BY <1>1, <1>2, <2>2, <2>4, <2>5, Naming DEF Untouched
  <2>7. Kept
    BY <2>2, <2>3, <2>5, Naming DEF Kept
  <2> QED
    BY <2>5, <2>6, <2>7 DEF JInv
<1>9. CASE o.opt = "T"
  <2>1. job' = [job EXCEPT !.timeout = o.number]
    BY <1>1, <1>9, Tables DEF Handled
  <2> QED
    BY <1>1, <1>4, <2>1, SameSteps
<1>10. CASE o.opt = "e"
  <2>1. job' = [job EXCEPT !.encryption = "off"]
    BY <1>1, <1>10, Tables DEF Handled
  <2>2. DOMAIN job' = Field /\ (\A t \in Text : job'[t] = job[t]) /\ job'.operation = job.operation
    BY <1>1, <2>1, EncryptionStep
  <2>3. job.encryption = "undefined"
    BY <1>2, <1>3, <1>10
  <2>4. Untouched'
    BY <1>1, <1>2, <1>10, <2>2, Naming DEF Untouched
  <2> QED
    BY <2>2, <2>3, <2>4, Naming DEF JInv, Kept
<1>11. CASE o.opt \notin DOMAIN OperationOf \cup DOMAIN ModeOf \cup DOMAIN CpuOf \cup DOMAIN TextOf \cup {"T", "e"}
  <2>1. job' = job
    BY <1>1, <1>11 DEF Handled
  <2> QED
    BY <1>1, <1>4, <2>1 DEF Same
<1> QED
  BY <1>5, <1>6, <1>7, <1>8, <1>9, <1>10, <1>11

(***************************************************************************)
(* The rest of job_create.                                                 *)
(***************************************************************************)
\* Behind the options only the fields matter.
LEMMA Behind ==
  ASSUME pc' # "options", DOMAIN job' = Field
  PROVE  JInv'
  BY DEF JInv, Untouched

LEMMA Quiet ==
  ASSUME JInv, UNCHANGED job, pc' # "options" \/ UNCHANGED <<pc, specified>>
  PROVE  JInv' /\ Kept
  BY Naming DEF JInv, Untouched, Kept

LEMMA OneText ==
  ASSUME JInv, NEW f \in Text, job[f] = NULL, NEW v, job' = [job EXCEPT ![f] = v], pc' # "options"
  PROVE  JInv' /\ Kept
<1>1. /\ DOMAIN job' = Field
      /\ \A t \in Text : t # f => job'[t] = job[t]
      /\ job'.encryption = job.encryption /\ job'.operation = job.operation
  BY TextStep DEF JInv
<1> QED
  BY <1>1, Behind, Naming DEF Kept

LEMMA Encryption ==
  ASSUME JInv, NEW v, job' = [job EXCEPT !.encryption = v], pc' # "options",
         rc' = "OK" => job.encryption = "undefined"
  PROVE  JInv' /\ Kept
<1>1. DOMAIN job' = Field /\ (\A t \in Text : job'[t] = job[t]) /\ job'.operation = job.operation
  BY EncryptionStep DEF JInv
<1> QED
  BY <1>1, Behind, Naming DEF Kept

LEMMA ServerFound ==
  ASSUME JInv, FindServer
  PROVE  JInv' /\ Kept
<1>1. pc = "server" /\ pc' # "options" /\ job.address = NULL /\ DOMAIN job = Field
  BY DEF FindServer, JInv, Go, Ends
<1>2. PICK a, c : job' = [job EXCEPT !.address = a, !.CPC_id = c]
  BY DEF FindServer, Translated
<1>3. /\ DOMAIN job' = Field
      /\ \A t \in Text : t \notin {"address", "CPC_id"} => job'[t] = job[t]
      /\ job'.encryption = job.encryption /\ job'.operation = job.operation
  BY <1>1, <1>2, Naming DEF Field
<1> QED
  BY <1>1, <1>3, Behind, Naming DEF Kept

LEMMA JStep ==
  ASSUME JInv, [Next]_vars
  PROVE  JInv' /\ Kept
<1>1. CASE TakeOption
  BY <1>1, OptionTaken
<1>2. CASE \/ RefuseOption \/ NoOptions \/ OptionsRead \/ PromptFails \/ LookFails \/ NoFileNeeded \/ FileExists
           \/ FileVanishes \/ ReadFails \/ LoadCrashes \/ Load \/ AddressGiven \/ FindServerFails \/ UserGiven
           \/ VerifyJob \/ Done \/ UNCHANGED vars
  <2>1. UNCHANGED job /\ (pc' # "options" \/ UNCHANGED <<pc, specified>>)
    BY <1>2 DEF RefuseOption, NoOptions, OptionsRead, PromptFails, LookFails, NoFileNeeded, FileExists,
           FileVanishes, ReadFails, LoadCrashes, Load, AddressGiven, FindServerFails, UserGiven, VerifyJob, Done,
           Go, Ends, vars
  <2> QED
    BY <2>1, Quiet
<1>3. CASE PromptPassword
  <2>1. PICK v : job' = [job EXCEPT !["password"] = v]
    BY <1>3 DEF PromptPassword
  <2>2. job["password"] = NULL /\ pc' # "options" /\ "password" \in Text
    BY <1>3, Naming DEF PromptPassword, Go
  <2> QED
    BY <2>1, <2>2, OneText
<1>4. CASE NoFile
  <2>1. job' = [job EXCEPT !.encryption = "on"] /\ pc' # "options"
    BY <1>4 DEF NoFile, Ends, Go
  <2>2. rc' = "OK" => job.encryption = "undefined"
    BY <1>4 DEF NoFile, Ends, NeedsFile
  <2> QED
    BY <2>1, <2>2, Encryption
<1>5. CASE FindServer
  BY <1>5, ServerFound
<1>6. CASE FindPassword
  <2>1. pc' # "options"
    BY <1>6 DEF FindPassword, Go, Ends
  <2>2. CASE job.password # NULL
    BY <1>6, <2>1, <2>2, Quiet DEF FindPassword
  <2>3. CASE job.password = NULL
    <3>1. job' = [job EXCEPT !["password"] = Value("password")]
      BY <1>6, <2>3 DEF FindPassword
    <3>2. job["password"] = NULL /\ "password" \in Text
      BY <2>3, Naming
    <3> QED
      BY <2>1, <3>1, <3>2, OneText
  <2> QED
    BY <2>2, <2>3
<1>7. CASE FindEncryption
  <2>1. pc' # "options"
    BY <1>7 DEF FindEncryption, Go, Ends
  <2>2. UNCHANGED job \/ \E v : job' = [job EXCEPT !.encryption = v] /\ job.encryption = "undefined"
    BY <1>7 DEF FindEncryption
  <2> QED
    BY <2>1, <2>2, Quiet, Encryption
<1>8. CASE FindUser
  <2>1. pc' # "options" /\ job["username"] = NULL /\ "username" \in Text
    BY <1>8, Naming DEF FindUser, Go, Ends
  <2>2. UNCHANGED job \/ job' = [job EXCEPT !["username"] = Value("user")]
    BY <1>8 DEF FindUser
  <2> QED
    BY <2>1, <2>2, Quiet, OneText
<1> QED
  BY <1>1, <1>2, <1>3, <1>4, <1>5, <1>6, <1>7, <1>8 DEF Next

LEMMA JInit ==
  ASSUME Init PROVE JInv
<1>1. job = NoJob /\ DOMAIN job = Field
  BY DEF Init, NoJob, Field
<1>2. \A t \in Text : job[t] = NULL
  BY <1>1, Naming DEF NoJob
<1>3. job.encryption = "undefined"
  BY <1>1 DEF NoJob
<1> QED
  BY <1>1, <1>2, <1>3, Naming DEF JInv, Untouched

\* Whatever the options, their order and the file: as long as no error is found nothing that was
\* decided is overwritten, but an alias.
THEOREM DecidedStays == Spec => NothingOverwritten
<1>1. JInv /\ [Next]_vars => JInv'
  BY JStep
<1>2. JInv /\ [Next]_vars => [Kept]_vars
  BY JStep
<1>3. [Kept]_vars => [ rc' = "OK" =>
        /\ \A t \in Text \ {"CPC_id"} : job[t] # NULL => job'[t] = job[t]
        /\ job.CPC_id \in {NULL, job'.CPC_id} \/ (pc = "server" /\ job.address = NULL)
        /\ job.encryption # "undefined" => job'.encryption = job.encryption
        /\ job.operation # "UNDEFINED" => job'.operation = job.operation ]_vars
  BY DEF Kept
<1> QED
  BY <1>1, <1>2, <1>3, JInit, PTL DEF Spec, NothingOverwritten
(***************************************************************************)
(* The job while the options are read.                                     *)
(***************************************************************************)
\* What a job can hold.
Entry == STRING \cup {NULL} \cup Prompted

JobType ==
  /\ DOMAIN job = Field
  /\ \A t \in Text : job[t] \in Entry
  /\ job.operation \in {OperationOf[c] : c \in DOMAIN OperationOf} \cup {"UNDEFINED"}
  /\ job.mode \subseteq {ModeOf[c] : c \in DOMAIN ModeOf}
  /\ job.encryption \in {"undefined", "on", "off"} /\ job.timeout \in Int /\ job.cpu_quantity \in [Cpu -> Nat]

SectionType == [address : STRING \ {NULL, ""}, properties : Seq(Line)]

CallType ==
  /\ argv \in Seq(Option) /\ next \in 1 .. Len(argv) + 1
  /\ \A k \in DOMAIN argv : argv[k].opt \in WithText => argv[k].arg # NULL
  /\ DOMAIN files \subseteq {"named", "home", "etc"} /\ \A f \in DOMAIN files : files[f] \in Seq(Line)
  /\ pc \in {"options", "prompt", "look", "load", "server", "password", "encryption", "user", "verify",
             "connect", "ended", "crashed"}
  /\ pc # "ended" => rc = "OK"

Taken == 1 .. next - 1

\* What one option has left in the job.
Left(o) ==
  /\ o.opt \in DOMAIN TextOf => job[TextOf[o.opt]] = o.arg
  /\ o.opt \in DOMAIN OperationOf =>
       /\ job.operation = OperationOf[o.opt]
       /\ job.TCR_id = IF o.opt \in {"a", "d", "q"} THEN o.arg ELSE NULL
  /\ o.opt \in DOMAIN CpuOf => job.cpu_quantity[CpuOf[o.opt]] = o.number
  /\ o.opt = "T" => job.timeout = o.number

\* The options so far: each of them once, one operation at most, and the job says what they say.
OptionsSoFar ==
  /\ specified = {argv[k].opt : k \in Taken}
  /\ \A k, n \in Taken : argv[k].opt = argv[n].opt => k = n
  /\ \A k, n \in Taken : argv[k].opt \in DOMAIN OperationOf /\ argv[n].opt \in DOMAIN OperationOf => k = n
  /\ \A k \in Taken : Left(argv[k])
  /\ \A c \in DOMAIN TextOf \ specified : job[TextOf[c]] = NULL
  /\ \A c \in DOMAIN CpuOf \ specified : job.cpu_quantity[CpuOf[c]] = 0
  /\ specified \cap DOMAIN OperationOf = {} => job.operation = "UNDEFINED" /\ job.TCR_id = NULL
  /\ job.mode = {ModeOf[c] : c \in specified \cap DOMAIN ModeOf}
  /\ job.encryption = (IF "e" \in specified THEN "off" ELSE "undefined")
  /\ "T" \notin specified => job.timeout = -1

(***************************************************************************)
(* The job behind the options.                                             *)
(***************************************************************************)
\* The places where the command line still has the only say on a field.
Working == {"look", "load", "server", "password", "encryption", "user"}

\* The section that OneSection speaks of.
Used == IF Tells("S") THEN FindByAddress(sections, Argument("S")) ELSE FindByCpc(sections, Argument("CPC"))
UsedValue(key) == IF Used = 0 THEN NULL ELSE ValueOf(sections[Used], key)

PasswordFound == ~Tells("p") /\ ~Tells("P") => job.password = UsedValue("password")
EncryptionFound == ~Tells("e") => job.encryption = (IF UsedValue("encryption") = "no" THEN "off" ELSE "on")
UserFound == ~Tells("u") => job.username = (IF job.encryption = "on" THEN UsedValue("user") ELSE NULL)
AddressFound == ~Tells("S") => Used # 0 /\ job.address = sections[Used].address

Decided == AddressFound /\ PasswordFound /\ EncryptionFound /\ UserFound

Id == Argument("CPC")
Listed == {p \in UNION {CpcIds(sections[n]) : n \in DOMAIN sections} : Names(p, Id)}
Shadowed ==
  \E n \in DOMAIN sections : \E p \in CpcIds(sections[n]) :
    p.alias # NULL /\ p.value # Id /\ <<p.value, Id>> \in Begins

CpcFound == \E p \in Listed : job.CPC_id = p.value

\* An operation that names no record has none.
RecordNamed == job.operation \in {"LIST_CPCS", "QUERY_CPUS", "QUERY_LIST"} => job.TCR_id = NULL

Sought ==
  /\ pc \in {"prompt", "look"} => specified = {argv[k].opt : k \in DOMAIN argv}
  /\ pc = "prompt" => Tells("P")
  /\ pc \in Working \cup {"prompt", "verify", "connect"} => RecordNamed
  /\ pc \in {"prompt", "look", "load", "server"} => job.CPC_id = Argument("CPC") /\ job.address = Argument("S")
  /\ pc \in {"prompt", "look", "load", "server", "password"} /\ ~Tells("p") /\ ~Tells("P") => job.password = NULL
  /\ pc \in {"prompt"} \cup (Working \ {"user"}) => job.encryption = IF Tells("e") THEN "off" ELSE "undefined"
  /\ pc \in Working \cup {"prompt"} => job.username = Argument("u")

Looked ==
  /\ sections \in Seq(SectionType) /\ server \in 0 .. Len(sections) /\ VerifyConfig(sections)
  /\ pc \in {"options", "prompt", "look", "load"} => sections = <<>>
  /\ pc \in {"options", "prompt", "look", "load", "server"} => server = 0
  /\ pc \in {"password", "encryption", "user"} => Section = Used /\ AddressFound
  /\ pc \in {"encryption", "user"} => PasswordFound
  /\ pc = "user" => EncryptionFound /\ job.encryption # "undefined"
  /\ pc = "verify" /\ job.operation \notin {"HELP", "VERSION"} => Decided /\ job.encryption # "undefined"
  /\ pc = "connect" => Decided /\ job.encryption # "undefined"

Named ==
  ~Tells("S") /\ sections # <<>> =>
    /\ pc \in {"password", "encryption", "user", "verify", "connect"} => CpcFound
    /\ pc \in {"password", "encryption", "user", "verify"} => job.address \notin {NULL, ""}

MadeInv ==
  /\ JobType /\ CallType
  /\ pc = "options" => OptionsSoFar
  /\ Sought /\ Looked /\ Named
  /\ ReadyIsComplete /\ OptionsAsASet /\ DefinedIsFound

(***************************************************************************)
(* Searches.                                                               *)
(***************************************************************************)
LEMMA LeastNatural ==
  ASSUME NEW S, S \subseteq Nat, S # {}
  PROVE  Min(S) \in S /\ \A k \in S : Min(S) <= k
<1> DEFINE R == OpToRel(<, Nat)
<1>1. IsWellFoundedOn(R, Nat)
  BY NatLessThanWellFounded
<1>2. PICK i \in S : \A k \in S : <<k, i>> \notin R
  <2> HIDE DEF R
  <2> QED
    BY <1>1, WFMin
<1>3. \A k \in S : ~(k < i)
  BY <1>2 DEF OpToRel
<1>4. \A k \in S : k \in Nat /\ i \in Nat
  OBVIOUS
<1> HIDE DEF R
<1>5. \A k \in S : i <= k
  BY <1>3, <1>4
<1> QED
  BY <1>2, <1>5 DEF Min

LEMMA AddressSearch ==
  ASSUME NEW S, NEW s \in Seq(S), NEW address
  PROVE  FindByAddress(s, address) \in 0 .. Len(s)
<1> DEFINE I == {i \in 1 .. Len(s) : s[i].address = address}
<1>1. FindByAddress(s, address) = IF I # {} THEN Min(I) ELSE 0
  BY DEF FindByAddress, SelectInSeq
<1>2. I # {} => Min(I) \in I
  <2>1. I \subseteq Nat
    OBVIOUS
  <2> HIDE DEF I
  <2> QED
    BY <2>1, LeastNatural
<1> QED
  BY <1>1, <1>2

LEMMA CpcSearch ==
  ASSUME NEW S, NEW s \in Seq(S), NEW id
  PROVE  /\ FindByCpc(s, id) \in 0 .. Len(s)
         /\ FindByCpc(s, id) # 0 => \E p \in CpcIds(s[FindByCpc(s, id)]) : ValueIsEqual(p, id)
         /\ FindByCpc(s, id) = 0 => \A n \in 1 .. Len(s) : \A p \in CpcIds(s[n]) : ~ValueIsEqual(p, id)
<1> DEFINE I == {i \in 1 .. Len(s) : \E p \in CpcIds(s[i]) : ValueIsEqual(p, id)}
<1>1. FindByCpc(s, id) = IF I # {} THEN Min(I) ELSE 0
  BY DEF FindByCpc, SelectInSeq
<1>2. I # {} => Min(I) \in I
  <2>1. I \subseteq Nat
    OBVIOUS
  <2> HIDE DEF I
  <2> QED
    BY <2>1, LeastNatural
<1>3. CASE I = {}
  BY <1>1, <1>3
<1>4. CASE I # {}
  <2>1. Min(I) \in 1 .. Len(s) /\ \E p \in CpcIds(s[Min(I)]) : ValueIsEqual(p, id)
    BY <1>2, <1>4
  <2> HIDE DEF I
  <2> QED
    BY <1>1, <1>4, <2>1
<1> QED
  BY <1>3, <1>4

LEMMA PropertySearch ==
  ASSUME NEW section, NEW S, section.properties \in Seq(S), NEW id
  PROVE  /\ FindCpcProperty(section, id) \in 0 .. Len(section.properties)
         /\ FindCpcProperty(section, id) # 0 => Names(section.properties[FindCpcProperty(section, id)], id)
         /\ FindCpcProperty(section, id) = 0 =>
              \A k \in 1 .. Len(section.properties) : ~Names(section.properties[k], id)
<1> DEFINE I == {i \in 1 .. Len(section.properties) : Names(section.properties[i], id)}
<1>1. FindCpcProperty(section, id) = IF I # {} THEN Min(I) ELSE 0
  BY DEF FindCpcProperty, SelectInSeq
<1>2. I # {} => Min(I) \in I
  <2>1. I \subseteq Nat
    OBVIOUS
  <2> HIDE DEF I
  <2> QED
    BY <2>1, LeastNatural
<1> QED
  BY <1>1, <1>2

LEMMA ValueFound ==
  ASSUME NEW section \in SectionType, NEW key
  PROVE  ValueOf(section, key) \in STRING \cup {NULL}
<1> DEFINE I == {i \in 1 .. Len(section.properties) : section.properties[i].key = key}
<1>1. ValueOf(section, key) = NULL \/ (I # {} /\ ValueOf(section, key) = section.properties[Min(I)].value)
  BY DEF ValueOf, SelectInSeq
<1>2. I # {} => Min(I) \in I
  <2>1. I \subseteq Nat
    OBVIOUS
  <2> HIDE DEF I
  <2> QED
    BY <2>1, LeastNatural
<1>3. \A k \in 1 .. Len(section.properties) : section.properties[k] \in Line
  <2>1. section.properties \in Seq(Line)
    BY DEF SectionType
  <2>2. \A q \in Seq(Line) : \A k \in 1 .. Len(q) : q[k] \in Line
    OBVIOUS
  <2> QED
    BY <2>1, <2>2
<1>4. \A l \in Line : l.value \in STRING \cup {NULL}
  BY DEF Line
<1> QED
  BY <1>1, <1>2, <1>3, <1>4

LEMMA NothingInNothing ==
  ASSUME NEW x
  PROVE  FindByAddress(<<>>, x) = 0 /\ FindByCpc(<<>>, x) = 0
<1>1. <<>> \in Seq({}) /\ Len(<<>>) = 0
  OBVIOUS
<1>2. FindByAddress(<<>>, x) \in 0 .. Len(<<>>) /\ FindByCpc(<<>>, x) \in 0 .. Len(<<>>)
  BY <1>1, AddressSearch, CpcSearch
<1> QED
  BY <1>1, <1>2

\* job_verify: the verdict is that of the first check that fails.
LEMMA Verdict ==
  ASSUME NEW S, NEW v \in Seq(S)
  PROVE  /\ First(v) = "OK" => \A k \in 1 .. Len(v) : v[k] = "OK"
         /\ First(v) # "OK" => \E k \in 1 .. Len(v) : First(v) = v[k]
<1> DEFINE I == {i \in 1 .. Len(v) : v[i] # "OK"}
<1>1. First(v) = IF (IF I # {} THEN Min(I) ELSE 0) = 0 THEN "OK" ELSE v[IF I # {} THEN Min(I) ELSE 0]
  BY DEF First, SelectInSeq
<1>2. I # {} => Min(I) \in I
  <2>1. I \subseteq Nat
    OBVIOUS
  <2> HIDE DEF I
  <2> QED
    BY <2>1, LeastNatural
<1>3. CASE I = {}
  BY <1>1, <1>3
<1>4. CASE I # {}
  <2>1. Min(I) \in 1 .. Len(v) /\ v[Min(I)] # "OK" /\ Min(I) # 0
    BY <1>2, <1>4
  <2> HIDE DEF I
  <2>2. First(v) = v[Min(I)]
    BY <1>1, <1>4, <2>1
  <2> QED
    BY <2>1, <2>2
<1> QED
  BY <1>3, <1>4

(***************************************************************************)
(* What the parser makes of a file.                                        *)
(***************************************************************************)
ConfigType == [sections : Seq(SectionType), ok : BOOLEAN]

LEMMA LineParsed ==
  ASSUME NEW c \in ConfigType, NEW l \in Line
  PROVE  ParseLine(c, l) \in ConfigType
<1>1. c.sections \in Seq(SectionType) /\ Len(c.sections) \in Nat
  BY DEF ConfigType
<1>2. CASE ~c.ok \/ l.key \in {"blank", "malformed"}
  BY <1>2 DEF ParseLine, ConfigType
<1>3. CASE c.ok /\ l.key = "server"
  <2>1. l.value \in STRING \ {NULL, ""}
    BY <1>3 DEF Line
  <2>2. <<>> \in Seq(Line)
    OBVIOUS
  <2>3. [address |-> l.value, properties |-> <<>>] \in SectionType
    BY <2>1, <2>2 DEF SectionType
  <2>4. Append(c.sections, [address |-> l.value, properties |-> <<>>]) \in Seq(SectionType)
    BY <1>1, <2>3
  <2>5. ParseLine(c, l) = [c EXCEPT !.sections = Append(c.sections, [address |-> l.value, properties |-> <<>>])]
    BY <1>3 DEF ParseLine
  <2> QED
    BY <2>4, <2>5 DEF ConfigType
<1>4. CASE c.ok /\ l.key \notin {"blank", "malformed", "server"} /\ c.sections # <<>>
  <2> DEFINE n == Len(c.sections)
             s == c.sections[n]
             e == [s EXCEPT !.properties = Append(s.properties, l)]
  <2>1. n \in 1 .. Len(c.sections)
    BY <1>1, <1>4
  <2>2. s \in SectionType
    BY <1>1, <2>1
  <2>3. e \in SectionType
    <3>1. s.properties \in Seq(Line)
      BY <2>2 DEF SectionType
    <3>2. \A q \in Seq(Line) : Append(q, l) \in Seq(Line)
      OBVIOUS
    <3> QED
      BY <2>2, <3>1, <3>2 DEF SectionType
  <2>4. ParseLine(c, l) = [c EXCEPT !.sections = [c.sections EXCEPT ![n] = e]]
    BY <1>4 DEF ParseLine
  <2> HIDE DEF e
  <2>5. [c.sections EXCEPT ![n] = e] \in Seq(SectionType)
    BY <1>1, <2>1, <2>3
  <2> QED
    BY <2>4, <2>5 DEF ConfigType
<1>5. CASE c.ok /\ l.key \notin {"blank", "malformed", "server"} /\ c.sections = <<>>
  BY <1>5 DEF ParseLine
<1> QED
  BY <1>2, <1>3, <1>4, <1>5 DEF ConfigType

\* The parser behind its n-th line.
ParsedTo(f, lines, m) == f = [n \in 0 .. m |-> IF n = 0 THEN NoConfig ELSE ParseLine(f[n - 1], lines[n])]

LEMMA ParserRuns ==
  ASSUME NEW lines, NEW m \in Nat
  PROVE  \E f : ParsedTo(f, lines, m)
<1> DEFINE none == {k \in Nat : ~\E f : ParsedTo(f, lines, k)}
<1> SUFFICES none = {}
  OBVIOUS
<1> SUFFICES ASSUME none # {}
             PROVE  FALSE
  OBVIOUS
<1>1. PICK i \in none : \A k \in none : i <= k
  <2> HIDE DEF none
  <2>1. none \subseteq Nat
    BY DEF none
  <2> QED
    BY <2>1, LeastNatural
<1>2. i # 0
  <2> DEFINE f == [n \in 0 .. 0 |-> NoConfig]
  <2>1. ParsedTo(f, lines, 0)
    BY DEF ParsedTo
  <2> QED
    BY <2>1
<1>3. PICK f : ParsedTo(f, lines, i - 1)
  <2>1. i - 1 \in Nat /\ ~(i <= i - 1)
    BY <1>2
  <2> QED
    BY <1>1, <2>1
<1> DEFINE g == [n \in 0 .. i |-> IF n = 0 THEN NoConfig ELSE ParseLine(f[n - 1], lines[n])]
<1>4. \A n \in 0 .. i - 1 : g[n] = f[n]
  BY <1>2, <1>3 DEF ParsedTo
<1>5. \A n \in 0 .. i : n # 0 => f[n - 1] = g[n - 1]
  BY <1>4
<1>6. ParsedTo(g, lines, i)
  BY <1>5 DEF ParsedTo
<1> QED
  BY <1>1, <1>6

LEMMA ParsedType ==
  ASSUME NEW lines \in Seq(Line)
  PROVE  Parsed(lines) \in ConfigType
<1> DEFINE f == CHOOSE g : ParsedTo(g, lines, Len(lines))
<1>1. Len(lines) \in Nat /\ \A n \in 1 .. Len(lines) : lines[n] \in Line
  OBVIOUS
<1>2. ParsedTo(f, lines, Len(lines))
  BY <1>1, ParserRuns
<1>3. Parsed(lines) = f[Len(lines)]
  BY DEF Parsed, ParsedTo
<1> HIDE DEF f
<1>4. /\ f[0] = NoConfig
      /\ \A n \in 1 .. Len(lines) : f[n] = ParseLine(f[n - 1], lines[n])
  BY <1>1, <1>2 DEF ParsedTo
<1> DEFINE bad == {n \in Nat : n <= Len(lines) /\ f[n] \notin ConfigType}
<1>5. bad = {}
  <2> SUFFICES ASSUME bad # {}
               PROVE  FALSE
    OBVIOUS
  <2>1. PICK i \in bad : \A k \in bad : i <= k
    <3>1. bad \subseteq Nat
      OBVIOUS
    <3> HIDE DEF bad
    <3> QED
      BY <3>1, LeastNatural
  <2>2. i # 0
    <3>1. NoConfig \in ConfigType
      <4>1. <<>> \in Seq(SectionType)
        OBVIOUS
      <4> QED
        BY <4>1 DEF NoConfig, ConfigType
    <3> QED
      BY <1>4, <2>1, <3>1
  <2>3. i - 1 \in Nat /\ i - 1 <= Len(lines) /\ ~(i <= i - 1) /\ i \in 1 .. Len(lines)
    BY <1>1, <2>1, <2>2
  <2>4. f[i - 1] \in ConfigType
    BY <2>1, <2>3
  <2> QED
    BY <1>1, <1>4, <2>1, <2>3, <2>4, LineParsed
<1> QED
  BY <1>1, <1>3, <1>5
(***************************************************************************)
(* One option more.                                                        *)
(***************************************************************************)
\* Only these fields change.
But(j, k, fields) == DOMAIN k = Field /\ \A f \in Field \ fields : k[f] = j[f]

LEMMA OneField ==
  ASSUME NEW j, DOMAIN j = Field, NEW f \in Field, NEW v, NEW k, k = [j EXCEPT ![f] = v]
  PROVE  But(j, k, {f}) /\ k[f] = v
  BY DEF But

LEMMA Apart ==
  /\ \A c, d \in DOMAIN CpuOf : CpuOf[c] = CpuOf[d] => c = d
  /\ \A c, d \in DOMAIN ModeOf : ModeOf[c] = ModeOf[d] => c = d
  /\ \A c, d \in DOMAIN OperationOf : OperationOf[c] = OperationOf[d] => c = d
  /\ \A c \in DOMAIN CpuOf : CpuOf[c] \in Cpu
  /\ DOMAIN OperationOf \cap (DOMAIN TextOf \cup DOMAIN ModeOf \cup DOMAIN CpuOf \cup {"T", "e"}) = {}
  /\ DOMAIN TextOf \cap (DOMAIN ModeOf \cup DOMAIN CpuOf \cup {"T", "e"}) = {}
  /\ DOMAIN ModeOf \cap (DOMAIN CpuOf \cup {"T", "e"}) = {}
  /\ DOMAIN CpuOf \cap {"T", "e"} = {}
  /\ {"operation", "TCR_id", "mode", "cpu_quantity", "timeout", "encryption"} \subseteq Field
  /\ {"operation", "mode", "cpu_quantity", "timeout", "encryption"} \cap Text = {}
  BY Tables, Naming DEF OperationOf, ModeOf, CpuOf, Cpu, Field

\* What is known when an option is taken.
Taking(o) ==
  /\ JobType /\ CallType /\ OptionsSoFar
  /\ o = argv[next] /\ o \in Option /\ next \in 1 .. Len(argv) /\ Len(argv) \in Nat
  /\ o.opt \notin specified /\ HandlerRefuses(o) = "OK"
  /\ argv' = argv /\ next' = next + 1 /\ specified' = specified \cup {o.opt} /\ job' = Handled(job, o)

LEMMA TakingFacts ==
  ASSUME NEW o, Taking(o)
  PROVE  /\ Taken' = Taken \cup {next} /\ next \notin Taken
         /\ \A k \in Taken : argv[k].opt # o.opt
         /\ specified' = {argv[k].opt : k \in Taken'}
         /\ \A k, n \in Taken' : argv[k].opt = argv[n].opt => k = n
         /\ o.opt \in DOMAIN OperationOf =>
              job.operation = "UNDEFINED" /\ \A k \in Taken : argv[k].opt \notin DOMAIN OperationOf
         /\ \A k, n \in Taken' : argv[k].opt \in DOMAIN OperationOf /\ argv[n].opt \in DOMAIN OperationOf => k = n
<1>1. next \in 1 .. Len(argv) /\ Len(argv) \in Nat /\ next' = next + 1
  BY DEF Taking
<1>2. Taken' = Taken \cup {next} /\ next \notin Taken
  BY <1>1 DEF Taken
<1>3. specified = {argv[k].opt : k \in Taken} /\ o = argv[next] /\ specified' = specified \cup {o.opt}
  BY DEF Taking, OptionsSoFar
<1>4. \A k \in Taken : argv[k].opt # o.opt
  BY <1>3 DEF Taking
<1>5. \A k, n \in Taken' : argv[k].opt = argv[n].opt => k = n
  BY <1>2, <1>3, <1>4 DEF Taking, OptionsSoFar
<1>6. ASSUME o.opt \in DOMAIN OperationOf
      PROVE  job.operation = "UNDEFINED" /\ \A k \in Taken : argv[k].opt \notin DOMAIN OperationOf
  <2>1. job.operation = "UNDEFINED"
    BY <1>6, Tables DEF Taking, HandlerRefuses
  <2>2. \A k \in Taken : argv[k].opt \in DOMAIN OperationOf => job.operation # "UNDEFINED"
    BY Naming DEF Taking, OptionsSoFar, Left
  <2> QED
    BY <2>1, <2>2
<1>7. \A k, n \in Taken' : argv[k].opt \in DOMAIN OperationOf /\ argv[n].opt \in DOMAIN OperationOf => k = n
  BY <1>2, <1>3, <1>6 DEF Taking, OptionsSoFar
<1>8. specified' = {argv[k].opt : k \in Taken'}
  BY <1>2, <1>3
<1> QED
  BY <1>2, <1>4, <1>5, <1>6, <1>7, <1>8

\* What the options of before left in the job.
StillLeft == \A k \in Taken : Left(argv[k])'

LEMMA Together ==
  ASSUME NEW o, Taking(o), StillLeft, Left(o)',
         \A c \in DOMAIN TextOf \ specified' : job'[TextOf[c]] = NULL,
         \A c \in DOMAIN CpuOf \ specified' : job'.cpu_quantity[CpuOf[c]] = 0,
         specified' \cap DOMAIN OperationOf = {} => job'.operation = "UNDEFINED" /\ job'.TCR_id = NULL,
         job'.mode = {ModeOf[c] : c \in specified' \cap DOMAIN ModeOf},
         job'.encryption = (IF "e" \in specified' THEN "off" ELSE "undefined"),
         "T" \notin specified' => job'.timeout = -1
  PROVE  OptionsSoFar'
<1>1. /\ Taken' = Taken \cup {next}
      /\ specified' = {argv[k].opt : k \in Taken'}
      /\ \A k, n \in Taken' : argv[k].opt = argv[n].opt => k = n
      /\ \A k, n \in Taken' : argv[k].opt \in DOMAIN OperationOf /\ argv[n].opt \in DOMAIN OperationOf => k = n
  BY TakingFacts
<1>2. argv' = argv /\ o = argv[next]
  BY DEF Taking
<1>3. \A k \in Taken' : Left(argv[k])'
  <2>1. PICK n : n = next
    OBVIOUS
  <2>2. Left(argv[n])'
    BY <1>2, <2>1 DEF Left
  <2> QED
    BY <1>1, <2>1, <2>2 DEF StillLeft
<1> QED
  BY <1>1, <1>2, <1>3 DEF OptionsSoFar

LEMMA OperationTaken ==
  ASSUME NEW o, Taking(o), o.opt \in DOMAIN OperationOf
  PROVE  JobType' /\ OptionsSoFar'
<1>1. PICK v, w : v = OperationOf[o.opt] /\ w = IF o.opt \in {"a", "d", "q"} THEN o.arg ELSE job.TCR_id
  OBVIOUS
<1>2. job' = [job EXCEPT !.operation = v, !.TCR_id = w]
  BY <1>1, Tables DEF Taking, Handled
<1>3. /\ DOMAIN job = Field /\ \A t \in Text : job[t] \in Entry
      /\ o \in Option /\ specified' = specified \cup {o.opt}
  BY DEF Taking, JobType
<1>4. /\ \A k \in Taken : argv[k].opt # o.opt
      /\ \A k \in Taken : argv[k].opt \notin DOMAIN OperationOf
      /\ specified = {argv[k].opt : k \in Taken}
  BY TakingFacts DEF Taking, OptionsSoFar
<1>5. specified \cap DOMAIN OperationOf = {} /\ job.TCR_id = NULL
  BY <1>4 DEF Taking, OptionsSoFar
<1>6. w = (IF o.opt \in {"a", "d", "q"} THEN o.arg ELSE NULL) /\ w \in Entry
  BY <1>1, <1>3, <1>5 DEF Option, Entry
<1>7. v \in {OperationOf[c] : c \in DOMAIN OperationOf}
  BY <1>1
<1>8. But(job, job', {"operation", "TCR_id"}) /\ job'.operation = v /\ job'.TCR_id = w
  BY <1>2, <1>3 DEF But, Field
<1>9. /\ DOMAIN job' = Field /\ \A t \in Text \ {"TCR_id"} : job'[t] = job[t]
      /\ job'.mode = job.mode /\ job'.encryption = job.encryption /\ job'.timeout = job.timeout
      /\ job'.cpu_quantity = job.cpu_quantity
  BY <1>8, Naming, Apart DEF But
<1>10. JobType'
  BY <1>3, <1>6, <1>7, <1>8, <1>9 DEF Taking, JobType
<1>11. StillLeft
  BY <1>4, <1>9, Naming DEF Taking, OptionsSoFar, Left, StillLeft
<1>12. Left(o)'
  BY <1>1, <1>6, <1>8, Apart DEF Left
<1>13. "T" \in specified' <=> "T" \in specified
  BY <1>3, Apart
<1>14. "e" \in specified' <=> "e" \in specified
  BY <1>3, Apart
<1>15. specified' \cap DOMAIN ModeOf = specified \cap DOMAIN ModeOf
  BY <1>3, Apart
<1>16. /\ DOMAIN TextOf \ specified' = DOMAIN TextOf \ specified
       /\ DOMAIN CpuOf \ specified' = DOMAIN CpuOf \ specified
  BY <1>3, Apart
<1>17. specified' \cap DOMAIN OperationOf # {}
  BY <1>3
<1>18. /\ \A c \in DOMAIN TextOf \ specified' : job'[TextOf[c]] = NULL
       /\ \A c \in DOMAIN CpuOf \ specified' : job'.cpu_quantity[CpuOf[c]] = 0
  BY <1>9, <1>16, Naming DEF Taking, OptionsSoFar
<1>19. /\ job'.mode = {ModeOf[c] : c \in specified' \cap DOMAIN ModeOf}
       /\ job'.encryption = (IF "e" \in specified' THEN "off" ELSE "undefined")
       /\ "T" \notin specified' => job'.timeout = -1
  BY <1>9, <1>13, <1>14, <1>15 DEF Taking, OptionsSoFar
<1> QED
  BY <1>10, <1>11, <1>12, <1>17, <1>18, <1>19, Together

LEMMA TextTaken ==
  ASSUME NEW o, Taking(o), o.opt \in DOMAIN TextOf
  PROVE  JobType' /\ OptionsSoFar'
<1> DEFINE f == TextOf[o.opt]
<1>1. job' = [job EXCEPT ![f] = o.arg]
  BY Tables DEF Taking, Handled
<1>2. /\ DOMAIN job = Field /\ \A t \in Text : job[t] \in Entry
      /\ o.arg \in Entry /\ specified' = specified \cup {o.opt}
  BY DEF Taking, JobType, Option, Entry
<1>3. \A k \in Taken : argv[k].opt # o.opt
  BY TakingFacts
<1>4. f \in Text \ {"TCR_id"} /\ f \in Field
  BY Naming
<1>5. \A c \in DOMAIN TextOf : c # o.opt => TextOf[c] # f
  BY Naming
<1> HIDE DEF f
<1>6. But(job, job', {f}) /\ job'[f] = o.arg
  BY <1>1, <1>2, <1>4, OneField
<1>7. /\ DOMAIN job' = Field /\ (\A t \in Text \ {f} : job'[t] = job[t]) /\ job'.TCR_id = job.TCR_id
      /\ job'.mode = job.mode /\ job'.encryption = job.encryption /\ job'.timeout = job.timeout
      /\ job'.cpu_quantity = job.cpu_quantity /\ job'.operation = job.operation
  <2>1. "TCR_id" \in Field \ {f} /\ {"mode", "encryption", "timeout", "cpu_quantity", "operation"} \subseteq Field \ {f}
    BY <1>4, Apart
  <2> QED
    BY <1>6, <2>1, Naming DEF But
<1>8. JobType'
  BY <1>2, <1>6, <1>7 DEF Taking, JobType
<1>9. StillLeft
  BY <1>3, <1>5, <1>7, Naming DEF Taking, OptionsSoFar, Left, StillLeft
<1>10. Left(o)'
  BY <1>6, Apart DEF Left, f
<1>11. /\ "T" \in specified' <=> "T" \in specified
       /\ "e" \in specified' <=> "e" \in specified
       /\ specified' \cap DOMAIN ModeOf = specified \cap DOMAIN ModeOf
       /\ specified' \cap DOMAIN OperationOf = specified \cap DOMAIN OperationOf
  BY <1>2, Apart
<1>12. DOMAIN CpuOf \ specified' = DOMAIN CpuOf \ specified
  BY <1>2, Apart
<1>13. \A c \in DOMAIN TextOf \ specified' : job'[TextOf[c]] = NULL
  BY <1>2, <1>5, <1>7, Naming DEF Taking, OptionsSoFar
<1>14. \A c \in DOMAIN CpuOf \ specified' : job'.cpu_quantity[CpuOf[c]] = 0
  BY <1>7, <1>12 DEF Taking, OptionsSoFar
<1>15. /\ specified' \cap DOMAIN OperationOf = {} => job'.operation = "UNDEFINED" /\ job'.TCR_id = NULL
       /\ job'.mode = {ModeOf[c] : c \in specified' \cap DOMAIN ModeOf}
       /\ job'.encryption = (IF "e" \in specified' THEN "off" ELSE "undefined")
       /\ "T" \notin specified' => job'.timeout = -1
  BY <1>7, <1>11 DEF Taking, OptionsSoFar
<1> QED
  BY <1>8, <1>9, <1>10, <1>13, <1>14, <1>15, Together

LEMMA CpuTaken ==
  ASSUME NEW o, Taking(o), o.opt \in DOMAIN CpuOf
  PROVE  JobType' /\ OptionsSoFar'
<1> DEFINE t == CpuOf[o.opt]
           q == [job.cpu_quantity EXCEPT ![t] = o.number]
<1>1. job' = [job EXCEPT !.cpu_quantity = q]
  BY Tables DEF Taking, Handled
<1>2. /\ DOMAIN job = Field /\ job.cpu_quantity \in [Cpu -> Nat] /\ o \in Option
      /\ specified' = specified \cup {o.opt}
  BY DEF Taking, JobType
<1>3. \A k \in Taken : argv[k].opt # o.opt
  BY TakingFacts
<1>4. o.number \in Nat
  <2>1. o.number \in Int
    BY <1>2 DEF Option
  <2>2. ~(o.number <= 0)
    BY Tables DEF Taking, HandlerRefuses
  <2> QED
    BY <2>1, <2>2
<1>5. t \in Cpu /\ \A c \in DOMAIN CpuOf : c # o.opt => CpuOf[c] # t /\ CpuOf[c] \in Cpu
  BY Apart
<1>6. q \in [Cpu -> Nat] /\ q[t] = o.number /\ \A u \in Cpu : u # t => q[u] = job.cpu_quantity[u]
  BY <1>2, <1>4, <1>5
<1> HIDE DEF t, q
<1>7. But(job, job', {"cpu_quantity"}) /\ job'.cpu_quantity = q
  BY <1>1, <1>2, Apart, OneField
<1>8. /\ DOMAIN job' = Field /\ (\A u \in Text : job'[u] = job[u]) /\ job'.TCR_id = job.TCR_id
      /\ job'.mode = job.mode /\ job'.encryption = job.encryption /\ job'.timeout = job.timeout
      /\ job'.operation = job.operation
  <2>1. "TCR_id" \in Text /\ {"mode", "encryption", "timeout", "operation"} \subseteq Field \ {"cpu_quantity"}
    BY Naming, Apart
  <2> QED
    BY <1>7, <2>1, Naming, Apart DEF But
<1>9. JobType'
  BY <1>6, <1>7, <1>8 DEF Taking, JobType
<1>10. StillLeft
  BY <1>3, <1>5, <1>6, <1>7, <1>8, Naming DEF Taking, OptionsSoFar, Left, StillLeft
<1>11. Left(o)'
  BY <1>6, <1>7, Apart DEF Left, t
<1>12. /\ "T" \in specified' <=> "T" \in specified
       /\ "e" \in specified' <=> "e" \in specified
       /\ specified' \cap DOMAIN ModeOf = specified \cap DOMAIN ModeOf
       /\ specified' \cap DOMAIN OperationOf = specified \cap DOMAIN OperationOf
  BY <1>2, Apart
<1>13. DOMAIN TextOf \ specified' = DOMAIN TextOf \ specified
  BY <1>2, Apart
<1>14. \A c \in DOMAIN TextOf \ specified' : job'[TextOf[c]] = NULL
  BY <1>8, <1>13, Naming DEF Taking, OptionsSoFar
<1>15. \A c \in DOMAIN CpuOf \ specified' : job'.cpu_quantity[CpuOf[c]] = 0
  BY <1>2, <1>5, <1>6, <1>7 DEF Taking, OptionsSoFar
<1>16. /\ specified' \cap DOMAIN OperationOf = {} => job'.operation = "UNDEFINED" /\ job'.TCR_id = NULL
       /\ job'.mode = {ModeOf[c] : c \in specified' \cap DOMAIN ModeOf}
       /\ job'.encryption = (IF "e" \in specified' THEN "off" ELSE "undefined")
       /\ "T" \notin specified' => job'.timeout = -1
  BY <1>8, <1>12 DEF Taking, OptionsSoFar
<1> QED
  BY <1>9, <1>10, <1>11, <1>14, <1>15, <1>16, Together
\* An option that is neither a text, an operation nor a number of processors.
LEMMA RestTaken ==
  ASSUME NEW o, Taking(o), NEW f \in {"mode", "timeout", "encryption"}, But(job, job', {f}), JobType',
         o.opt \notin DOMAIN OperationOf \cup DOMAIN TextOf \cup DOMAIN CpuOf,
         o.opt = "T" => job'.timeout = o.number,
         o.opt # "T" => job'.timeout = job.timeout,
         job'.mode = job.mode \cup {ModeOf[c] : c \in {o.opt} \cap DOMAIN ModeOf},
         job'.encryption = (IF o.opt = "e" THEN "off" ELSE job.encryption)
  PROVE  OptionsSoFar'
<1>1. specified' = specified \cup {o.opt} /\ DOMAIN job = Field
  BY DEF Taking, JobType
<1>2. \A k \in Taken : argv[k].opt # o.opt
  BY TakingFacts
<1>3. /\ \A u \in Text : job'[u] = job[u]
      /\ job'.TCR_id = job.TCR_id /\ job'.operation = job.operation /\ job'.cpu_quantity = job.cpu_quantity
  <2>1. Text \subseteq Field \ {f} /\ "TCR_id" \in Text /\ {"operation", "cpu_quantity"} \subseteq Field \ {f}
    BY Naming, Apart
  <2> QED
    BY <2>1 DEF But
<1>4. StillLeft
  BY <1>2, <1>3, Naming DEF Taking, OptionsSoFar, Left, StillLeft
<1>5. Left(o)'
  BY DEF Left
<1>6. /\ DOMAIN TextOf \ specified' = DOMAIN TextOf \ specified
      /\ DOMAIN CpuOf \ specified' = DOMAIN CpuOf \ specified
      /\ specified' \cap DOMAIN OperationOf = specified \cap DOMAIN OperationOf
  BY <1>1
<1>7. /\ \A c \in DOMAIN TextOf \ specified' : job'[TextOf[c]] = NULL
      /\ \A c \in DOMAIN CpuOf \ specified' : job'.cpu_quantity[CpuOf[c]] = 0
      /\ specified' \cap DOMAIN OperationOf = {} => job'.operation = "UNDEFINED" /\ job'.TCR_id = NULL
  BY <1>3, <1>6, Naming DEF Taking, OptionsSoFar
<1>8. job'.mode = {ModeOf[c] : c \in specified' \cap DOMAIN ModeOf}
  <2>1. job.mode = {ModeOf[c] : c \in specified \cap DOMAIN ModeOf}
    BY DEF Taking, OptionsSoFar
  <2> QED
    BY <1>1, <2>1
<1>9. /\ job'.encryption = (IF "e" \in specified' THEN "off" ELSE "undefined")
      /\ "T" \notin specified' => job'.timeout = -1
  BY <1>1 DEF Taking, OptionsSoFar
<1> QED
  BY <1>4, <1>5, <1>7, <1>8, <1>9, Together

LEMMA OptionRead ==
  ASSUME JobType, CallType, OptionsSoFar, TakeOption
  PROVE  JobType' /\ OptionsSoFar'
<1>1. PICK o : o = Given
  OBVIOUS
<1>2. /\ next \in 1 .. Len(argv) /\ Len(argv) \in Nat /\ o = argv[next] /\ o \in Option
      /\ argv' = argv /\ next' = next + 1 /\ specified' = specified \cup {o.opt} /\ job' = Handled(job, o)
      /\ Refuses(o) = "OK"
  BY <1>1 DEF TakeOption, Go, Given, CallType
<1>3. o.opt \notin specified /\ HandlerRefuses(o) = "OK"
  BY <1>2 DEF Refuses
<1>4. Taking(o)
  BY <1>2, <1>3 DEF Taking
<1>5. CASE o.opt \in DOMAIN OperationOf
  BY <1>4, <1>5, OperationTaken
<1>6. CASE o.opt \in DOMAIN TextOf
  BY <1>4, <1>6, TextTaken
<1>7. CASE o.opt \in DOMAIN CpuOf
  BY <1>4, <1>7, CpuTaken
<1>8. CASE o.opt \notin DOMAIN OperationOf \cup DOMAIN TextOf \cup DOMAIN CpuOf
  <2>1. DOMAIN job = Field
    BY DEF JobType
  <2>2. CASE o.opt \in DOMAIN ModeOf
    <3>1. PICK v : v = job.mode \cup {ModeOf[o.opt]}
      OBVIOUS
    <3>2. job' = [job EXCEPT !["mode"] = v]
      BY <1>2, <2>2, <3>1, Tables DEF Handled
    <3>3. But(job, job', {"mode"}) /\ job'.mode = v
      BY <2>1, <3>2, Apart, OneField
    <3>4. /\ DOMAIN job' = Field /\ \A u \in Text : job'[u] = job[u]
          /\ job'.operation = job.operation /\ job'.encryption = job.encryption
          /\ job'.timeout = job.timeout /\ job'.cpu_quantity = job.cpu_quantity
      BY <3>3, Naming, Apart DEF But
    <3>5. JobType'
      BY <2>2, <3>1, <3>3, <3>4 DEF JobType
    <3>6. {ModeOf[c] : c \in {o.opt} \cap DOMAIN ModeOf} = {ModeOf[o.opt]}
      BY <2>2
    <3>7. o.opt \notin {"T", "e"}
      BY <2>2, Apart
    <3> QED
      BY <1>4, <1>8, <3>1, <3>3, <3>4, <3>5, <3>6, <3>7, RestTaken
  <2>3. CASE o.opt = "T"
    <3>1. job' = [job EXCEPT !["timeout"] = o.number]
      BY <1>2, <2>3, Tables DEF Handled
    <3>2. But(job, job', {"timeout"}) /\ job'.timeout = o.number /\ o.number \in Int
      BY <1>2, <2>1, <3>1, Apart, OneField DEF Option
    <3>3. /\ DOMAIN job' = Field /\ \A u \in Text : job'[u] = job[u]
          /\ job'.operation = job.operation /\ job'.encryption = job.encryption
          /\ job'.mode = job.mode /\ job'.cpu_quantity = job.cpu_quantity
      BY <3>2, Naming, Apart DEF But
    <3>4. JobType'
      BY <3>2, <3>3 DEF JobType
    <3>5. {ModeOf[c] : c \in {o.opt} \cap DOMAIN ModeOf} = {}
      BY <2>3, Apart
    <3> QED
      BY <1>4, <1>8, <2>3, <3>2, <3>3, <3>4, <3>5, RestTaken
  <2>4. CASE o.opt = "e"
    <3>1. job' = [job EXCEPT !["encryption"] = "off"]
      BY <1>2, <2>4, Tables DEF Handled
    <3>2. But(job, job', {"encryption"}) /\ job'.encryption = "off"
      BY <2>1, <3>1, Apart, OneField
    <3>3. /\ DOMAIN job' = Field /\ \A u \in Text : job'[u] = job[u]
          /\ job'.operation = job.operation /\ job'.timeout = job.timeout
          /\ job'.mode = job.mode /\ job'.cpu_quantity = job.cpu_quantity
      BY <3>2, Naming, Apart DEF But
    <3>4. JobType'
      BY <3>2, <3>3 DEF JobType
    <3>5. {ModeOf[c] : c \in {o.opt} \cap DOMAIN ModeOf} = {}
      BY <2>4, Apart
    <3> QED
      BY <1>4, <1>8, <2>4, <3>2, <3>3, <3>4, <3>5, RestTaken
  <2>5. CASE o.opt \notin DOMAIN ModeOf \cup {"T", "e"}
    <3>1. job' = job
      BY <1>2, <1>8, <2>5 DEF Handled
    <3>2. But(job, job', {"mode"}) /\ JobType'
      BY <2>1, <3>1 DEF But, JobType
    <3>3. {ModeOf[c] : c \in {o.opt} \cap DOMAIN ModeOf} = {}
      BY <2>5
    <3> QED
      BY <1>4, <1>8, <2>5, <3>1, <3>2, <3>3, RestTaken
  <2> QED
    BY <2>2, <2>3, <2>4, <2>5
<1> QED
  BY <1>5, <1>6, <1>7, <1>8

(***************************************************************************)
(* The options as a set.                                                   *)
(***************************************************************************)
LEMMA TheOne ==
  ASSUME NEW k \in DOMAIN argv, \A n \in DOMAIN argv : argv[n].opt = argv[k].opt => n = k
  PROVE  Tells(argv[k].opt) /\ The(argv[k].opt) = argv[k] /\ Argument(argv[k].opt) = argv[k].arg
<1>1. (CHOOSE n \in DOMAIN argv : argv[n].opt = argv[k].opt) = k
  OBVIOUS
<1>2. Tells(argv[k].opt)
  BY DEF Tells
<1>3. The(argv[k].opt) = argv[k]
  BY <1>1 DEF The
<1> QED
  BY <1>2, <1>3 DEF Argument

\* The command line and the job when all options were read.
LEMMA AllRead ==
  ASSUME JobType, CallType, OptionsSoFar, next > Len(argv)
  PROVE  /\ \A k, n \in DOMAIN argv : argv[k].opt = argv[n].opt => k = n
         /\ \A k, n \in Operations : k = n
         /\ \A c : Tells(c) <=> c \in specified
         /\ \A c \in DOMAIN TextOf : job[TextOf[c]] = Argument(c)
         /\ \A c \in DOMAIN OperationOf : Tells(c) <=> job.operation = OperationOf[c]
         /\ job.TCR_id = IF \E c \in {"a", "d", "q"} : Tells(c)
                          THEN Argument(CHOOSE c \in {"a", "d", "q"} : Tells(c)) ELSE NULL
         /\ job.mode = {ModeOf[c] : c \in {d \in DOMAIN ModeOf : Tells(d)}}
         /\ \A c \in DOMAIN CpuOf : job.cpu_quantity[CpuOf[c]] = IF Tells(c) THEN The(c).number ELSE 0
         /\ job.encryption = (IF Tells("e") THEN "off" ELSE "undefined")
         /\ job.timeout = IF Tells("T") THEN The("T").number ELSE -1
<1>1. Taken = DOMAIN argv
  BY DEF CallType, Taken
<1>2. /\ specified = {argv[k].opt : k \in DOMAIN argv}
      /\ \A k, n \in DOMAIN argv : argv[k].opt = argv[n].opt => k = n
      /\ \A k, n \in DOMAIN argv : argv[k].opt \in DOMAIN OperationOf /\ argv[n].opt \in DOMAIN OperationOf => k = n
      /\ \A k \in DOMAIN argv : Left(argv[k])
  BY <1>1 DEF OptionsSoFar
<1>3. \A c : Tells(c) <=> c \in specified
  BY <1>2 DEF Tells
<1>4. ASSUME NEW c, Tells(c)
      PROVE  \E k \in DOMAIN argv : c = argv[k].opt /\ The(c) = argv[k] /\ Argument(c) = argv[k].arg
  <2>1. PICK k \in DOMAIN argv : argv[k].opt = c
    BY <1>4 DEF Tells
  <2>2. The(argv[k].opt) = argv[k] /\ Argument(argv[k].opt) = argv[k].arg
    BY <1>2, TheOne
  <2> QED
    BY <2>1, <2>2
<1>5. \A c : ~Tells(c) => Argument(c) = NULL
  BY DEF Argument
<1>6. \A c \in DOMAIN TextOf : job[TextOf[c]] = Argument(c)
  <2> SUFFICES ASSUME NEW c \in DOMAIN TextOf
               PROVE  job[TextOf[c]] = Argument(c)
    OBVIOUS
  <2>1. CASE Tells(c)
    BY <1>2, <1>4, <2>1 DEF Left
  <2>2. CASE ~Tells(c)
    BY <1>3, <1>5, <2>2 DEF OptionsSoFar
  <2> QED
    BY <2>1, <2>2
<1>7. \A c \in DOMAIN CpuOf : job.cpu_quantity[CpuOf[c]] = IF Tells(c) THEN The(c).number ELSE 0
  <2> SUFFICES ASSUME NEW c \in DOMAIN CpuOf
               PROVE  job.cpu_quantity[CpuOf[c]] = IF Tells(c) THEN The(c).number ELSE 0
    OBVIOUS
  <2>1. CASE Tells(c)
    BY <1>2, <1>4, <2>1 DEF Left
  <2>2. CASE ~Tells(c)
    BY <1>3, <2>2 DEF OptionsSoFar
  <2> QED
    BY <2>1, <2>2
<1>8. job.timeout = IF Tells("T") THEN The("T").number ELSE -1
  <2>1. CASE Tells("T")
    BY <1>2, <1>4, <2>1 DEF Left
  <2>2. CASE ~Tells("T")
    BY <1>3, <2>2 DEF OptionsSoFar
  <2> QED
    BY <2>1, <2>2
<1>9. \A k, n \in Operations : k = n
  BY <1>2 DEF Operations
<1>10. \A c \in DOMAIN OperationOf : Tells(c) <=> job.operation = OperationOf[c]
  <2>1. \A c \in DOMAIN OperationOf : Tells(c) => job.operation = OperationOf[c]
    BY <1>2, <1>4 DEF Left
  <2>2. ASSUME NEW c \in DOMAIN OperationOf, job.operation = OperationOf[c]
        PROVE  Tells(c)
    <3>1. job.operation # "UNDEFINED"
      BY <2>2, Naming
    <3>2. PICK d \in DOMAIN OperationOf : d \in specified
      BY <3>1 DEF OptionsSoFar
    <3>3. Tells(d) /\ OperationOf[d] = OperationOf[c]
      BY <1>3, <2>1, <2>2, <3>2
    <3> QED
      BY <3>2, <3>3, Apart
  <2> QED
    BY <2>1, <2>2
<1>11. job.TCR_id = IF \E c \in {"a", "d", "q"} : Tells(c) THEN Argument(CHOOSE c \in {"a", "d", "q"} : Tells(c)) ELSE NULL
  <2>1. CASE \E c \in {"a", "d", "q"} : Tells(c)
    <3>1. PICK c : c = CHOOSE d \in {"a", "d", "q"} : Tells(d)
      OBVIOUS
    <3>2. c \in {"a", "d", "q"} /\ Tells(c)
      BY <2>1, <3>1
    <3>3. c \in DOMAIN OperationOf
      BY <3>2, Tables
    <3>4. job.TCR_id = Argument(c)
      BY <1>2, <1>4, <3>2, <3>3 DEF Left
    <3> QED
      BY <2>1, <3>1, <3>4
  <2>2. CASE ~\E c \in {"a", "d", "q"} : Tells(c)
    <3>1. CASE specified \cap DOMAIN OperationOf = {}
      BY <2>2, <3>1 DEF OptionsSoFar
    <3>2. CASE specified \cap DOMAIN OperationOf # {}
      <4>1. PICK c \in DOMAIN OperationOf : Tells(c)
        BY <1>3, <3>2
      <4> QED
        BY <1>2, <1>4, <2>2, <4>1 DEF Left
    <3> QED
      BY <3>1, <3>2
  <2> QED
    BY <2>1, <2>2
<1>12. job.mode = {ModeOf[c] : c \in {d \in DOMAIN ModeOf : Tells(d)}}
  <2>1. specified \cap DOMAIN ModeOf = {d \in DOMAIN ModeOf : Tells(d)}
    BY <1>3
  <2> QED
    BY <2>1 DEF OptionsSoFar
<1>13. job.encryption = (IF Tells("e") THEN "off" ELSE "undefined")
  BY <1>3 DEF OptionsSoFar
<1> QED
  BY <1>2, <1>3, <1>6, <1>7, <1>8, <1>9, <1>10, <1>11, <1>12, <1>13
(***************************************************************************)
(* What a step leaves as it was.                                           *)
(***************************************************************************)
LEMMA SayingStays ==
  ASSUME argv' = argv
  PROVE  /\ \A c : Tells(c)' = Tells(c) /\ The(c)' = The(c) /\ Argument(c)' = Argument(c)
         /\ Operations' = Operations /\ Id' = Id
<1>1. \A c : Tells(c)' = Tells(c) /\ The(c)' = The(c)
  BY DEF Tells, The
<1>2. \A c : Argument(c)' = Argument(c)
  BY <1>1, Zenon DEF Argument
<1>3. Operations' = Operations
  BY DEF Operations
<1>4. Id' = Id
  BY <1>1, Zenon DEF Id, Argument, Tells, The
<1> QED
  BY <1>1, <1>2, <1>3, <1>4

LEMMA UsedStays ==
  ASSUME UNCHANGED <<argv, sections>>
  PROVE  /\ Used' = Used /\ \A key : UsedValue(key)' = UsedValue(key)
         /\ Listed' = Listed /\ Shadowed' = Shadowed
<1>1. Used' = Used
  BY Zenon DEF Used, Tells, The, Argument
<1>2. \A key : UsedValue(key)' = UsedValue(key)
  BY <1>1, Zenon DEF UsedValue
<1>3. Id' = Id
  BY SayingStays
<1>4. Listed' = Listed
  BY <1>3, Zenon DEF Listed
<1>5. Shadowed' = Shadowed
  BY <1>3, Zenon DEF Shadowed
<1> QED
  BY <1>1, <1>2, <1>4, <1>5

LEMMA TextGiven ==
  ASSUME CallType, NEW c \in WithText
  PROVE  Tells(c) <=> Argument(c) # NULL
<1>1. CASE Tells(c)
  <2>1. \E k \in DOMAIN argv : argv[k].opt = c
    BY <1>1 DEF Tells
  <2>2. PICK k : k = CHOOSE n \in DOMAIN argv : argv[n].opt = c
    OBVIOUS
  <2>3. k \in DOMAIN argv /\ argv[k].opt = c
    BY <2>1, <2>2
  <2>4. Argument(c) = argv[k].arg
    BY <1>1, <2>2 DEF Argument, The
  <2> QED
    BY <1>1, <2>3, <2>4 DEF CallType
<1>2. CASE ~Tells(c)
  BY <1>2 DEF Argument
<1> QED
  BY <1>1, <1>2

\* A step that ends the call.
LEMMA Ended ==
  ASSUME MadeInv, pc' \in {"ended", "crashed"}, pc' = "crashed" => rc' = rc /\ pc # "ended",
         UNCHANGED <<argv, files, next, sections>>,
         JobType', server' \in 0 .. Len(sections), DefinedIsFound'
  PROVE  MadeInv'
<1>1. CallType'
  BY DEF MadeInv, CallType
<1>2. VerifyConfig(sections)'
  BY Zenon DEF MadeInv, Looked, VerifyConfig
<1>3. Looked'
  BY <1>2 DEF MadeInv, Looked, Working
<1>4. Sought' /\ Named' /\ ReadyIsComplete' /\ OptionsAsASet'
  BY DEF Sought, Working, Named, ReadyIsComplete, OptionsAsASet
<1> QED
  BY <1>1, <1>3, <1>4 DEF MadeInv

\* An end without a word about the server.
LEMMA OtherEnd ==
  ASSUME MadeInv, pc' = "ended", rc' \notin {"NO_SERVER", "PROGRAM_ERROR"} \/ sections = <<>>,
         UNCHANGED <<argv, files, next, sections>>, JobType', server' \in 0 .. Len(sections)
  PROVE  MadeInv'
<1>1. DefinedIsFound'
  BY DEF DefinedIsFound
<1> QED
  BY <1>1, Ended

LEMMA Crashed ==
  ASSUME MadeInv, pc' = "crashed", pc # "ended", UNCHANGED <<argv, files, next, sections, job, server, rc>>
  PROVE  MadeInv'
<1>1. JobType' /\ server' \in 0 .. Len(sections)
  BY DEF MadeInv, JobType, Looked
<1>2. rc' = "OK"
  BY DEF MadeInv, CallType
<1>3. DefinedIsFound'
  BY <1>2 DEF DefinedIsFound
<1> QED
  BY <1>1, <1>3, Ended

\* A step on the way to the verdict.
LEMMA Onward ==
  ASSUME MadeInv, pc \notin {"connect", "ended", "crashed"},
         pc' \in {"load", "server", "password", "encryption", "user", "verify"},
         UNCHANGED <<argv, next, rc>>,
         files' = files \/ (DOMAIN files' \subseteq DOMAIN files /\ \A f \in DOMAIN files' : files'[f] = files[f]),
         JobType', Sought', Looked', Named'
  PROVE  MadeInv'
<1>1. CallType' /\ rc' = "OK"
  BY DEF MadeInv, CallType
<1>2. ReadyIsComplete' /\ OptionsAsASet' /\ DefinedIsFound'
  BY <1>1 DEF ReadyIsComplete, OptionsAsASet, DefinedIsFound
<1> QED
  BY <1>1, <1>2 DEF MadeInv

(***************************************************************************)
(* From the options to the file.                                           *)
(***************************************************************************)
LEMMA OptionsStep ==
  ASSUME MadeInv, TakeOption \/ RefuseOption \/ NoOptions
  PROVE  MadeInv'
<1>1. CASE TakeOption
  <2>1. /\ pc = "options" /\ pc' = "options" /\ next' = next + 1 /\ next <= Len(argv)
        /\ UNCHANGED <<argv, files, sections, server, rc>>
    BY <1>1 DEF TakeOption, Go
  <2>2. JobType' /\ OptionsSoFar'
    BY <1>1, <2>1, OptionRead DEF MadeInv
  <2>3. CallType'
    BY <2>1 DEF MadeInv, CallType
  <2>4. VerifyConfig(sections)'
    BY <2>1, Zenon DEF MadeInv, Looked, VerifyConfig
  <2>5. Looked' /\ sections' = <<>>
    BY <2>1, <2>4 DEF MadeInv, Looked, Working
  <2>6. Sought' /\ Named' /\ ReadyIsComplete' /\ OptionsAsASet' /\ DefinedIsFound'
    BY <2>1, <2>5 DEF Sought, Working, Named, ReadyIsComplete, OptionsAsASet, DefinedIsFound
  <2> QED
    BY <2>2, <2>3, <2>5, <2>6 DEF MadeInv
<1>2. CASE RefuseOption \/ NoOptions
  <2>1. /\ pc = "options" /\ pc' = "ended" /\ UNCHANGED <<argv, files, next, sections, job, server>>
    BY <1>2 DEF RefuseOption, NoOptions, Ends, Go, Keep
  <2>2. sections = <<>> /\ JobType' /\ server' \in 0 .. Len(sections)
    BY <2>1 DEF MadeInv, Looked, JobType
  <2> QED
    BY <2>1, <2>2, OtherEnd
<1> QED
  BY <1>1, <1>2

LEMMA OptionsReadStep ==
  ASSUME MadeInv, OptionsRead
  PROVE  MadeInv'
<1>1. /\ pc = "options" /\ pc' \in {"prompt", "look"} /\ UNCHANGED <<argv, files, next, specified, sections, job, server, rc>>
      /\ pc' = "prompt" => "promptpw" \in job.mode
      /\ next > Len(argv)
  BY DEF OptionsRead, Go, Keep
<1>2. /\ JobType /\ CallType /\ OptionsSoFar /\ Looked
      /\ sections = <<>> /\ server = 0
  BY <1>1 DEF MadeInv, Looked
<1>3. /\ \A k, n \in DOMAIN argv : argv[k].opt = argv[n].opt => k = n
      /\ \A k, n \in Operations : k = n
      /\ \A c : Tells(c) <=> c \in specified
      /\ \A c \in DOMAIN TextOf : job[TextOf[c]] = Argument(c)
      /\ \A c \in DOMAIN OperationOf : Tells(c) <=> job.operation = OperationOf[c]
      /\ job.TCR_id = IF \E c \in {"a", "d", "q"} : Tells(c) THEN Argument(CHOOSE c \in {"a", "d", "q"} : Tells(c)) ELSE NULL
      /\ job.mode = {ModeOf[c] : c \in {d \in DOMAIN ModeOf : Tells(d)}}
      /\ \A c \in DOMAIN CpuOf : job.cpu_quantity[CpuOf[c]] = IF Tells(c) THEN The(c).number ELSE 0
      /\ job.encryption = (IF Tells("e") THEN "off" ELSE "undefined")
      /\ job.timeout = IF Tells("T") THEN The("T").number ELSE -1
  BY <1>1, <1>2, AllRead
<1>4. TextOf["p"] = "password" /\ TextOf["CPC"] = "CPC_id" /\ TextOf["S"] = "address" /\ TextOf["u"] = "username"
  BY DEF TextOf
<1>5. /\ job.password = Argument("p") /\ job.CPC_id = Argument("CPC")
      /\ job.address = Argument("S") /\ job.username = Argument("u")
  BY <1>3, <1>4, Tables
<1>6. OptionsAsASet'
  <2>1. /\ \A c : Tells(c)' = Tells(c) /\ The(c)' = The(c) /\ Argument(c)' = Argument(c)
        /\ Operations' = Operations
    BY <1>1, SayingStays
  <2>2. \A c \in DOMAIN TextOf \ {"p"} : job'[TextOf[c]] = Argument(c)'
    BY <1>1, <1>3, <2>1
  <2>3. (CHOOSE c \in {"a", "d", "q"} : Tells(c)') = CHOOSE c \in {"a", "d", "q"} : Tells(c)
    BY <2>1
  <2>4. {d \in DOMAIN ModeOf : Tells(d)'} = {d \in DOMAIN ModeOf : Tells(d)}
    BY <2>1
  <2> QED
    BY <1>1, <1>3, <1>5, <2>1, <2>2, <2>3, <2>4 DEF OptionsAsASet
<1>7. RecordNamed
  <2>1. /\ OperationOf["a"] = "ACTIVATE" /\ OperationOf["d"] = "DEACTIVATE" /\ OperationOf["q"] = "QUERY_RECORD"
        /\ {"a", "d", "q"} \subseteq DOMAIN OperationOf
    BY Tables DEF OperationOf
  <2>2. \A c \in {"a", "d", "q"} : Tells(c) => job.operation \in {"ACTIVATE", "DEACTIVATE", "QUERY_RECORD"}
    BY <1>3, <2>1
  <2> QED
    BY <1>3, <2>2 DEF RecordNamed
<1>8. pc' = "prompt" => Tells("P")
  <2>1. \A c \in DOMAIN ModeOf : ModeOf[c] = "promptpw" => c = "P"
    BY Tables DEF ModeOf
  <2> QED
    BY <1>1, <1>3, <2>1
<1>9. specified = {argv[k].opt : k \in DOMAIN argv}
  BY <1>1, <1>2 DEF OptionsSoFar, CallType, Taken
<1>10. ~Tells("p") => Argument("p") = NULL
  BY DEF Argument
<1>11. RecordNamed'
  BY <1>1, <1>7 DEF RecordNamed
<1>12. Sought'
  <2>1. \A c : Tells(c)' = Tells(c) /\ Argument(c)' = Argument(c)
    BY <1>1, SayingStays
  <2> QED
    BY <1>1, <1>3, <1>5, <1>8, <1>9, <1>10, <1>11, <2>1 DEF Sought, Working
<1>13. Looked' /\ Named'
  <2>1. VerifyConfig(sections)'
    BY <1>1, <1>2, Zenon DEF Looked, VerifyConfig
  <2> QED
    BY <1>1, <1>2, <2>1 DEF Looked, Named
<1>14. JobType' /\ CallType' /\ rc' = "OK"
  BY <1>1, <1>2 DEF JobType, CallType
<1>15. ReadyIsComplete' /\ DefinedIsFound'
  BY <1>1, <1>14 DEF ReadyIsComplete, DefinedIsFound
<1> QED
  BY <1>1, <1>6, <1>12, <1>13, <1>14, <1>15 DEF MadeInv
LEMMA PromptStep ==
  ASSUME MadeInv, PromptPassword \/ PromptFails
  PROVE  MadeInv'
<1>1. CASE PromptFails
  <2>1. /\ pc = "prompt" /\ pc' = "ended" /\ UNCHANGED <<argv, files, next, sections, job, server>>
    BY <1>1 DEF PromptFails, Ends, Go, Keep
  <2>2. sections = <<>> /\ JobType' /\ server' \in 0 .. Len(sections)
    BY <2>1 DEF MadeInv, Looked, JobType
  <2> QED
    BY <2>1, <2>2, OtherEnd
<1>2. CASE PromptPassword
  <2>1. PICK w \in Prompted : job' = [job EXCEPT !["password"] = w]
    BY <1>2 DEF PromptPassword
  <2>2. /\ pc = "prompt" /\ pc' = "look" /\ UNCHANGED <<argv, files, next, specified, sections, server, rc>>
        /\ job.password = NULL
    BY <1>2 DEF PromptPassword, Go, Keep
  <2>3. JobType /\ CallType /\ Sought /\ Looked /\ OptionsAsASet /\ sections = <<>> /\ server = 0
    BY <2>2 DEF MadeInv, Looked
  <2>4. But(job, job', {"password"}) /\ job'.password = w
    BY <2>1, <2>3, Naming, OneField DEF JobType
  <2>5. /\ DOMAIN job' = Field /\ \A t \in Text \ {"password"} : job'[t] = job[t]
        /\ job'.operation = job.operation /\ job'.encryption = job.encryption /\ job'.mode = job.mode
        /\ job'.timeout = job.timeout /\ job'.cpu_quantity = job.cpu_quantity
    BY <2>4, Naming, Apart DEF But
  <2>6. JobType'
    BY <2>3, <2>4, <2>5 DEF JobType, Entry
  <2>7. /\ job'.TCR_id = job.TCR_id /\ job'.CPC_id = job.CPC_id /\ job'.address = job.address
        /\ job'.username = job.username
    BY <2>5, Naming
  <2>8. \A c : Tells(c)' = Tells(c) /\ The(c)' = The(c) /\ Argument(c)' = Argument(c)
    BY <2>2, SayingStays
  <2>9. Tells("P") /\ specified = {argv[k].opt : k \in DOMAIN argv}
    BY <2>2, <2>3 DEF Sought
  <2>10. "P" \in specified /\ "p" \notin specified
    <3>1. "P" \in specified
      BY <2>9 DEF Tells
    <3>2. "p" \in specified => Tells("p") /\ job.password = Argument("p")
      BY <2>2, <2>3, <2>9 DEF Tells, OptionsAsASet
    <3>3. Tells("p") => Argument("p") # NULL
      BY <2>3, TextGiven DEF WithText
    <3> QED
      BY <2>2, <3>1, <3>2, <3>3
  <2>11. OptionsAsASet'
    <3>1. \A c \in DOMAIN TextOf \ {"p"} : TextOf[c] \in Text \ {"password"}
      BY Naming, Tables DEF TextOf
    <3>2. \A c \in DOMAIN TextOf \ {"p"} : job'[TextOf[c]] = Argument(c)'
      BY <2>2, <2>3, <2>5, <2>8, <3>1 DEF OptionsAsASet
    <3>3. (CHOOSE c \in {"a", "d", "q"} : Tells(c)') = CHOOSE c \in {"a", "d", "q"} : Tells(c)
      BY <2>8
    <3>4. {d \in DOMAIN ModeOf : Tells(d)'} = {d \in DOMAIN ModeOf : Tells(d)}
      BY <2>8
    <3>5. Operations' = Operations
      BY <2>2, SayingStays
    <3> QED
      BY <2>2, <2>3, <2>5, <2>7, <2>8, <2>10, <3>2, <3>3, <3>4, <3>5 DEF OptionsAsASet
  <2>12. RecordNamed'
    BY <2>2, <2>3, <2>5, <2>7 DEF Sought, Working, RecordNamed
  <2>13. Sought'
    BY <2>2, <2>3, <2>5, <2>7, <2>8, <2>9, <2>12 DEF Sought, Working
  <2>14. Looked' /\ Named'
    <3>1. VerifyConfig(sections)'
      BY <2>2, <2>3, Zenon DEF Looked, VerifyConfig
    <3> QED
      BY <2>2, <2>3, <3>1 DEF Looked, Named
  <2>15. CallType' /\ rc' = "OK"
    BY <2>2, <2>3 DEF CallType
  <2>16. ReadyIsComplete' /\ DefinedIsFound'
    BY <2>2, <2>15 DEF ReadyIsComplete, DefinedIsFound
  <2> QED
    BY <2>2, <2>6, <2>11, <2>13, <2>14, <2>15, <2>16 DEF MadeInv
<1> QED
  BY <1>1, <1>2

\* Nothing but pc and the section changes.
LEMMA SameJob ==
  ASSUME MadeInv, UNCHANGED <<argv, job>>
  PROVE  /\ JobType' /\ (RecordNamed' <=> RecordNamed)
         /\ \A c : Tells(c)' = Tells(c) /\ Argument(c)' = Argument(c)
         /\ UNCHANGED sections => VerifyConfig(sections)'
<1>1. JobType' /\ (RecordNamed' <=> RecordNamed)
  BY DEF MadeInv, JobType, RecordNamed
<1>2. \A c : Tells(c)' = Tells(c) /\ Argument(c)' = Argument(c)
  BY SayingStays
<1>3. UNCHANGED sections => VerifyConfig(sections)'
  BY Zenon DEF MadeInv, Looked, VerifyConfig
<1> QED
  BY <1>1, <1>2, <1>3

\* Without a file, what is decided is what the command line says.
LEMMA NothingUsed ==
  ASSUME sections = <<>>
  PROVE  Used = 0 /\ \A key : UsedValue(key) = NULL
  BY NothingInNothing DEF Used, UsedValue

LEMMA LookStep ==
  ASSUME MadeInv, LookFails \/ NoFileNeeded \/ FileExists
  PROVE  MadeInv'
<1>1. /\ pc = "look" /\ UNCHANGED <<argv, files, next, specified, sections, job, server>>
      /\ rc = "OK" /\ sections = <<>> /\ server = 0
  BY DEF LookFails, NoFileNeeded, FileExists, Ends, Go, Keep, MadeInv, CallType, Looked
<1>2. /\ JobType' /\ (RecordNamed' <=> RecordNamed)
      /\ \A c : Tells(c)' = Tells(c) /\ Argument(c)' = Argument(c)
      /\ VerifyConfig(sections)' /\ server' \in 0 .. Len(sections)
  BY <1>1, SameJob DEF MadeInv, Looked
<1>3. CASE pc' \in {"ended", "crashed"}
  BY <1>1, <1>2, <1>3, OtherEnd, Crashed DEF LookFails, NoFileNeeded, FileExists, Ends, Go
<1>4. CASE pc' = "load"
  <2>1. UNCHANGED rc
    BY <1>4 DEF LookFails, NoFileNeeded, FileExists, Ends, Go
  <2>2. Sought'
    BY <1>1, <1>2, <1>4 DEF MadeInv, Sought, Working
  <2>3. Looked' /\ Named'
    BY <1>1, <1>2, <1>4 DEF MadeInv, Looked, Named
  <2> QED
    BY <1>1, <1>2, <1>4, <2>1, <2>2, <2>3, Onward
<1>5. CASE pc' = "verify"
  <2>1. UNCHANGED rc /\ ~NeedsFile
    BY <1>5 DEF LookFails, NoFileNeeded, FileExists, Ends, Go
  <2>2. Sought'
    BY <1>1, <1>2, <1>5 DEF MadeInv, Sought, Working
  <2>3. /\ job.address = Argument("S") /\ (~Tells("p") /\ ~Tells("P") => job.password = NULL)
        /\ job.encryption = (IF Tells("e") THEN "off" ELSE "undefined") /\ job.username = Argument("u")
    BY <1>1 DEF MadeInv, Sought, Working
  <2>4. job.operation \notin {"HELP", "VERSION"} => Tells("S") /\ (Tells("p") \/ Tells("P")) /\ Tells("e")
    BY <2>1, <2>3 DEF NeedsFile, Argument
  <2>5. \A key : UsedValue(key)' = NULL
    BY <1>1, NothingUsed, UsedStays
  <2>6. ~Tells("u") => job.username = NULL
    BY <2>3 DEF Argument
  <2>7. job'.operation \notin {"HELP", "VERSION"} => Decided' /\ job'.encryption # "undefined"
    BY <1>1, <1>2, <2>3, <2>4, <2>5, <2>6 DEF Decided, AddressFound, PasswordFound, EncryptionFound, UserFound
  <2>8. Looked' /\ Named'
    BY <1>1, <1>2, <1>5, <2>7 DEF MadeInv, Looked, Named
  <2> QED
    BY <1>1, <1>2, <1>5, <2>1, <2>2, <2>8, Onward
<1> QED
  BY <1>3, <1>4, <1>5 DEF LookFails, NoFileNeeded, FileExists, Ends, Go

LEMMA NoFileStep ==
  ASSUME MadeInv, NoFile
  PROVE  MadeInv'
<1>1. /\ pc = "look" /\ UNCHANGED <<argv, files, next, specified, sections, server>> /\ NeedsFile
      /\ job' = [job EXCEPT !["encryption"] = "on"]
      /\ rc = "OK" /\ sections = <<>> /\ server = 0
      /\ \/ pc' = "ended"
         \/ pc' = "verify" /\ UNCHANGED rc /\ job.address # NULL /\ job.password # NULL
  BY DEF NoFile, Ends, Go, Keep, MadeInv, CallType, Looked
<1>2. But(job, job', {"encryption"}) /\ job'.encryption = "on"
  BY <1>1, Apart, OneField DEF MadeInv, JobType
<1>3. /\ DOMAIN job' = Field /\ \A t \in Text : job'[t] = job[t]
      /\ job'.operation = job.operation /\ job'.mode = job.mode
      /\ job'.timeout = job.timeout /\ job'.cpu_quantity = job.cpu_quantity
  BY <1>2, Naming, Apart DEF But
<1>4. JobType'
  BY <1>2, <1>3 DEF MadeInv, JobType
<1>5. server' \in 0 .. Len(sections) /\ VerifyConfig(sections)'
  <2>1. VerifyConfig(sections)'
    BY <1>1, Zenon DEF MadeInv, Looked, VerifyConfig
  <2> QED
    BY <1>1, <2>1 DEF MadeInv, Looked
<1>6. CASE pc' = "ended"
  BY <1>1, <1>4, <1>5, <1>6, OtherEnd
<1>7. CASE pc' = "verify"
  <2>1. job.address # NULL /\ job.password # NULL /\ UNCHANGED rc /\ job.encryption = "undefined"
    BY <1>1, <1>7 DEF NeedsFile
  <2>2. /\ job.address = Argument("S") /\ (~Tells("p") /\ ~Tells("P") => job.password = NULL)
        /\ job.encryption = (IF Tells("e") THEN "off" ELSE "undefined") /\ job.username = Argument("u")
        /\ RecordNamed
    BY <1>1 DEF MadeInv, Sought, Working
  <2>3. Tells("S") /\ (Tells("p") \/ Tells("P")) /\ (~Tells("u") => job.username = NULL)
    BY <2>1, <2>2 DEF Argument
  <2>4. \A c : Tells(c)' = Tells(c)
    BY <1>1, SayingStays
  <2>5. \A key : UsedValue(key)' = NULL
    BY <1>1, NothingUsed, UsedStays
  <2>6. job'.username = job.username /\ job'.TCR_id = job.TCR_id
    BY <1>3, Naming
  <2>7. Decided'
    <3>1. AddressFound'
      BY <2>3, <2>4 DEF AddressFound
    <3>2. PasswordFound'
      BY <2>3, <2>4 DEF PasswordFound
    <3>3. EncryptionFound'
      <4>1. UsedValue("encryption")' # "no"
        BY <2>5 DEF NULL
      <4> QED
        BY <1>2, <4>1 DEF EncryptionFound
    <3>4. UserFound'
      BY <2>3, <2>4, <2>5, <2>6 DEF UserFound
    <3> QED
      BY <3>1, <3>2, <3>3, <3>4 DEF Decided
  <2>8. Looked' /\ Named'
    BY <1>1, <1>2, <1>5, <1>7, <2>7 DEF MadeInv, Looked, Named
  <2>9. Sought'
    BY <1>3, <1>7, <2>2, <2>6 DEF Sought, Working, RecordNamed
  <2> QED
    BY <1>1, <1>4, <1>7, <2>1, <2>8, <2>9, Onward
<1> QED
  BY <1>1, <1>6, <1>7

LEMMA FileHereFacts ==
  ASSUME CallType, FileHere \notin {"crash", "nowhere"}
  PROVE  FileHere \in DOMAIN files /\ files[FileHere] \in Seq(Line)
<1>1. FileHere \in DOMAIN files
  BY DEF FileHere, FileFound
<1> QED
  BY <1>1 DEF CallType

LEMMA LoadStep ==
  ASSUME MadeInv, FileVanishes \/ ReadFails \/ LoadCrashes \/ Load
  PROVE  MadeInv'
<1>1. /\ pc = "load" /\ UNCHANGED <<argv, next, specified, job, server>>
      /\ rc = "OK" /\ sections = <<>> /\ server = 0
  BY DEF FileVanishes, ReadFails, LoadCrashes, Load, Ends, Go, Keep, MadeInv, CallType, Looked
<1>2. /\ JobType' /\ (RecordNamed' <=> RecordNamed)
      /\ \A c : Tells(c)' = Tells(c) /\ Argument(c)' = Argument(c)
      /\ UNCHANGED sections => VerifyConfig(sections)'
      /\ server' \in 0 .. Len(sections)
  BY <1>1, SameJob DEF MadeInv, Looked
<1>3. CASE FileVanishes
  <2>1. UNCHANGED <<pc, sections, rc>> /\ \E f : files' = [g \in DOMAIN files \ {f} |-> files[g]]
    BY <1>3 DEF FileVanishes
  <2>2. DOMAIN files' \subseteq DOMAIN files /\ \A f \in DOMAIN files' : files'[f] = files[f]
    BY <2>1
  <2>3. Sought' /\ Looked' /\ Named'
    BY <1>1, <1>2, <2>1 DEF MadeInv, Sought, Looked, Named, Working
  <2> QED
    BY <1>1, <1>2, <2>1, <2>2, <2>3, Onward
<1>4. CASE ReadFails
  BY <1>1, <1>2, <1>4, OtherEnd DEF ReadFails, Ends, Go, Keep
<1>5. CASE LoadCrashes
  BY <1>1, <1>2, <1>5, Crashed DEF LoadCrashes, Go, Keep
<1>6. CASE Load /\ pc' = "ended"
  <2>1. UNCHANGED <<files, sections>>
    BY <1>6 DEF Load, Go
  <2> QED
    BY <1>1, <1>2, <1>6, <2>1, OtherEnd
<1>7. CASE Load /\ pc' # "ended"
  <2>1. PICK config : config = IF FileHere = "nowhere" THEN [NoConfig EXCEPT !.ok = FALSE] ELSE Parsed(files[FileHere])
    OBVIOUS
  <2>2. /\ config.ok /\ VerifyConfig(config.sections) /\ pc' = "server"
        /\ sections' = config.sections /\ UNCHANGED <<files, rc>> /\ FileHere # "crash"
    BY <1>7, <2>1 DEF Load, Ends, Go
  <2>3. FileHere # "nowhere"
    BY <2>1, <2>2 DEF NoConfig
  <2>4. config.sections \in Seq(SectionType)
    <3>1. files[FileHere] \in Seq(Line)
      BY <2>2, <2>3, FileHereFacts DEF MadeInv
    <3> QED
      BY <2>1, <2>3, <3>1, ParsedType DEF ConfigType
  <2>5. VerifyConfig(sections') /\ Len(sections') \in Nat
    BY <2>2, <2>4
  <2>6. VerifyConfig(sections)'
    BY <2>5, Zenon DEF VerifyConfig
  <2>7. Looked' /\ Named'
    BY <1>1, <2>2, <2>4, <2>5, <2>6 DEF Looked, Named
  <2>8. Sought'
    BY <1>1, <1>2, <2>2 DEF MadeInv, Sought, Working
  <2> QED
    BY <1>1, <1>2, <2>2, <2>7, <2>8, Onward
<1> QED
  BY <1>3, <1>4, <1>5, <1>6, <1>7

(***************************************************************************)
(* The section and its values.                                             *)
(***************************************************************************)
LEMMA OneTextChanged ==
  ASSUME JobType, NEW t \in Text, NEW v \in Entry, job' = [job EXCEPT ![t] = v]
  PROVE  /\ JobType' /\ job'[t] = v
         /\ \A f \in Text \ {t} : job'[f] = job[f]
         /\ job'.operation = job.operation /\ job'.encryption = job.encryption
<1>1. DOMAIN job = Field /\ t \in Field
  BY Naming DEF JobType
<1>2. But(job, job', {t}) /\ job'[t] = v
  BY <1>1, OneField
<1>3. /\ DOMAIN job' = Field /\ \A f \in Text \ {t} : job'[f] = job[f]
      /\ job'.operation = job.operation /\ job'.encryption = job.encryption /\ job'.mode = job.mode
      /\ job'.timeout = job.timeout /\ job'.cpu_quantity = job.cpu_quantity
  BY <1>2, Naming, Apart DEF But
<1>4. JobType'
  BY <1>2, <1>3 DEF JobType
<1> QED
  BY <1>2, <1>3, <1>4

\* What is known about the job when the server is looked for.
LEMMA AtServer ==
  ASSUME MadeInv, pc = "server"
  PROVE  /\ rc = "OK" /\ server = 0 /\ JobType /\ RecordNamed
         /\ sections \in Seq(SectionType) /\ VerifyConfig(sections)
         /\ job.CPC_id = Id /\ (Tells("S") <=> job.address # NULL)
         /\ Tells("S") => Section = Used
         /\ ~Tells("p") /\ ~Tells("P") => job.password = NULL
         /\ job.encryption = (IF Tells("e") THEN "off" ELSE "undefined") /\ job.username = Argument("u")
<1>1. /\ rc = "OK" /\ server = 0 /\ JobType /\ sections \in Seq(SectionType) /\ VerifyConfig(sections)
  BY DEF MadeInv, CallType, Looked
<1>2. /\ RecordNamed /\ job.CPC_id = Argument("CPC") /\ job.address = Argument("S")
      /\ (~Tells("p") /\ ~Tells("P") => job.password = NULL)
      /\ job.encryption = (IF Tells("e") THEN "off" ELSE "undefined") /\ job.username = Argument("u")
  BY DEF MadeInv, Sought, Working
<1>3. Tells("S") <=> job.address # NULL
  BY <1>2, TextGiven DEF MadeInv, WithText
<1>4. Tells("S") => Section = Used
  BY <1>1, <1>2 DEF Section, Used
<1> QED
  BY <1>1, <1>2, <1>3, <1>4 DEF Id

LEMMA AddressGivenStep ==
  ASSUME MadeInv, AddressGiven
  PROVE  MadeInv'
<1>1. /\ pc = "server" /\ pc' = "password" /\ job.address # NULL
      /\ UNCHANGED <<argv, files, next, specified, sections, job, server, rc>>
  BY DEF AddressGiven, Go, Keep
<1>2. /\ JobType' /\ (RecordNamed' <=> RecordNamed)
      /\ \A c : Tells(c)' = Tells(c) /\ Argument(c)' = Argument(c)
      /\ VerifyConfig(sections)' /\ Used' = Used
  BY <1>1, SameJob, UsedStays
<1>3. Tells("S") /\ Section = Used
  BY <1>1, AtServer
<1>4. Section' = Used' /\ AddressFound'
  BY <1>1, <1>2, <1>3 DEF Section, AddressFound
<1>5. Sought'
  BY <1>1, <1>2 DEF MadeInv, Sought, Working
<1>6. Looked' /\ Named'
  BY <1>1, <1>2, <1>3, <1>4 DEF MadeInv, Looked, Named
<1> QED
  BY <1>1, <1>2, <1>5, <1>6, Onward

\* The two searches agree on identifiers that is_id accepts.
LEMMA ListedIsEqual ==
  ASSUME NEW p, NEW id, ValidCpcId(p), Names(p, id), id # NULL
  PROVE  ValueIsEqual(p, id)
<1>1. CASE p.alias = NULL
  BY <1>1 DEF Names, ValueIsEqual
<1>2. CASE p.alias # NULL /\ p.value = id
  <2>1. <<id, id>> \in Begins
    BY <1>2, SncapConfigAssumption DEF ValidCpcId
  <2> QED
    BY <1>2, <2>1 DEF ValueIsEqual
<1>3. CASE p.alias # NULL /\ p.alias = id
  BY <1>3 DEF ValueIsEqual
<1> QED
  BY <1>1, <1>2, <1>3 DEF Names

LEMMA DefinedNext ==
  DefinedIsFound' <=>
    (~Tells("S") /\ sections # <<>> =>
       /\ rc = "NO_SERVER" => Listed = {}
       /\ rc = "PROGRAM_ERROR" => Shadowed
       /\ pc = "connect" => CpcFound)'
  BY Zenon DEF DefinedIsFound, Listed, Shadowed, CpcFound, Id

LEMMA FindServerFailsStep ==
  ASSUME MadeInv, FindServerFails
  PROVE  MadeInv'
<1>1. /\ pc = "server" /\ pc' = "ended" /\ job.address = NULL
      /\ UNCHANGED <<argv, files, next, specified, sections, job, server>>
      /\ \/ rc' = "MISSING_MANDATORY_OPTION"
         \/ rc' = "NO_SERVER" /\ job.CPC_id # NULL /\ FindByCpc(sections, job.CPC_id) = 0
  BY DEF FindServerFails, Ends, Go, Keep
<1>2. JobType' /\ server' \in 0 .. Len(sections)
  BY <1>1 DEF MadeInv, JobType, Looked
<1>3. CASE rc' = "MISSING_MANDATORY_OPTION"
  BY <1>1, <1>2, <1>3, OtherEnd
<1>4. CASE rc' = "NO_SERVER"
  <2>1. Id # NULL /\ FindByCpc(sections, Id) = 0 /\ sections \in Seq(SectionType) /\ VerifyConfig(sections)
    BY <1>1, <1>4, AtServer
  <2>2. \A n \in DOMAIN sections : \A p \in CpcIds(sections[n]) : ~ValueIsEqual(p, Id)
    BY <2>1, CpcSearch
  <2>3. \A n \in DOMAIN sections : \A p \in CpcIds(sections[n]) : ValidCpcId(p)
    BY <2>1 DEF VerifyConfig
  <2>4. \A n \in DOMAIN sections : \A p \in CpcIds(sections[n]) : ~Names(p, Id)
    BY <2>1, <2>2, <2>3, ListedIsEqual
  <2>5. Listed = {}
    BY <2>4 DEF Listed
  <2>6. Listed' = {}
    BY <1>1, <2>5, UsedStays
  <2>7. DefinedIsFound'
    BY <1>1, <1>4, <2>6, DefinedNext
  <2> QED
    BY <1>1, <1>2, <2>7, Ended
<1> QED
  BY <1>1, <1>3, <1>4

LEMMA FindServerStep ==
  ASSUME MadeInv, FindServer
  PROVE  MadeInv'
<1>1. /\ pc = "server" /\ job.address = NULL /\ job.CPC_id # NULL
      /\ server' = FindByCpc(sections, job.CPC_id) /\ server' # 0
      /\ job' = Translated(job, sections[server'])
      /\ UNCHANGED <<argv, files, next, specified, sections>>
      /\ \/ FindCpcProperty(sections[server'], job.CPC_id) = 0 /\ pc' = "ended" /\ rc' = "PROGRAM_ERROR"
         \/ FindCpcProperty(sections[server'], job.CPC_id) # 0 /\ pc' = "password" /\ UNCHANGED rc
  BY DEF FindServer, Ends, Go, Keep
<1>2. /\ rc = "OK" /\ JobType /\ RecordNamed /\ job.CPC_id = Id /\ ~Tells("S")
      /\ sections \in Seq(SectionType) /\ VerifyConfig(sections)
      /\ ~Tells("p") /\ ~Tells("P") => job.password = NULL
      /\ job.encryption = (IF Tells("e") THEN "off" ELSE "undefined") /\ job.username = Argument("u")
  BY <1>1, AtServer
<1>3. PICK n : n = server'
  OBVIOUS
<1>4. /\ n \in 0 .. Len(sections) /\ n # 0 /\ n = FindByCpc(sections, Id)
      /\ \E p \in CpcIds(sections[n]) : ValueIsEqual(p, Id)
  BY <1>1, <1>2, <1>3, CpcSearch
<1>5. PICK s : s = sections[n]
  OBVIOUS
<1>6. s \in SectionType /\ n \in DOMAIN sections
  BY <1>2, <1>4, <1>5
<1>7. s.properties \in Seq(Line) /\ s.address \in STRING \ {NULL, ""}
  BY <1>6 DEF SectionType
<1>8. PICK k : k = FindCpcProperty(s, Id)
  OBVIOUS
<1>9. /\ k \in 0 .. Len(s.properties)
      /\ k # 0 => Names(s.properties[k], Id)
      /\ k = 0 => \A i \in 1 .. Len(s.properties) : ~Names(s.properties[i], Id)
  BY <1>7, <1>8, PropertySearch
<1>10. PICK a, v : /\ a = s.address
                   /\ v = IF k = 0 \/ s.properties[k].alias = NULL THEN job.CPC_id ELSE s.properties[k].value
  OBVIOUS
<1>11. job' = [job EXCEPT !.address = a, !.CPC_id = v]
  BY <1>1, <1>2, <1>3, <1>5, <1>8, <1>10 DEF Translated
<1>12. \A i \in 1 .. Len(s.properties) : s.properties[i] \in Line
  <2>1. \A q \in Seq(Line) : \A i \in 1 .. Len(q) : q[i] \in Line
    OBVIOUS
  <2> QED
    BY <1>7, <2>1
<1>13. a \in Entry /\ v \in Entry /\ a \notin {NULL, ""}
  <2>1. a \in Entry /\ a \notin {NULL, ""}
    BY <1>7, <1>10 DEF Entry
  <2>2. CASE v = job.CPC_id
    <3>1. "CPC_id" \in Text
      BY Naming
    <3>2. job["CPC_id"] \in Entry
      BY <1>2, <3>1 DEF JobType
    <3> QED
      BY <2>1, <2>2, <3>2
  <2>3. CASE k # 0 /\ v = s.properties[k].value
    <3>1. s.properties[k] \in Line
      BY <1>9, <1>12, <2>3
    <3>2. \A l \in Line : l.value \in STRING \cup {NULL}
      BY DEF Line
    <3> QED
      BY <2>1, <2>3, <3>1, <3>2 DEF Entry
  <2> QED
    BY <1>10, <2>1, <2>2, <2>3
<1>14. DOMAIN job = Field
  BY <1>2 DEF JobType
<1>15. /\ DOMAIN job' = Field /\ job'.address = a /\ job'.CPC_id = v
       /\ \A t \in Text \ {"address", "CPC_id"} : job'[t] = job[t]
       /\ job'.operation = job.operation /\ job'.encryption = job.encryption /\ job'.mode = job.mode
       /\ job'.timeout = job.timeout /\ job'.cpu_quantity = job.cpu_quantity
  BY <1>11, <1>14, Naming DEF Field
<1>16. \A t \in Text : job'[t] \in Entry
  BY <1>2, <1>13, <1>15 DEF JobType
<1>17. JobType'
  BY <1>2, <1>15, <1>16 DEF JobType
<1>18. /\ \A c : Tells(c)' = Tells(c) /\ Argument(c)' = Argument(c)
       /\ Used' = Used /\ Listed' = Listed /\ Shadowed' = Shadowed
  BY <1>1, SayingStays, UsedStays
<1>19. Used = n
  BY <1>2, <1>4 DEF Used, Id
<1>20. server' \in 0 .. Len(sections)
  BY <1>3, <1>4
<1>21. CASE k = 0
  <2>1. pc' = "ended" /\ rc' = "PROGRAM_ERROR"
    BY <1>1, <1>2, <1>3, <1>5, <1>8, <1>21
  <2>2. PICK p \in CpcIds(s) : ValueIsEqual(p, Id)
    BY <1>4, <1>5
  <2>3. p.key = "cpcid" /\ ~Names(p, Id)
    BY <1>9, <1>21 DEF CpcIds
  <2>4. p.alias # NULL /\ p.value # Id /\ <<p.value, Id>> \in Begins
    BY <2>2, <2>3 DEF ValueIsEqual, Names
  <2>5. Shadowed
    BY <1>5, <1>6, <2>2, <2>4 DEF Shadowed
  <2>6. DefinedIsFound'
    BY <1>18, <2>1, <2>5, DefinedNext
  <2> QED
    BY <1>1, <1>17, <1>20, <2>1, <2>6, Ended
<1>22. CASE k # 0
  <2>1. pc' = "password" /\ rc' = rc
    BY <1>1, <1>2, <1>3, <1>5, <1>8, <1>22
  <2>2. PICK p : p = s.properties[k]
    OBVIOUS
  <2>3. Names(p, Id) /\ k \in 1 .. Len(s.properties)
    BY <1>9, <1>22, <2>2
  <2>4. p \in Listed
    <3>1. p \in CpcIds(s)
      BY <2>2, <2>3 DEF CpcIds, Names
    <3> QED
      BY <1>5, <1>6, <2>3, <3>1 DEF Listed
  <2>5. v = p.value
    <3>1. v = IF p.alias = NULL THEN Id ELSE p.value
      BY <1>2, <1>10, <1>22, <2>2
    <3>2. Id # NULL
      BY <1>1, <1>2
    <3> QED
      BY <2>3, <3>1, <3>2 DEF Names
  <2>6. CpcFound'
    BY <1>15, <1>18, <2>4, <2>5 DEF CpcFound
  <2>7. Section' = n
    BY <1>3, <1>4 DEF Section
  <2>8. Section' = Used' /\ AddressFound'
    BY <1>1, <1>4, <1>5, <1>10, <1>15, <1>18, <1>19, <2>7 DEF AddressFound
  <2>9. VerifyConfig(sections)'
    BY <1>1, <1>2, Zenon DEF VerifyConfig
  <2>10. Looked'
    BY <1>1, <1>2, <1>20, <2>1, <2>8, <2>9 DEF Looked
  <2>11. Named'
    BY <1>13, <1>15, <2>1, <2>6 DEF Named
  <2>12. job'.password = job.password /\ job'.username = job.username /\ job'.TCR_id = job.TCR_id
    BY <1>15, Naming
  <2>13. Sought'
    BY <1>2, <1>15, <1>18, <2>1, <2>12 DEF Sought, Working, RecordNamed
  <2> QED
    BY <1>1, <1>17, <2>1, <2>10, <2>11, <2>13, Onward
<1> QED
  BY <1>21, <1>22

(***************************************************************************)
(* The values behind the server.                                           *)
(***************************************************************************)
\* What is known when a value is looked up.
LEMMA AtSearch ==
  ASSUME MadeInv, pc \in {"password", "encryption", "user"}
  PROVE  /\ rc = "OK" /\ JobType /\ RecordNamed /\ AddressFound
         /\ sections \in Seq(SectionType) /\ VerifyConfig(sections)
         /\ Section = Used /\ Section \in 0 .. Len(sections)
         /\ \A key : Value(key) = UsedValue(key) /\ Value(key) \in STRING \cup {NULL}
         /\ job.username = Argument("u")
<1>1. /\ rc = "OK" /\ JobType /\ AddressFound /\ sections \in Seq(SectionType) /\ VerifyConfig(sections)
      /\ Section = Used /\ server \in 0 .. Len(sections)
  BY DEF MadeInv, CallType, Looked
<1>2. RecordNamed /\ job.username = Argument("u")
  BY DEF MadeInv, Sought, Working
<1>3. Section \in 0 .. Len(sections)
  BY <1>1, AddressSearch DEF Section
<1>4. \A key : Value(key) = UsedValue(key)
  BY <1>1, Zenon DEF Value, UsedValue
<1>5. \A key : Value(key) \in STRING \cup {NULL}
  <2>1. CASE Section = 0
    BY <2>1 DEF Value
  <2>2. CASE Section # 0
    <3>1. sections[Section] \in SectionType
      BY <1>1, <1>3, <2>2
    <3> QED
      BY <2>2, <3>1, ValueFound DEF Value
  <2> QED
    BY <2>1, <2>2
<1> QED
  BY <1>1, <1>2, <1>3, <1>4, <1>5

\* The section stays the one it was, whether it was looked up or not.
LEMMA Searched ==
  ASSUME MadeInv, pc \in {"password", "encryption", "user"}, server' \in {server, Section},
         UNCHANGED <<argv, sections>>, job'.address = job.address, job'.CPC_id = job.CPC_id
  PROVE  /\ server' \in 0 .. Len(sections) /\ Section' = Used' /\ AddressFound'
         /\ \A c : Tells(c)' = Tells(c) /\ Argument(c)' = Argument(c)
         /\ \A key : UsedValue(key)' = UsedValue(key)
         /\ VerifyConfig(sections)'
         /\ ~Tells("S") /\ sections # <<>> => CpcFound' /\ job'.address \notin {NULL, ""}
<1>1. /\ AddressFound /\ Section = Used /\ Section \in 0 .. Len(sections) /\ VerifyConfig(sections)
      /\ server \in 0 .. Len(sections)
  BY AtSearch DEF MadeInv, Looked
<1>2. Section' = Section
  BY DEF Section
<1>3. /\ \A c : Tells(c)' = Tells(c) /\ Argument(c)' = Argument(c)
      /\ Used' = Used /\ Listed' = Listed
      /\ \A key : UsedValue(key)' = UsedValue(key)
  BY SayingStays, UsedStays
<1>4. AddressFound'
  BY <1>1, <1>3 DEF AddressFound
<1>5. VerifyConfig(sections)'
  BY <1>1, Zenon DEF VerifyConfig
<1>6. ~Tells("S") /\ sections # <<>> => CpcFound' /\ job'.address \notin {NULL, ""}
  <2>1. ~Tells("S") /\ sections # <<>> => CpcFound /\ job.address \notin {NULL, ""}
    BY DEF MadeInv, Named
  <2> QED
    BY <1>3, <2>1 DEF CpcFound
<1> QED
  BY <1>1, <1>2, <1>3, <1>4, <1>5, <1>6

LEMMA FindPasswordStep ==
  ASSUME MadeInv, FindPassword
  PROVE  MadeInv'
<1>1. /\ pc = "password" /\ UNCHANGED <<argv, files, next, specified, sections>>
      /\ IF job.password # NULL THEN UNCHANGED <<job, server>>
         ELSE server' = Section /\ job' = [job EXCEPT !["password"] = Value("password")]
      /\ \/ pc' = "encryption" /\ UNCHANGED rc
         \/ pc' = "ended" /\ rc' = "NO_PASSWORD"
  BY DEF FindPassword, Ends, Go, Keep
<1>2. /\ rc = "OK" /\ JobType /\ RecordNamed /\ job.username = Argument("u")
      /\ sections \in Seq(SectionType)
      /\ Value("password") = UsedValue("password") /\ Value("password") \in STRING \cup {NULL}
  BY <1>1, AtSearch
<1>3. /\ ~Tells("p") /\ ~Tells("P") => job.password = NULL
      /\ job.encryption = IF Tells("e") THEN "off" ELSE "undefined"
  BY <1>1 DEF MadeInv, Sought, Working
<1>4. /\ JobType' /\ \A f \in Text \ {"password"} : job'[f] = job[f]
      /\ job'.operation = job.operation /\ job'.encryption = job.encryption
      /\ job.password = NULL => job'.password = UsedValue("password")
  <2>1. CASE job.password # NULL
    BY <1>1, <1>2, <2>1 DEF JobType
  <2>2. CASE job.password = NULL
    <3>1. PICK v : v = Value("password")
      OBVIOUS
    <3>2. v \in Entry /\ "password" \in Text /\ job' = [job EXCEPT !["password"] = v]
      BY <1>1, <1>2, <2>2, <3>1, Naming DEF Entry
    <3>3. /\ JobType' /\ job'["password"] = v /\ \A f \in Text \ {"password"} : job'[f] = job[f]
          /\ job'.operation = job.operation /\ job'.encryption = job.encryption
      BY <1>2, <3>2, OneTextChanged
    <3> QED
      BY <1>2, <3>1, <3>3
  <2> QED
    BY <2>1, <2>2
<1>5. /\ job'.address = job.address /\ job'.CPC_id = job.CPC_id /\ job'.username = job.username
      /\ job'.TCR_id = job.TCR_id
  BY <1>4, Naming
<1>6. /\ server' \in 0 .. Len(sections) /\ Section' = Used' /\ AddressFound'
      /\ \A c : Tells(c)' = Tells(c) /\ Argument(c)' = Argument(c)
      /\ \A key : UsedValue(key)' = UsedValue(key)
      /\ VerifyConfig(sections)'
      /\ ~Tells("S") /\ sections # <<>> => CpcFound' /\ job'.address \notin {NULL, ""}
  BY <1>1, <1>5, Searched
<1>7. CASE pc' = "ended"
  BY <1>1, <1>2, <1>4, <1>6, <1>7, OtherEnd
<1>8. CASE pc' = "encryption"
  <2>1. UNCHANGED rc
    BY <1>1, <1>8
  <2>2. PasswordFound'
    BY <1>3, <1>4, <1>6 DEF PasswordFound
  <2>3. Looked'
    BY <1>1, <1>2, <1>6, <1>8, <2>2 DEF Looked
  <2>4. Named'
    BY <1>1, <1>6, <1>8 DEF Named
  <2>5. RecordNamed'
    BY <1>2, <1>4, <1>5 DEF RecordNamed
  <2>6. Sought'
    BY <1>2, <1>3, <1>4, <1>5, <1>6, <1>8, <2>5 DEF Sought, Working
  <2> QED
    BY <1>1, <1>4, <1>8, <2>1, <2>3, <2>4, <2>6, Onward
<1> QED
  BY <1>1, <1>7, <1>8

LEMMA FindEncryptionStep ==
  ASSUME MadeInv, FindEncryption
  PROVE  MadeInv'
<1>1. /\ pc = "encryption" /\ UNCHANGED <<argv, files, next, specified, sections>>
      /\ \/ /\ job.encryption # "undefined" /\ pc' = "user" /\ UNCHANGED <<job, server, rc>>
         \/ /\ job.encryption = "undefined" /\ pc' = "user" /\ UNCHANGED rc /\ server' = Section
            /\ job' = [job EXCEPT !["encryption"] = IF Value("encryption") = "no" THEN "off" ELSE "on"]
         \/ pc' = "ended" /\ rc' = "WRONG_ENC" /\ server' = Section /\ UNCHANGED job
  BY DEF FindEncryption, Ends, Go, Keep
<1>2. /\ rc = "OK" /\ JobType /\ RecordNamed /\ job.username = Argument("u")
      /\ sections \in Seq(SectionType) /\ Value("encryption") = UsedValue("encryption")
  BY <1>1, AtSearch
<1>3. /\ job.encryption = IF Tells("e") THEN "off" ELSE "undefined"
      /\ PasswordFound
  BY <1>1 DEF MadeInv, Sought, Looked, Working
<1>4. /\ JobType' /\ \A f \in Text : job'[f] = job[f]
      /\ job'.operation = job.operation
      /\ pc' = "user" => job'.encryption = IF Tells("e") THEN "off"
                                           ELSE IF UsedValue("encryption") = "no" THEN "off" ELSE "on"
  <2>1. CASE UNCHANGED job
    <3>1. JobType' /\ \A f \in Text : job'[f] = job[f]
      BY <1>2, <2>1 DEF JobType
    <3>2. pc' = "user" => job.encryption # "undefined"
      <4>1. CASE job.encryption = "undefined" /\ pc' = "user"
        <5>1. PICK e \in {"on", "off"} : job' = [job EXCEPT !["encryption"] = e]
          BY <1>1, <4>1
        <5>2. "encryption" \in DOMAIN job
          BY <1>2 DEF JobType, Field
        <5> QED
          BY <2>1, <4>1, <5>1, <5>2
      <4> QED
        BY <4>1
    <3> QED
      BY <1>3, <2>1, <3>1, <3>2
  <2>2. CASE /\ job.encryption = "undefined"
             /\ job' = [job EXCEPT !["encryption"] = IF Value("encryption") = "no" THEN "off" ELSE "on"]
    <3>1. PICK e \in {"on", "off"} : e = IF Value("encryption") = "no" THEN "off" ELSE "on"
      OBVIOUS
    <3>2. But(job, job', {"encryption"}) /\ job'.encryption = e
      BY <1>2, <2>2, <3>1, Apart, OneField DEF JobType
    <3>3. /\ DOMAIN job' = Field /\ \A t \in Text : job'[t] = job[t]
          /\ job'.operation = job.operation /\ job'.mode = job.mode
          /\ job'.timeout = job.timeout /\ job'.cpu_quantity = job.cpu_quantity
      BY <3>2, Naming, Apart DEF But
    <3>4. JobType'
      BY <1>2, <3>2, <3>3 DEF JobType
    <3> QED
      BY <1>2, <1>3, <2>2, <3>1, <3>2, <3>3, <3>4
  <2> QED
    BY <1>1, <2>1, <2>2
<1>5. /\ job'.address = job.address /\ job'.CPC_id = job.CPC_id /\ job'.username = job.username
      /\ job'.TCR_id = job.TCR_id /\ job'.password = job.password
  BY <1>4, Naming
<1>6. /\ server' \in 0 .. Len(sections) /\ Section' = Used' /\ AddressFound'
      /\ \A c : Tells(c)' = Tells(c) /\ Argument(c)' = Argument(c)
      /\ \A key : UsedValue(key)' = UsedValue(key)
      /\ VerifyConfig(sections)'
      /\ ~Tells("S") /\ sections # <<>> => CpcFound' /\ job'.address \notin {NULL, ""}
  BY <1>1, <1>5, Searched
<1>7. CASE pc' = "ended"
  BY <1>1, <1>2, <1>4, <1>6, <1>7, OtherEnd
<1>8. CASE pc' = "user"
  <2>1. UNCHANGED rc
    BY <1>1, <1>8
  <2>2. PasswordFound'
    BY <1>3, <1>5, <1>6 DEF PasswordFound
  <2>3. EncryptionFound' /\ job'.encryption # "undefined"
    BY <1>4, <1>6, <1>8 DEF EncryptionFound
  <2>4. Looked'
    BY <1>1, <1>2, <1>6, <1>8, <2>2, <2>3 DEF Looked
  <2>5. Named'
    BY <1>1, <1>6, <1>8 DEF Named
  <2>6. RecordNamed'
    BY <1>2, <1>4, <1>5 DEF RecordNamed
  <2>7. Sought'
    BY <1>2, <1>5, <1>6, <1>8, <2>6 DEF Sought, Working
  <2> QED
    BY <1>1, <1>4, <1>8, <2>1, <2>4, <2>5, <2>7, Onward
<1> QED
  BY <1>1, <1>7, <1>8

LEMMA UserStep ==
  ASSUME MadeInv, UserGiven \/ FindUser
  PROVE  MadeInv'
<1>1. /\ pc = "user" /\ UNCHANGED <<argv, files, next, specified, sections>>
  BY DEF UserGiven, FindUser, Ends, Go, Keep
<1>2. /\ rc = "OK" /\ JobType /\ RecordNamed /\ job.username = Argument("u")
      /\ sections \in Seq(SectionType)
      /\ Value("user") = UsedValue("user") /\ Value("user") \in STRING \cup {NULL}
  BY <1>1, AtSearch
<1>3. /\ PasswordFound /\ EncryptionFound /\ job.encryption \in {"on", "off"}
      /\ Tells("u") <=> job.username # NULL
  BY <1>1, <1>2, TextGiven DEF MadeInv, Looked, JobType, WithText
<1>4. ASSUME server' \in {server, Section}, JobType', \A f \in Text \ {"username"} : job'[f] = job[f],
             job'.operation = job.operation, job'.encryption = job.encryption,
             \/ pc' = "ended" /\ rc' \in {"NO_USERNAME", "USERNAME_ENC_OFF"}
             \/ pc' = "verify" /\ UNCHANGED rc /\ (~Tells("u") =>
                  job'.username = (IF job.encryption = "on" THEN UsedValue("user") ELSE NULL))
      PROVE  MadeInv'
  <2>1. /\ job'.address = job.address /\ job'.CPC_id = job.CPC_id /\ job'.password = job.password
        /\ job'.TCR_id = job.TCR_id
    BY <1>4, Naming
  <2>2. /\ server' \in 0 .. Len(sections) /\ Section' = Used' /\ AddressFound'
        /\ \A c : Tells(c)' = Tells(c) /\ Argument(c)' = Argument(c)
        /\ \A key : UsedValue(key)' = UsedValue(key)
        /\ VerifyConfig(sections)'
        /\ ~Tells("S") /\ sections # <<>> => CpcFound' /\ job'.address \notin {NULL, ""}
    BY <1>1, <1>4, <2>1, Searched
  <2>3. CASE pc' = "ended"
    BY <1>1, <1>4, <2>2, <2>3, OtherEnd
  <2>4. CASE pc' = "verify"
    <3>1. UNCHANGED rc
      BY <1>4, <2>4
    <3>2. PasswordFound'
      BY <1>3, <2>1, <2>2 DEF PasswordFound
    <3>3. EncryptionFound'
      BY <1>3, <1>4, <2>2 DEF EncryptionFound
    <3>4. UserFound'
      BY <1>4, <2>2, <2>4 DEF UserFound
    <3>5. Decided' /\ job'.encryption # "undefined"
      BY <1>3, <1>4, <2>2, <3>2, <3>3, <3>4 DEF Decided
    <3>6. Looked'
      BY <1>1, <1>2, <2>2, <2>4, <3>5 DEF Looked
    <3>7. Named'
      BY <1>1, <2>2, <2>4 DEF Named
    <3>8. RecordNamed'
      BY <1>2, <1>4, <2>1 DEF RecordNamed
    <3>9. Sought'
      BY <2>4, <3>8 DEF Sought, Working
    <3> QED
      BY <1>1, <1>4, <2>4, <3>1, <3>6, <3>7, <3>9, Onward
  <2> QED
    BY <1>4, <2>3, <2>4
<1>5. CASE UserGiven
  <2>1. pc' = "verify" /\ UNCHANGED <<job, server, rc>> /\ Tells("u")
    BY <1>3, <1>5 DEF UserGiven, Go
  <2>2. JobType'
    BY <1>2, <2>1 DEF JobType
  <2> QED
    BY <1>4, <2>1, <2>2
<1>6. CASE FindUser /\ pc' = "ended"
  <2>1. server' = Section /\ UNCHANGED job /\ rc' \in {"NO_USERNAME", "USERNAME_ENC_OFF"}
    BY <1>6 DEF FindUser, Ends, Go
  <2>2. JobType'
    BY <1>2, <2>1 DEF JobType
  <2> QED
    BY <1>4, <1>6, <2>1, <2>2
<1>7. CASE FindUser /\ pc' # "ended"
  <2>1. PICK v : v = Value("user")
    OBVIOUS
  <2>2. /\ server' = Section /\ pc' = "verify" /\ UNCHANGED rc /\ job' = [job EXCEPT !["username"] = v]
        /\ ~(v # NULL /\ job.encryption = "off") /\ ~(v = NULL /\ job.encryption = "on")
    BY <1>7, <2>1 DEF FindUser, Ends, Go
  <2>3. v \in Entry /\ "username" \in Text
    BY <1>2, <2>1, Naming DEF Entry
  <2>4. /\ JobType' /\ job'["username"] = v /\ \A f \in Text \ {"username"} : job'[f] = job[f]
        /\ job'.operation = job.operation /\ job'.encryption = job.encryption
    BY <1>2, <2>2, <2>3, OneTextChanged
  <2>5. job'.username = (IF job.encryption = "on" THEN UsedValue("user") ELSE NULL)
    BY <1>2, <1>3, <2>1, <2>2, <2>4
  <2> QED
    BY <1>4, <2>2, <2>4, <2>5
<1> QED
  BY <1>5, <1>6, <1>7

(***************************************************************************)
(* job_verify.                                                             *)
(***************************************************************************)
LEMMA FirstOfTwo ==
  ASSUME NEW a, NEW b
  PROVE  /\ First(<<a, b>>) = "OK" => a = "OK" /\ b = "OK"
         /\ First(<<a, b>>) \in {"OK", a, b}
<1>1. PICK v : v = <<a, b>>
  OBVIOUS
<1>2. v \in Seq({a, b}) /\ Len(v) = 2 /\ v[1] = a /\ v[2] = b
  BY <1>1
<1>3. /\ First(v) = "OK" => \A k \in 1 .. 2 : v[k] = "OK"
      /\ First(v) # "OK" => \E k \in 1 .. 2 : First(v) = v[k]
  BY <1>2, Verdict
<1> QED
  BY <1>1, <1>2, <1>3

LEMMA FirstOfThree ==
  ASSUME NEW a, NEW b, NEW c
  PROVE  /\ First(<<a, b, c>>) = "OK" => a = "OK" /\ b = "OK" /\ c = "OK"
         /\ First(<<a, b, c>>) \in {"OK", a, b, c}
<1>1. PICK v : v = <<a, b, c>>
  OBVIOUS
<1>2. v \in Seq({a, b, c}) /\ Len(v) = 3 /\ v[1] = a /\ v[2] = b /\ v[3] = c
  BY <1>1
<1>3. /\ First(v) = "OK" => \A k \in 1 .. 3 : v[k] = "OK"
      /\ First(v) # "OK" => \E k \in 1 .. 3 : First(v) = v[k]
  BY <1>2, Verdict
<1> QED
  BY <1>1, <1>2, <1>3

LEMMA FirstOfFive ==
  ASSUME NEW a, NEW b, NEW c, NEW d, NEW e
  PROVE  /\ First(<<a, b, c, d, e>>) = "OK" => a = "OK" /\ b = "OK" /\ c = "OK" /\ d = "OK" /\ e = "OK"
         /\ First(<<a, b, c, d, e>>) \in {"OK", a, b, c, d, e}
<1>1. PICK v : v = <<a, b, c, d, e>>
  OBVIOUS
<1>2. v \in Seq({a, b, c, d, e}) /\ Len(v) = 5 /\ v[1] = a /\ v[2] = b /\ v[3] = c /\ v[4] = d /\ v[5] = e
  BY <1>1
<1>3. /\ First(v) = "OK" => \A k \in 1 .. 5 : v[k] = "OK"
      /\ First(v) # "OK" => \E k \in 1 .. 5 : First(v) = v[k]
  BY <1>2, Verdict
<1> QED
  BY <1>1, <1>2, <1>3

\* A verdict that blames the server, or the program, does so for a reason.
Fair(j, verdict) ==
  /\ verdict = "NO_SERVER" => j.address \in {NULL, ""}
  /\ verdict # "PROGRAM_ERROR"

Connected(j) ==
  /\ j.address # NULL /\ j.password # NULL
  /\ j.username # NULL \/ j.encryption = "off"
  /\ j.username = NULL \/ j.encryption # "off"

LEMMA ConnectionVerdict ==
  ASSUME NEW j
  PROVE  /\ VerifyConnection(j) = "OK" => Connected(j)
         /\ Fair(j, VerifyConnection(j))
<1>1. PICK a, b, c, d, e :
        /\ a = Check(j.address \notin {NULL, ""}, "NO_SERVER")
        /\ b = Check(j.password # NULL, "NO_PASSWORD")
        /\ c = Check(j.username # NULL \/ j.encryption = "off", "NO_USERNAME")
        /\ d = Check(j.username = NULL \/ j.encryption # "off", "USERNAME_ENC_OFF")
        /\ e = Check(j.timeout >= -1, "INVALID_OPTION_VALUE")
  OBVIOUS
<1>2. VerifyConnection(j) = First(<<a, b, c, d, e>>)
  BY <1>1 DEF VerifyConnection
<1>3. /\ First(<<a, b, c, d, e>>) = "OK" => a = "OK" /\ b = "OK" /\ c = "OK" /\ d = "OK" /\ e = "OK"
      /\ First(<<a, b, c, d, e>>) \in {"OK", a, b, c, d, e}
  BY FirstOfFive
<1>4. /\ a = (IF j.address \notin {NULL, ""} THEN "OK" ELSE "NO_SERVER")
      /\ b = (IF j.password # NULL THEN "OK" ELSE "NO_PASSWORD")
      /\ c = (IF j.username # NULL \/ j.encryption = "off" THEN "OK" ELSE "NO_USERNAME")
      /\ d = (IF j.username = NULL \/ j.encryption # "off" THEN "OK" ELSE "USERNAME_ENC_OFF")
      /\ e \in {"OK", "INVALID_OPTION_VALUE"}
  BY <1>1 DEF Check
<1>5. VerifyConnection(j) = "OK" => Connected(j)
  BY <1>2, <1>3, <1>4 DEF Connected
<1>6. Fair(j, VerifyConnection(j))
  BY <1>2, <1>3, <1>4 DEF Fair
<1> QED
  BY <1>5, <1>6

LEMMA CpcVerdict ==
  ASSUME NEW j
  PROVE  /\ VerifyCpc(j) = "OK" => j.CPC_id \in Proper
         /\ VerifyCpc(j) \in {"OK", "MISSING_MANDATORY_OPTION", "INVALID_OPTION_VALUE"}
<1>1. PICK a, b : /\ a = Check(j.CPC_id # NULL, "MISSING_MANDATORY_OPTION")
                  /\ b = Check(j.CPC_id \in Proper, "INVALID_OPTION_VALUE")
  OBVIOUS
<1>2. VerifyCpc(j) = First(<<a, b>>)
  BY <1>1 DEF VerifyCpc
<1>3. First(<<a, b>>) = "OK" => a = "OK" /\ b = "OK"
  BY FirstOfTwo
<1>4. First(<<a, b>>) \in {"OK", a, b}
  BY FirstOfTwo
<1>5. /\ a \in {"OK", "MISSING_MANDATORY_OPTION"}
      /\ b = (IF j.CPC_id \in Proper THEN "OK" ELSE "INVALID_OPTION_VALUE")
  BY <1>1 DEF Check
<1> QED
  BY <1>2, <1>3, <1>4, <1>5

LEMMA ActionVerdict ==
  ASSUME NEW j
  PROVE  /\ VerifyAction(j) = "OK" => j.CPC_id \in Proper /\ j.TCR_id \in Proper /\ Connected(j)
         /\ Fair(j, VerifyAction(j))
<1>1. PICK a, b, c : /\ a = VerifyCpc(j) /\ b = Check(j.TCR_id \in Proper, "INVALID_OPTION_VALUE")
                     /\ c = VerifyConnection(j)
  OBVIOUS
<1>2. VerifyAction(j) = First(<<a, b, c>>)
  BY <1>1 DEF VerifyAction
<1>3. /\ First(<<a, b, c>>) = "OK" => a = "OK" /\ b = "OK" /\ c = "OK"
      /\ First(<<a, b, c>>) \in {"OK", a, b, c}
  BY FirstOfThree
<1>4. b = (IF j.TCR_id \in Proper THEN "OK" ELSE "INVALID_OPTION_VALUE")
  BY <1>1 DEF Check
<1>5. /\ a = "OK" => j.CPC_id \in Proper
      /\ a \in {"OK", "MISSING_MANDATORY_OPTION", "INVALID_OPTION_VALUE"}
      /\ c = "OK" => Connected(j)
      /\ Fair(j, c)
  BY <1>1, CpcVerdict, ConnectionVerdict
<1> QED
  BY <1>2, <1>3, <1>4, <1>5 DEF Fair

\* What a query and a list are not given.
Bare(j) == j.mode \cap {"test", "dryrun"} = {}

LEMMA QueryVerdict ==
  ASSUME NEW j
  PROVE  /\ VerifyQuery(j) = "OK" => j.CPC_id \in Proper /\ Connected(j) /\ Bare(j)
         /\ Fair(j, VerifyQuery(j))
<1>1. PICK a, b, c : a = VerifyCpc(j) /\ b = VerifyConnection(j) /\ c = VerifyReads(j)
  OBVIOUS
<1>2. VerifyQuery(j) = First(<<a, b, c>>)
  BY <1>1 DEF VerifyQuery
<1>3. /\ First(<<a, b, c>>) = "OK" => a = "OK" /\ b = "OK" /\ c = "OK"
      /\ First(<<a, b, c>>) \in {"OK", a, b, c}
  BY FirstOfThree
<1>4. c \in {"OK", "CONFLICTING_OPTIONS"} /\ (c = "OK" => Bare(j))
  BY <1>1 DEF VerifyReads, Check, Bare
<1>5. /\ a = "OK" => j.CPC_id \in Proper
      /\ a \in {"OK", "MISSING_MANDATORY_OPTION", "INVALID_OPTION_VALUE"}
      /\ b = "OK" => Connected(j)
      /\ Fair(j, b)
  BY <1>1, CpcVerdict, ConnectionVerdict
<1> QED
  BY <1>2, <1>3, <1>4, <1>5 DEF Fair

\* What ReadyIsComplete asks of a job.
Complete(j) ==
  /\ j.CPC_id \in IF j.operation = "LIST_CPCS" THEN {NULL} ELSE Proper
  /\ j.operation \in {"ACTIVATE", "DEACTIVATE", "QUERY_RECORD"} => j.TCR_id \in Proper
  /\ "test" \in j.mode => j.operation = "ACTIVATE"
  /\ "dryrun" \in j.mode => j.operation \in {"ACTIVATE", "DEACTIVATE"}
  /\ Connected(j)

LEMMA JobVerdict ==
  ASSUME NEW j, j.TCR_id \notin Proper \/ j.operation # "QUERY_LIST"
  PROVE  /\ Verify(j) = "OK" => j.operation \in {"HELP", "VERSION"} \/ Complete(j)
         /\ Fair(j, Verify(j))
<1>1. CASE j.operation = "ACTIVATE"
  <2>1. PICK a, b : /\ a = Check(j.software_model # NULL \/ ProcInfo(j), "MISSING_MANDATORY_OPTION")
                    /\ b = VerifyAction(j)
    OBVIOUS
  <2>2. Verify(j) = First(<<a, b>>)
    BY <1>1, <2>1 DEF Verify
  <2>3. (First(<<a, b>>) = "OK" => a = "OK" /\ b = "OK") /\ First(<<a, b>>) \in {"OK", a, b}
    BY FirstOfTwo
  <2>4. a \in {"OK", "MISSING_MANDATORY_OPTION"}
    BY <2>1 DEF Check
  <2>5. (b = "OK" => j.CPC_id \in Proper /\ j.TCR_id \in Proper /\ Connected(j)) /\ Fair(j, b)
    BY <2>1, ActionVerdict
  <2> QED
    BY <1>1, <2>2, <2>3, <2>4, <2>5 DEF Fair, Complete
<1>2. CASE j.operation = "DEACTIVATE"
  <2>1. PICK a, b : a = VerifyAction(j) /\ b = Check("test" \notin j.mode, "CONFLICTING_OPTIONS")
    OBVIOUS
  <2>2. Verify(j) = First(<<a, b>>)
    BY <1>2, <2>1 DEF Verify
  <2>3. (First(<<a, b>>) = "OK" => a = "OK" /\ b = "OK") /\ First(<<a, b>>) \in {"OK", a, b}
    BY FirstOfTwo
  <2>4. b = (IF "test" \notin j.mode THEN "OK" ELSE "CONFLICTING_OPTIONS")
    BY <2>1 DEF Check
  <2>5. (a = "OK" => j.CPC_id \in Proper /\ j.TCR_id \in Proper /\ Connected(j)) /\ Fair(j, a)
    BY <2>1, ActionVerdict
  <2> QED
    BY <1>2, <2>2, <2>3, <2>4, <2>5 DEF Fair, Complete
<1>3. CASE j.operation = "LIST_CPCS"
  <2>1. PICK a, b, c : /\ a = Check(j.CPC_id = NULL, "CONFLICTING_OPTIONS") /\ b = VerifyReads(j)
                       /\ c = VerifyConnection(j)
    OBVIOUS
  <2>2. Verify(j) = First(<<a, b, c>>)
    BY <1>3, <2>1 DEF Verify
  <2>3. /\ First(<<a, b, c>>) = "OK" => a = "OK" /\ b = "OK" /\ c = "OK"
        /\ First(<<a, b, c>>) \in {"OK", a, b, c}
    BY FirstOfThree
  <2>4. a = (IF j.CPC_id = NULL THEN "OK" ELSE "CONFLICTING_OPTIONS")
    BY <2>1 DEF Check
  <2>5. b \in {"OK", "CONFLICTING_OPTIONS"} /\ (b = "OK" => Bare(j))
    BY <2>1 DEF VerifyReads, Check, Bare
  <2>6. (c = "OK" => Connected(j)) /\ Fair(j, c)
    BY <2>1, ConnectionVerdict
  <2> QED
    BY <1>3, <2>2, <2>3, <2>4, <2>5, <2>6 DEF Fair, Complete, Bare
<1>4. CASE j.operation = "QUERY_CPUS"
  <2>1. Verify(j) = VerifyQuery(j)
    BY <1>4 DEF Verify
  <2> QED
    BY <1>4, <2>1, QueryVerdict DEF Fair, Complete, Bare
<1>5. CASE j.operation = "QUERY_LIST"
  <2>1. PICK a, b : a = VerifyQuery(j) /\ b = Check(j.TCR_id \notin Proper, "PROGRAM_ERROR")
    OBVIOUS
  <2>2. Verify(j) = First(<<a, b>>)
    BY <1>5, <2>1 DEF Verify
  <2>3. (First(<<a, b>>) = "OK" => a = "OK" /\ b = "OK") /\ First(<<a, b>>) \in {"OK", a, b}
    BY FirstOfTwo
  <2>4. b = "OK"
    BY <1>5, <2>1 DEF Check
  <2>5. (a = "OK" => j.CPC_id \in Proper /\ Connected(j) /\ Bare(j)) /\ Fair(j, a)
    BY <2>1, QueryVerdict
  <2> QED
    BY <1>5, <2>2, <2>3, <2>4, <2>5 DEF Fair, Complete, Bare
<1>6. CASE j.operation = "QUERY_RECORD"
  <2>1. PICK a, b : a = Check(j.TCR_id \in Proper, "INVALID_OPTION_VALUE") /\ b = VerifyQuery(j)
    OBVIOUS
  <2>2. Verify(j) = First(<<a, b>>)
    BY <1>6, <2>1 DEF Verify
  <2>3. (First(<<a, b>>) = "OK" => a = "OK" /\ b = "OK") /\ First(<<a, b>>) \in {"OK", a, b}
    BY FirstOfTwo
  <2>4. a = (IF j.TCR_id \in Proper THEN "OK" ELSE "INVALID_OPTION_VALUE")
    BY <2>1 DEF Check
  <2>5. (b = "OK" => j.CPC_id \in Proper /\ Connected(j) /\ Bare(j)) /\ Fair(j, b)
    BY <2>1, QueryVerdict
  <2> QED
    BY <1>6, <2>2, <2>3, <2>4, <2>5 DEF Fair, Complete, Bare
<1>7. CASE j.operation \in {"HELP", "VERSION"}
  <2>1. Verify(j) \in {"OK", "CONFLICTING_OPTIONS"}
    BY <1>7 DEF Verify, VerifyAux, Check
  <2> QED
    BY <1>7, <2>1 DEF Fair
<1>8. CASE j.operation \notin {"ACTIVATE", "DEACTIVATE", "LIST_CPCS", "QUERY_CPUS", "QUERY_LIST", "QUERY_RECORD",
                               "HELP", "VERSION"}
  <2>1. Verify(j) = "OPERATION_MISSED"
    BY <1>8 DEF Verify
  <2> QED
    BY <2>1 DEF Fair
<1> QED
  BY <1>1, <1>2, <1>3, <1>4, <1>5, <1>6, <1>7, <1>8

LEMMA VerifyStep ==
  ASSUME MadeInv, VerifyJob
  PROVE  MadeInv'
<1>1. /\ pc = "verify" /\ rc' = Verify(job) /\ UNCHANGED <<argv, files, next, specified, sections, job, server>>
      /\ pc' = IF rc' = "OK" /\ job.operation \notin {"HELP", "VERSION"} THEN "connect" ELSE "ended"
  BY DEF VerifyJob, Go, Keep
<1>2. /\ JobType /\ RecordNamed /\ sections \in Seq(SectionType) /\ server \in 0 .. Len(sections) /\ rc = "OK"
      /\ job.operation \notin {"HELP", "VERSION"} => Decided /\ job.encryption # "undefined"
      /\ ~Tells("S") /\ sections # <<>> => CpcFound /\ job.address \notin {NULL, ""}
  BY <1>1 DEF MadeInv, Sought, Looked, Named, CallType, Working
<1>3. NULL \notin Proper
  BY SncapConfigAssumption
<1>4. job.TCR_id \notin Proper \/ job.operation # "QUERY_LIST"
  BY <1>2, <1>3 DEF RecordNamed
<1>5. /\ Verify(job) = "OK" => job.operation \in {"HELP", "VERSION"} \/ Complete(job)
      /\ Fair(job, Verify(job))
  BY <1>4, JobVerdict
<1>6. /\ JobType' /\ (RecordNamed' <=> RecordNamed)
      /\ \A c : Tells(c)' = Tells(c) /\ Argument(c)' = Argument(c)
      /\ VerifyConfig(sections)' /\ server' \in 0 .. Len(sections)
      /\ Used' = Used /\ Listed' = Listed /\ \A key : UsedValue(key)' = UsedValue(key)
  BY <1>1, <1>2, SameJob, UsedStays
<1>7. ~Tells("S") /\ sections # <<>> => CpcFound'
  BY <1>1, <1>2, <1>6 DEF CpcFound
<1>8. DefinedIsFound'
  <2>1. ~Tells("S") /\ sections # <<>> => rc' # "NO_SERVER"
    BY <1>1, <1>2, <1>5 DEF Fair
  <2>2. rc' # "PROGRAM_ERROR"
    BY <1>1, <1>5 DEF Fair
  <2> QED
    BY <1>1, <1>6, <1>7, <2>1, <2>2, DefinedNext
<1>9. CASE pc' = "ended"
  BY <1>1, <1>6, <1>8, <1>9, Ended
<1>10. CASE pc' = "connect"
  <2>1. rc' = "OK" /\ job.operation \notin {"HELP", "VERSION"}
    BY <1>1, <1>10
  <2>2. Complete(job) /\ Decided /\ job.encryption \in {"on", "off"}
    BY <1>1, <1>2, <1>5, <2>1 DEF JobType
  <2>3. Decided'
    <3>1. AddressFound'
      BY <1>1, <1>6, <2>2 DEF Decided, AddressFound
    <3>2. PasswordFound'
      BY <1>1, <1>6, <2>2 DEF Decided, PasswordFound
    <3>3. EncryptionFound'
      BY <1>1, <1>6, <2>2 DEF Decided, EncryptionFound
    <3>4. UserFound'
      BY <1>1, <1>6, <2>2 DEF Decided, UserFound
    <3> QED
      BY <3>1, <3>2, <3>3, <3>4 DEF Decided
  <2>4. Looked'
    BY <1>1, <1>2, <1>6, <1>10, <2>2, <2>3 DEF Looked
  <2>5. Sought'
    BY <1>2, <1>6, <1>10 DEF Sought, Working
  <2>6. Named'
    BY <1>1, <1>6, <1>7, <1>10 DEF Named
  <2>7. ReadyIsComplete'
    <3>1. job.operation \in {"LIST_CPCS", "QUERY_CPUS", "QUERY_LIST"} => job.TCR_id \notin Proper
      BY <1>2, <1>3 DEF RecordNamed
    <3>2. job.encryption = IF job.username = NULL THEN "off" ELSE "on"
      BY <2>2 DEF Complete, Connected
    <3> QED
      BY <1>1, <2>2, <3>1, <3>2 DEF ReadyIsComplete, Complete, Connected
  <2>8. CallType'
    BY <1>1, <1>10, <2>1 DEF MadeInv, CallType
  <2>9. OptionsAsASet'
    BY <1>10 DEF OptionsAsASet
  <2> QED
    BY <1>6, <1>8, <1>10, <2>4, <2>5, <2>6, <2>7, <2>8, <2>9 DEF MadeInv
<1> QED
  BY <1>1, <1>9, <1>10

(***************************************************************************)
(* Every step.                                                             *)
(***************************************************************************)
LEMMA MadeStays ==
  ASSUME MadeInv, UNCHANGED vars
  PROVE  MadeInv'
<1>1. UNCHANGED <<argv, files, next, specified, job, sections, server, pc, rc>>
  BY DEF vars
<1>2. /\ JobType' /\ CallType' /\ OptionsAsASet' /\ ReadyIsComplete'
  <2>1. JobType' /\ CallType' /\ ReadyIsComplete'
    BY <1>1 DEF MadeInv, JobType, CallType, ReadyIsComplete
  <2>2. OptionsAsASet'
    <3>1. /\ \A c : Tells(c)' = Tells(c) /\ The(c)' = The(c) /\ Argument(c)' = Argument(c)
          /\ Operations' = Operations
      BY <1>1, SayingStays
    <3>2. (CHOOSE c \in {"a", "d", "q"} : Tells(c)') = CHOOSE c \in {"a", "d", "q"} : Tells(c)
      BY <3>1
    <3>3. {d \in DOMAIN ModeOf : Tells(d)'} = {d \in DOMAIN ModeOf : Tells(d)}
      BY <3>1
    <3> QED
      BY <1>1, <3>1, <3>2, <3>3 DEF MadeInv, OptionsAsASet
  <2> QED
    BY <2>1, <2>2
<1>3. /\ \A c : Tells(c)' = Tells(c) /\ Argument(c)' = Argument(c)
      /\ Used' = Used /\ Listed' = Listed /\ Shadowed' = Shadowed
      /\ \A key : UsedValue(key)' = UsedValue(key)
      /\ VerifyConfig(sections)' /\ (RecordNamed' <=> RecordNamed)
  BY <1>1, SameJob, UsedStays
<1>4. pc = "options" => OptionsSoFar'
  BY <1>1, Zenon DEF MadeInv, OptionsSoFar, Left, Taken
<1>5. (AddressFound' <=> AddressFound) /\ (PasswordFound' <=> PasswordFound)
  BY <1>1, <1>3 DEF AddressFound, PasswordFound
<1>6. (EncryptionFound' <=> EncryptionFound) /\ (UserFound' <=> UserFound) /\ (CpcFound' <=> CpcFound)
  BY <1>1, <1>3 DEF EncryptionFound, UserFound, CpcFound
<1>7. Section' = Section
  BY <1>1 DEF Section
<1>8. Sought'
  BY <1>1, <1>3 DEF MadeInv, Sought, Working
<1>9. Looked'
  BY <1>1, <1>3, <1>5, <1>6, <1>7 DEF MadeInv, Looked, Decided
<1>10. Named'
  BY <1>1, <1>3, <1>6 DEF MadeInv, Named
<1>11. DefinedIsFound <=>
         (~Tells("S") /\ sections # <<>> =>
            /\ rc = "NO_SERVER" => Listed = {}
            /\ rc = "PROGRAM_ERROR" => Shadowed
            /\ pc = "connect" => CpcFound)
  BY Zenon DEF DefinedIsFound, Listed, Shadowed, CpcFound, Id
<1>12. DefinedIsFound'
  BY <1>1, <1>3, <1>6, <1>11, DefinedNext DEF MadeInv
<1> QED
  BY <1>1, <1>2, <1>4, <1>8, <1>9, <1>10, <1>12 DEF MadeInv

LEMMA MadeStep ==
  ASSUME MadeInv, [Next]_vars
  PROVE  MadeInv'
<1>1. CASE TakeOption \/ RefuseOption \/ NoOptions \/ OptionsRead
  BY <1>1, OptionsStep, OptionsReadStep
<1>2. CASE PromptPassword \/ PromptFails
  BY <1>2, PromptStep
<1>3. CASE LookFails \/ NoFileNeeded \/ FileExists \/ NoFile
  BY <1>3, LookStep, NoFileStep
<1>4. CASE FileVanishes \/ ReadFails \/ LoadCrashes \/ Load
  BY <1>4, LoadStep
<1>5. CASE AddressGiven \/ FindServerFails \/ FindServer
  BY <1>5, AddressGivenStep, FindServerFailsStep, FindServerStep
<1>6. CASE FindPassword \/ FindEncryption
  BY <1>6, FindPasswordStep, FindEncryptionStep
<1>7. CASE UserGiven \/ FindUser
  BY <1>7, UserStep
<1>8. CASE VerifyJob
  BY <1>8, VerifyStep
<1>9. CASE Done \/ UNCHANGED vars
  BY <1>9, MadeStays DEF Done
<1> QED
  BY <1>1, <1>2, <1>3, <1>4, <1>5, <1>6, <1>7, <1>8, <1>9 DEF Next

LEMMA MadeInit ==
  ASSUME Init
  PROVE  MadeInv
<1>1. /\ pc = "options" /\ next = 1 /\ specified = {} /\ job = NoJob
      /\ sections = <<>> /\ server = 0 /\ rc = "OK"
      /\ \E i \in Input : argv = i.argv /\ files = i.files /\ home = i.home
  BY DEF Init
<1>2. /\ argv \in Seq(Option) /\ \A k \in DOMAIN argv : argv[k].opt \in WithText => argv[k].arg # NULL
      /\ DOMAIN files \subseteq {"named", "home", "etc"} /\ \A f \in DOMAIN files : files[f] \in Seq(Line)
  BY <1>1, SncapJobAssumption DEF CallOf
<1>3. CallType
  BY <1>1, <1>2 DEF CallType
<1>4. DOMAIN job = Field /\ \A t \in Text : job[t] = NULL
  BY <1>1, Naming DEF NoJob, Field
<1>5. /\ job.operation = "UNDEFINED" /\ job.mode = {} /\ job.encryption = "undefined" /\ job.timeout = -1
      /\ job.cpu_quantity = [t \in Cpu |-> 0]
  BY <1>1 DEF NoJob
<1>6. JobType
  BY <1>4, <1>5 DEF JobType, Entry
<1>7. OptionsSoFar
  <2>1. Taken = {}
    BY <1>1 DEF Taken
  <2>2. \A c \in DOMAIN TextOf : job[TextOf[c]] = NULL
    BY <1>4, Naming
  <2>3. \A c \in DOMAIN CpuOf : job.cpu_quantity[CpuOf[c]] = 0
    BY <1>5, Apart
  <2>4. job.TCR_id = NULL
    BY <1>4, Naming
  <2> QED
    BY <1>1, <1>5, <2>1, <2>2, <2>3, <2>4 DEF OptionsSoFar
<1>8. VerifyConfig(sections)
  <2>1. DOMAIN sections = {}
    BY <1>1
  <2> QED
    BY <2>1 DEF VerifyConfig
<1>9. Looked /\ Sought /\ Named
  <2>1. sections \in Seq(SectionType) /\ Len(sections) = 0
    BY <1>1
  <2> QED
    BY <1>1, <1>8, <2>1 DEF Looked, Sought, Named, Working
<1>10. ReadyIsComplete /\ OptionsAsASet /\ DefinedIsFound
  BY <1>1 DEF ReadyIsComplete, OptionsAsASet, DefinedIsFound
<1> QED
  BY <1>3, <1>6, <1>7, <1>9, <1>10 DEF MadeInv

LEMMA MadeAlways == Spec => []MadeInv
  BY MadeInit, MadeStep, PTL DEF Spec

\* Whatever is asked for and whatever the file says: the job stays a job, and one that goes to the
\* server has what its operation needs and nothing it must not have (job_verify).
THEOREM JobStaysTyped == Spec => []IInv
<1>1. MadeInv => IInv
  BY DEF MadeInv, JobType, CallType, Looked, IInv, TypeOK, Entry
<1> QED
  BY <1>1, MadeAlways, PTL

\* The options mean the same in every order, for any number of them (the handlers and
\* option_specified).
THEOREM OrderIsIrrelevant == Spec => []OptionsAsASet
<1>1. MadeInv => OptionsAsASet
  BY DEF MadeInv
<1> QED
  BY <1>1, MadeAlways, PTL

\* Whatever the command line leaves open comes from one section, for any file (job_create, the uses
\* of server).
THEOREM OneSectionDecides == Spec => []OneSection
<1>1. MadeInv => OneSection
  <2>1. MadeInv /\ pc = "connect" => Decided
    BY DEF MadeInv, Looked
  <2> QED
    BY <2>1, Zenon DEF OneSection, Decided, AddressFound, PasswordFound, EncryptionFound, UserFound, Used, UsedValue
<1> QED
  BY <1>1, MadeAlways, PTL

\* An identifier that is defined in the file is found, whatever the file (config_find_section,
\* find_CPC_id_property).
THEOREM WhatIsDefinedIsFound == Spec => []DefinedIsFound
<1>1. MadeInv => DefinedIsFound
  BY DEF MadeInv
<1> QED
  BY <1>1, MadeAlways, PTL
=============================================================================
