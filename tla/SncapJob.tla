------------------------------ MODULE SncapJob ------------------------------
(***************************************************************************)
(* How a call of sncap becomes a job: job_create and job_verify of         *)
(* sncapjob.c as main of sncap.c calls them.  A job that is accepted goes  *)
(* on to the connection, where SncapRecord begins.                         *)
(***************************************************************************)
EXTENDS SncapConfig

CONSTANTS
  Dashed,  \* texts that begin with a hyphen
  Input    \* calls: [argv, files, home]

\* An option as getopt_long returns it: "CPC" stands for the code 1 of an argument that is no
\* option, "?" and ":" for its complaints.  number is what sscanf reads.
NotANumber == -9999
Option == [opt : STRING, arg : STRING, number : Int]

\* The options whose argument is a text: getopt_long hands it over, and never NULL.
WithText == {"CPC", "f", "m", "S", "p", "u", "a", "d", "q"}

\* argv, the files that can be read with their lines, and whether HOME is set.
CallOf(i) ==
  /\ i.argv \in Seq(Option) /\ i.home \in BOOLEAN
  /\ \A k \in DOMAIN i.argv : i.argv[k].opt \in WithText => i.argv[k].arg # NULL
  /\ DOMAIN i.files \subseteq {"named", "home", "etc"} /\ \A f \in DOMAIN i.files : i.files[f] \in Seq(Line)

ASSUME SncapJobAssumption ==
  Dashed \subseteq STRING \ Proper /\ \A i \in Input : CallOf(i)

VARIABLES
  argv,      \* the options of the call, in their order
  files,     \* the configuration files that can be read
  home,      \* HOME is set
  pc,        \* where job_create, or main behind it, is
  next,      \* index of the next option
  specified, \* option_specified, as a set
  job,       \* the job
  sections,  \* config.sections
  server,    \* the section in use, 0 if none
  rc         \* what main returns

vars == <<argv, files, home, pc, next, specified, job, sections, server, rc>>

\* What the options set.
OperationOf ==
  [a |-> "ACTIVATE", d |-> "DEACTIVATE", h |-> "HELP", x |-> "LIST_CPCS", c |-> "QUERY_CPUS",
   l |-> "QUERY_LIST", q |-> "QUERY_RECORD", v |-> "VERSION"]
ModeOf == [t |-> "test", V |-> "verbose", P |-> "promptpw", n |-> "dryrun"]
CpuOf == [C |-> "ICF", F |-> "IFL", A |-> "SAP", z |-> "ZAAP", I |-> "ZIIP"]
TextOf == [CPC |-> "CPC_id", f |-> "config_file", m |-> "software_model",
           S |-> "address", p |-> "password", u |-> "username"]

Text == {TextOf[c] : c \in DOMAIN TextOf} \cup {"TCR_id"}
Cpu == {CpuOf[c] : c \in DOMAIN CpuOf}

NoJob ==
  [CPC_id |-> NULL, TCR_id |-> NULL, config_file |-> NULL, software_model |-> NULL, address |-> NULL,
   password |-> NULL, username |-> NULL, operation |-> "UNDEFINED", mode |-> {},
   encryption |-> "undefined", timeout |-> -1, cpu_quantity |-> [t \in Cpu |-> 0]]

Init ==
  /\ \E i \in Input : argv = i.argv /\ files = i.files /\ home = i.home
  /\ pc = "options" /\ next = 1 /\ specified = {} /\ job = NoJob
  /\ sections = <<>> /\ server = 0 /\ rc = "OK"

Go(from, to) == pc = from /\ pc' = to /\ UNCHANGED <<argv, home>>
Ends(from, r) == Go(from, "ended") /\ rc' = r
Keep == UNCHANGED <<files, next, specified, sections>>

(***************************************************************************)
(* The loop over the options.                                              *)
(***************************************************************************)
Given == argv[next]

\* What a handler says to its option.
HandlerRefuses(o) ==
  CASE o.opt \in {"a", "d", "m"} /\ o.arg \in Dashed -> "INVALID_OPTION_VALUE"
    [] o.opt \in DOMAIN OperationOf /\ job.operation # "UNDEFINED" -> "CONFLICTING_OPTIONS"
    [] o.opt \in DOMAIN CpuOf /\ o.number <= 0 -> "INVALID_OPTION_VALUE"
    [] o.opt = "T" /\ o.number = NotANumber -> "INVALID_OPTION_VALUE"
    [] OTHER -> "OK"

\* Mutated form: an option that was given before is taken again.
BugRefuses(o) ==
  CASE o.opt = "?" -> "UNKNOWN_OPTION" [] o.opt = ":" -> "INVALID_OPTION_VALUE" [] OTHER -> HandlerRefuses(o)

Refuses(o) ==
  CASE o.opt = "?" -> "UNKNOWN_OPTION"
    [] o.opt = ":" -> "INVALID_OPTION_VALUE"
    [] o.opt \in specified -> "DUPLICATE_OPTION"
    [] OTHER -> HandlerRefuses(o)

\* What a handler does to the job.
Handled(j, o) ==
  CASE o.opt \in DOMAIN OperationOf ->
         [j EXCEPT !.operation = OperationOf[o.opt], !.TCR_id = IF o.opt \in {"a", "d", "q"} THEN o.arg ELSE @]
    [] o.opt \in DOMAIN ModeOf -> [j EXCEPT !.mode = @ \cup {ModeOf[o.opt]}]
    [] o.opt \in DOMAIN CpuOf -> [j EXCEPT !.cpu_quantity[CpuOf[o.opt]] = o.number]
    [] o.opt \in DOMAIN TextOf -> [j EXCEPT ![TextOf[o.opt]] = o.arg]
    [] o.opt = "T" -> [j EXCEPT !.timeout = o.number]
    [] o.opt = "e" -> [j EXCEPT !.encryption = "off"]
    [] OTHER -> j

TakeOption ==
  /\ next <= Len(argv) /\ Refuses(Given) = "OK" /\ Go("options", "options")
  /\ next' = next + 1 /\ specified' = specified \cup {Given.opt} /\ job' = Handled(job, Given)
  /\ UNCHANGED <<files, sections, server, rc>>

RefuseOption ==
  /\ next <= Len(argv) /\ Refuses(Given) # "OK" /\ Ends("options", Refuses(Given))
  /\ UNCHANGED <<job, server>> /\ Keep

NoOptions == argv = <<>> /\ Ends("options", "NO_OPTIONS") /\ UNCHANGED <<job, server>> /\ Keep

OptionsRead ==
  /\ argv # <<>> /\ next > Len(argv)
  /\ Go("options", IF "promptpw" \in job.mode THEN "prompt" ELSE "look")
  /\ UNCHANGED <<job, server, rc>> /\ Keep

\* The prompt: what the user types, or what is in the buffer when nothing can be read.
Prompted == {"typed", "uninitialized"}

PromptPassword ==
  /\ job.password = NULL /\ Go("prompt", "look")
  /\ \E w \in Prompted : job' = [job EXCEPT !.password = w]
  /\ UNCHANGED <<server, rc>> /\ Keep

PromptFails ==
  /\ \/ job.password # NULL /\ Ends("prompt", "CONFLICTING_OPTIONS")
     \/ job.password = NULL /\ Ends("prompt", "PROGRAM_ERROR")       \* no terminal
  /\ UNCHANGED <<job, server>> /\ Keep

(***************************************************************************)
(* What is missing is looked up in the configuration file.                 *)
(***************************************************************************)
NeedsFile ==
  /\ job.operation \notin {"VERSION", "HELP"}
  /\ job.address = NULL \/ job.password = NULL \/ job.encryption = "undefined"

NeedsAddress == job.operation = "LIST_CPCS" /\ job.address = NULL
FileHere == FileFound(job.config_file # NULL, DOMAIN files, home)

LookFails ==
  \/ NeedsAddress /\ Ends("look", "NO_SERVER") /\ UNCHANGED <<job, server>> /\ Keep
  \/ ~NeedsAddress /\ NeedsFile /\ FileHere = "crash" /\ Go("look", "crashed") /\ UNCHANGED <<job, server, rc>> /\ Keep

NoFileNeeded == ~NeedsAddress /\ ~NeedsFile /\ Go("look", "verify") /\ UNCHANGED <<job, server, rc>> /\ Keep

\* Mutated form: nobody decides about encryption.
BugNoFile ==
  /\ ~NeedsAddress /\ NeedsFile /\ FileHere = "nowhere"
  /\ \/ job.address = NULL /\ Ends("look", "NO_SERVER")
     \/ job.address # NULL /\ job.password = NULL /\ Ends("look", "NO_PASSWORD")
     \/ job.address # NULL /\ job.password # NULL /\ Go("look", "verify") /\ UNCHANGED rc
  /\ UNCHANGED <<job, server>> /\ Keep

NoFile ==
  /\ ~NeedsAddress /\ NeedsFile /\ FileHere = "nowhere"
  /\ job' = [job EXCEPT !.encryption = "on"]
  /\ \/ job.address = NULL /\ Ends("look", "NO_SERVER")
     \/ job.address # NULL /\ job.password = NULL /\ Ends("look", "NO_PASSWORD")
     \/ job.address # NULL /\ job.password # NULL /\ Go("look", "verify") /\ UNCHANGED rc
  /\ UNCHANGED server /\ Keep

FileExists ==
  /\ ~NeedsAddress /\ NeedsFile /\ FileHere \notin {"crash", "nowhere"}
  /\ Go("look", "load") /\ UNCHANGED <<job, server, rc>> /\ Keep

\* Somebody removes the file, or takes away the right to read it, before it is opened.
FileVanishes ==
  /\ pc = "load"
  /\ \E f \in DOMAIN files : files' = [g \in DOMAIN files \ {f} |-> files[g]]
  /\ UNCHANGED <<argv, home, pc, next, specified, job, sections, server, rc>>

\* open, fstat or read fail.
ReadFails == Ends("load", "CONFIG_FILE_ERROR") /\ UNCHANGED <<job, server>> /\ Keep

LoadCrashes == FileHere = "crash" /\ Go("load", "crashed") /\ UNCHANGED <<job, server, rc>> /\ Keep

Load ==
  /\ FileHere # "crash"
  /\ LET config == IF FileHere = "nowhere" THEN [NoConfig EXCEPT !.ok = FALSE] ELSE Parsed(files[FileHere])
     IN  IF config.ok /\ VerifyConfig(config.sections)
         THEN Go("load", "server") /\ sections' = config.sections /\ UNCHANGED rc
         ELSE Ends("load", "CONFIG_FILE_ERROR") /\ UNCHANGED sections
  /\ UNCHANGED <<files, next, specified, job, server>>

AddressGiven == job.address # NULL /\ Go("server", "password") /\ UNCHANGED <<job, server, rc>> /\ Keep

FindServerFails ==
  /\ job.address = NULL
  /\ \/ job.CPC_id = NULL /\ Ends("server", "MISSING_MANDATORY_OPTION")
     \/ job.CPC_id # NULL /\ FindByCpc(sections, job.CPC_id) = 0 /\ Ends("server", "NO_SERVER")
  /\ UNCHANGED <<job, server>> /\ Keep

\* The address, and the identifier an alias stands for.
Translated(j, section) ==
  LET k == FindCpcProperty(section, j.CPC_id)
  IN  [j EXCEPT !.address = section.address,
                !.CPC_id = IF k = 0 \/ section.properties[k].alias = NULL THEN @ ELSE section.properties[k].value]

FindServer ==
  /\ job.address = NULL /\ job.CPC_id # NULL /\ server' = FindByCpc(sections, job.CPC_id) /\ server' # 0
  /\ job' = Translated(job, sections[server'])
  /\ \/ FindCpcProperty(sections[server'], job.CPC_id) = 0 /\ Ends("server", "PROGRAM_ERROR")
     \/ FindCpcProperty(sections[server'], job.CPC_id) # 0 /\ Go("server", "password") /\ UNCHANGED rc
  /\ Keep

\* Mutated form: the address is looked up again although the section is known.
BugSection == FindByAddress(sections, job.address)

\* The section of the CPC, or else the first one with the address.
Section == IF server # 0 THEN server ELSE FindByAddress(sections, job.address)

Value(key) == IF Section = 0 THEN NULL ELSE ValueOf(sections[Section], key)

\* Mutated form: the password of the file goes before the one of the command line.
BugFindPassword ==
  /\ job' = [job EXCEPT !.password = IF Value("password") # NULL THEN Value("password") ELSE @]
  /\ server' = Section
  /\ \/ job'.password # NULL /\ Go("password", "encryption") /\ UNCHANGED rc
     \/ job'.password = NULL /\ Ends("password", "NO_PASSWORD")
  /\ Keep

FindPassword ==
  /\ IF job.password # NULL THEN UNCHANGED <<job, server>>
     ELSE server' = Section /\ job' = [job EXCEPT !.password = Value("password")]
  /\ \/ job'.password # NULL /\ Go("password", "encryption") /\ UNCHANGED rc
     \/ job'.password = NULL /\ Ends("password", "NO_PASSWORD")
  /\ Keep

FindEncryption ==
  \/ /\ job.encryption # "undefined" /\ Go("encryption", "user") /\ UNCHANGED <<job, server, rc>> /\ Keep
  \/ /\ job.encryption = "undefined" /\ Value("encryption") \in {NULL, "yes", "no"} /\ Go("encryption", "user")
     /\ job' = [job EXCEPT !.encryption = IF Value("encryption") = "no" THEN "off" ELSE "on"]
     /\ server' = Section /\ UNCHANGED rc /\ Keep
  \/ /\ job.encryption = "undefined" /\ Value("encryption") \notin {NULL, "yes", "no"}
     /\ Ends("encryption", "WRONG_ENC") /\ server' = Section /\ UNCHANGED job /\ Keep

UserGiven == job.username # NULL /\ Go("user", "verify") /\ UNCHANGED <<job, server, rc>> /\ Keep

FindUser ==
  /\ job.username = NULL /\ server' = Section
  /\ IF Section = 0 THEN Ends("user", "NO_USERNAME") /\ UNCHANGED job
     ELSE CASE Value("user") # NULL /\ job.encryption = "off" -> Ends("user", "USERNAME_ENC_OFF") /\ UNCHANGED job
            [] Value("user") = NULL /\ job.encryption = "on" -> Ends("user", "NO_USERNAME") /\ UNCHANGED job
            [] OTHER -> Go("user", "verify") /\ job' = [job EXCEPT !.username = Value("user")] /\ UNCHANGED rc
  /\ Keep

(***************************************************************************)
(* job_verify.                                                             *)
(***************************************************************************)
First(verdicts) == LET k == SelectInSeq(verdicts, LAMBDA v : v # "OK") IN IF k = 0 THEN "OK" ELSE verdicts[k]
Check(good, code) == IF good THEN "OK" ELSE code

ProcInfo(j) == \E t \in Cpu : j.cpu_quantity[t] > 0

VerifyConnection(j) ==
  First(<< Check(j.address \notin {NULL, ""}, "NO_SERVER"),
           Check(j.password # NULL, "NO_PASSWORD"),
           Check(j.username # NULL \/ j.encryption = "off", "NO_USERNAME"),
           Check(j.username = NULL \/ j.encryption # "off", "USERNAME_ENC_OFF"),
           Check(j.timeout >= -1, "INVALID_OPTION_VALUE") >>)

VerifyCpc(j) ==
  First(<< Check(j.CPC_id # NULL, "MISSING_MANDATORY_OPTION"), Check(j.CPC_id \in Proper, "INVALID_OPTION_VALUE") >>)

VerifyAction(j) == First(<< VerifyCpc(j), Check(j.TCR_id \in Proper, "INVALID_OPTION_VALUE"), VerifyConnection(j) >>)

\* What a query, and a list, must not be given.
VerifyReads(j) == Check(~ProcInfo(j) /\ j.mode \cap {"test", "dryrun"} = {}, "CONFLICTING_OPTIONS")

VerifyQuery(j) == First(<< VerifyCpc(j), VerifyConnection(j), VerifyReads(j) >>)

VerifyAux(j) ==
  Check(/\ \A t \in Text : j[t] = NULL
        /\ "verbose" \notin j.mode /\ j.encryption # "off" /\ j.timeout < 0 /\ ~ProcInfo(j), "CONFLICTING_OPTIONS")

Verify(j) ==
  CASE j.operation = "ACTIVATE" ->
         First(<< Check(j.software_model # NULL \/ ProcInfo(j), "MISSING_MANDATORY_OPTION"), VerifyAction(j) >>)
    [] j.operation = "DEACTIVATE" -> First(<< VerifyAction(j), Check("test" \notin j.mode, "CONFLICTING_OPTIONS") >>)
    [] j.operation = "LIST_CPCS" ->
         First(<< Check(j.CPC_id = NULL, "CONFLICTING_OPTIONS"), VerifyReads(j), VerifyConnection(j) >>)
    [] j.operation = "QUERY_CPUS" -> VerifyQuery(j)
    [] j.operation = "QUERY_LIST" -> First(<< VerifyQuery(j), Check(j.TCR_id \notin Proper, "PROGRAM_ERROR") >>)
    [] j.operation = "QUERY_RECORD" -> First(<< Check(j.TCR_id \in Proper, "INVALID_OPTION_VALUE"), VerifyQuery(j) >>)
    [] j.operation \in {"HELP", "VERSION"} -> VerifyAux(j)
    [] OTHER -> "OPERATION_MISSED"

VerifyJob ==
  /\ rc' = Verify(job)
  /\ Go("verify", IF rc' = "OK" /\ job.operation \notin {"HELP", "VERSION"} THEN "connect" ELSE "ended")
  /\ UNCHANGED <<job, server>> /\ Keep

Done == pc \in {"connect", "ended", "crashed"} /\ UNCHANGED vars

Next ==
  \/ TakeOption \/ RefuseOption \/ NoOptions \/ OptionsRead \/ PromptPassword \/ PromptFails
  \/ LookFails \/ NoFileNeeded \/ NoFile \/ FileExists \/ FileVanishes \/ ReadFails \/ LoadCrashes \/ Load
  \/ AddressGiven \/ FindServerFails \/ FindServer \/ FindPassword \/ FindEncryption
  \/ UserGiven \/ FindUser \/ VerifyJob \/ Done

Spec == Init /\ [][Next]_vars

-----------------------------------------------------------------------------
(* Properties. *)

TypeOK ==
  /\ pc \in {"options", "prompt", "look", "load", "server", "password", "encryption", "user", "verify",
             "connect", "ended", "crashed"}
  /\ next \in 1..(Len(argv) + 1)
  /\ \A t \in Text : job[t] \in STRING \cup {NULL} \cup Prompted
  /\ job.operation \in {OperationOf[c] : c \in DOMAIN OperationOf} \cup {"UNDEFINED"}
  /\ job.mode \subseteq {ModeOf[c] : c \in DOMAIN ModeOf}
  /\ job.encryption \in {"undefined", "on", "off"} /\ job.timeout \in Int /\ job.cpu_quantity \in [Cpu -> Nat]
  /\ server \in 0..Len(sections)

\* What options say, whatever their order.
Tells(c) == \E k \in DOMAIN argv : argv[k].opt = c
The(c) == argv[CHOOSE k \in DOMAIN argv : argv[k].opt = c]
Argument(c) == IF Tells(c) THEN The(c).arg ELSE NULL
Operations == {k \in DOMAIN argv : argv[k].opt \in DOMAIN OperationOf}

\* A command line that is taken means the same in every order of its options: none of them is given
\* twice, one operation at most, and each of them is in the job (handlers, option_specified).
OptionsAsASet ==
  pc \in {"prompt", "look"} =>
    /\ \A k, n \in DOMAIN argv : argv[k].opt = argv[n].opt => k = n
    /\ \A k, n \in Operations : k = n
    /\ \A c \in DOMAIN TextOf \ {"p"} : job[TextOf[c]] = Argument(c)
    /\ "p" \in specified \/ "P" \notin specified => job.password = Argument("p")
    /\ \A c \in DOMAIN OperationOf : Tells(c) <=> job.operation = OperationOf[c]
    /\ job.TCR_id = IF \E c \in {"a", "d", "q"} : Tells(c) THEN Argument(CHOOSE c \in {"a", "d", "q"} : Tells(c)) ELSE NULL
    /\ job.mode = {ModeOf[c] : c \in {d \in DOMAIN ModeOf : Tells(d)}}
    /\ \A c \in DOMAIN CpuOf : job.cpu_quantity[CpuOf[c]] = IF Tells(c) THEN The(c).number ELSE 0
    /\ job.encryption = (IF Tells("e") THEN "off" ELSE "undefined")
    /\ job.timeout = IF Tells("T") THEN The("T").number ELSE -1

\* A job that goes to the server has what its operation needs and nothing it must not have; somebody
\* has decided about encryption, and there is a user name exactly when it is on (job_verify).
ReadyIsComplete ==
  pc = "connect" =>
    /\ job.CPC_id \in IF job.operation = "LIST_CPCS" THEN {NULL} ELSE Proper
    /\ job.operation \in {"ACTIVATE", "DEACTIVATE", "QUERY_RECORD"} => job.TCR_id \in Proper
    /\ job.operation \in {"LIST_CPCS", "QUERY_CPUS", "QUERY_LIST"} => job.TCR_id \notin Proper
    /\ "test" \in job.mode => job.operation = "ACTIVATE"
    /\ "dryrun" \in job.mode => job.operation \in {"ACTIVATE", "DEACTIVATE"}
    /\ job.address # NULL /\ job.password # NULL
    /\ job.encryption = IF job.username = NULL THEN "off" ELSE "on"

\* The type invariant of the job while it is made (struct sncap_job), together with
\* ReadyIsComplete.
IInv == TypeOK /\ ReadyIsComplete

\* What the command line leaves open comes from one section of the file: the one whose CPC identifier
\* is asked for, or the first one with the address that is given (job_create, the uses of server).
OneSection ==
  pc = "connect" =>
    LET s == IF Tells("S") THEN FindByAddress(sections, Argument("S")) ELSE FindByCpc(sections, Argument("CPC"))
        Of(key) == IF s = 0 THEN NULL ELSE ValueOf(sections[s], key)
    IN  /\ ~Tells("S") => s # 0 /\ job.address = sections[s].address
        /\ ~Tells("p") /\ ~Tells("P") => job.password = Of("password")
        /\ ~Tells("e") => job.encryption = (IF Of("encryption") = "no" THEN "off" ELSE "on")
        /\ ~Tells("u") => job.username = (IF job.encryption = "on" THEN Of("user") ELSE NULL)

\* An identifier that the file defines, as itself or as an alias, is found, and what goes to the server
\* is the identifier and not its alias, unless another identifier with an alias is the beginning of it
\* (config_find_section, value_is_equal, find_CPC_id_property).
DefinedIsFound ==
  LET id == Argument("CPC")
      Listed == {p \in UNION {CpcIds(sections[n]) : n \in DOMAIN sections} : Names(p, id)}
      Shadowed == \E n \in DOMAIN sections : \E p \in CpcIds(sections[n]) :
                    p.alias # NULL /\ p.value # id /\ <<p.value, id>> \in Begins
  IN  ~Tells("S") /\ sections # <<>> =>
        /\ rc = "NO_SERVER" => Listed = {}
        /\ rc = "PROGRAM_ERROR" => Shadowed
        /\ pc = "connect" => \E p \in Listed : job.CPC_id = p.value

\* As long as no error is found, what was decided stays: of the command line and the file only the
\* former speaks about what both name; only an alias is replaced (job_create, its checks for NULL).
NothingOverwritten ==
  [][ rc' = "OK" =>
        /\ \A t \in Text \ {"CPC_id"} : job[t] # NULL => job'[t] = job[t]
        /\ job.CPC_id \in {NULL, job'.CPC_id} \/ (pc = "server" /\ job.address = NULL)
        /\ job.encryption # "undefined" => job'.encryption = job.encryption
        /\ job.operation # "UNDEFINED" => job'.operation = job.operation ]_vars
=============================================================================
