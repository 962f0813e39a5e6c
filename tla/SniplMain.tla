----------------------------- MODULE SniplMain -----------------------------
(***************************************************************************)
(* One call of snipl from its options to the commands it gives: main,      *)
(* parse_command_input and configfile_handling of snipl.c, with the        *)
(* configuration of Snconfig and the rules of SniplOptions.  How an        *)
(* operation goes is left to SniplCommand.                                 *)
(***************************************************************************)
EXTENDS Snconfig, SniplOptions

CONSTANT Input   \* pairs of a call and a file

\* A call: the options in their order, the images behind them, which of the configuration
\* files can be read, and whether HOME is set.
Call == [argv : Seq([opt : STRING, value : STRING, number : Int]), names : Seq(Name),
         readable : SUBSET {"named", "home", "etc"}, home : BOOLEAN]

ASSUME SniplMainAssumption == \A i \in Input : i[1] \in Call /\ i[2] \in File

\* getopt hands an option that takes an argument a string, never NULL, which is None here.
WithArgument == {"u", "p", "z", "V", "L", "f", "N", "A", "R", "W", "I", "E", "O", "M"}

ASSUME ArgumentAssumption ==
  \A i \in Input : \A n \in DOMAIN i[1].argv : i[1].argv[n].opt \in WithArgument => i[1].argv[n].value # None

VARIABLES
  call,       \* the call
  pc,         \* where main is
  option,     \* index of the next option
  specified,  \* option_specified, as a set
  code,       \* what main will return
  parms,      \* server->parms
  server,     \* server->address, the attributes of the server, server->_images
  section,    \* the section of the file that was used, 0 if none
  listed,     \* the images that were listed
  commands    \* the commands that were given, with their operands

mainVars == <<call, pc, option, specified, code, parms, server, section, listed, commands>>
vars == <<confVars, mainVars>>

Init ==
  /\ \E i \in Input : call = i[1] /\ file = i[2]
  /\ ConfInit
  /\ pc = "options" /\ option = 1 /\ specified = {} /\ code = "0" /\ parms = NoParms
  /\ server = [NewServer(None) EXCEPT !.images = <<>>]
  /\ section = 0 /\ listed = <<>> /\ commands = <<>>

Exit(r) == code' = r /\ pc' = "done"

(***************************************************************************)
(* parse_command_input.                                                    *)
(***************************************************************************)
Given == call.argv[option]

\* The options that say something of the server.
Told(s, c, v) ==
  CASE c = "u" -> [s EXCEPT !.attr["user"] = v]
    [] c = "p" -> [s EXCEPT !.attr["password"] = v]
    [] c = "e" -> [s EXCEPT !.attr["encryption"] = "no"]
    [] c = "z" -> [s EXCEPT !.attr["port"] = v]
    [] c = "V" -> [s EXCEPT !.address = v, !.attr["type"] = "VM"]
    [] c = "L" -> [s EXCEPT !.address = v, !.attr["type"] = "LPAR"]
    [] OTHER -> s

Option ==
  /\ pc = "options" /\ option <= Len(call.argv) /\ Given.opt \notin {"h", "v", "?"}
  /\ option' = option + 1
  /\ specified' = specified \cup {Given.opt}
  /\ parms' = Set(parms, Given.opt, Given.value, Given.number)
  /\ server' = Told(server, Given.opt, Given.value)
  /\ code' = IF Bad(Given.opt, Given.value, Given.number) THEN "INVALID_PARAMETER_VALUE"
             ELSE IF Given.opt \in specified THEN "DUPLICATE_OPTION" ELSE code
  /\ UNCHANGED <<confVars, call, pc, section, listed, commands>>

\* Help and version end the program with 0, an unknown option with its code.
OptionEnds ==
  /\ pc = "options" /\ option <= Len(call.argv) /\ Given.opt \in {"h", "v", "?"}
  /\ Exit(IF Given.opt = "?" THEN "UNKNOWN_PARAMETER" ELSE "0")
  /\ UNCHANGED <<confVars, call, option, specified, parms, server, section, listed, commands>>

\* Every further image becomes the head of the list; what main looks at before it goes on.
Pushed(names) == [n \in 1..Len(names) |-> Replaced(names[Len(names) + 1 - n])]

OptionsRead ==
  /\ pc = "options" /\ option > Len(call.argv)
  /\ server' = [server EXCEPT !.images = Pushed(call.names),
                              !.attr["password"] = IF "P" \in specified THEN "prompted" ELSE @]
  /\ LET ret1 == IF ConflictIn(specified) THEN "CONFLICTING_OPTIONS" ELSE code
     IN  CASE call.names = <<>> /\ parms.image_op # "LIST" -> Exit("MISSING_IMAGENAME")
           [] parms.image_op = "DIALOG" /\ Len(call.names) > 1 -> Exit("MORE_THAN_ONE_IMAGE")
           [] OTHER -> IF ret1 # "0" THEN Exit(ret1) ELSE pc' = "config" /\ UNCHANGED code
  /\ UNCHANGED <<confVars, call, option, specified, parms, section, listed, commands>>

(***************************************************************************)
(* configfile_handling.                                                    *)
(***************************************************************************)
ConfigFile ==
  /\ pc = "config"
  /\ FindFile("f" \in specified, call.readable, call.home) \/ Load
  /\ UNCHANGED mainVars

User == server.attr["user"]

\* find_server_in_conf_with_address.
WithAddress ==
  LET at == {k \in DOMAIN servers : servers[k].address = server.address}
      isLpar(k) == servers[k].attr["type"] = "LPAR"
      k1 == FirstOf(at)
      k2 == FirstOf(at \ {k1})
  IN  IF User # None THEN FirstOf({k \in at : isLpar(k) \/ servers[k].attr["user"] = User})
      ELSE IF k1 # 0 /\ ~isLpar(k1) /\ k2 # 0 /\ isLpar(k2) THEN k2
      ELSE k1

\* find_server_in_conf_with_image: two sections at one address are too many, two at
\* different ones are not.
WithImage ==
  LET k1 == FindNextServer(server.images[1], User, 0)
      k2 == FindNextServer(server.images[1], User, k1)
  IN  IF k1 = 0 \/ (k2 # 0 /\ servers[k1].address = servers[k2].address) THEN 0
      ELSE IF servers[k1].attr["type"] \notin {"VM", "LPAR"} THEN 0
      ELSE k1

WithBoth(after) == FindServerWithAddress(server.address, server.images[1], User, after)

\* Two sections for an image at one address: serv is set to NULL and then used.
Dereferenced == server.images # <<>> /\ server.address # None /\ WithBoth(0) # 0 /\ WithBoth(WithBoth(0)) # 0

Candidate ==
  CASE server.images # <<>> /\ server.address # None -> WithBoth(0)
    [] server.images # <<>> /\ server.address = None -> WithImage
    [] server.images = <<>> /\ server.address # None -> WithAddress
    [] OTHER -> 0

Usable(k) ==
  IF k # 0 /\ server.address # None /\ servers[k].attr["type"] # server.attr["type"] THEN 0 ELSE k

\* alias_handling: the name that was found is compared with the aliases that follow.
Resolved(name, images) ==
  LET found[n \in 0 .. Len(images)] ==
        IF n = 0 THEN name
        ELSE IF found[n - 1] = images[n].alias THEN images[n].name ELSE found[n - 1]
  IN  found[Len(images)]

\* Mutated form: what the file says wins.
BugMerged(s) ==
  [k \in Attribute |-> IF s.attr[k] # None THEN s.attr[k] ELSE server.attr[k]]

Merged(s) ==
  [k \in Attribute |-> IF server.attr[k] # None THEN server.attr[k] ELSE s.attr[k]]

\* The names of the images of a section.
NamesOf(s) == [n \in DOMAIN s.images |-> s.images[n].name]

\* Mutated form: an alias is kept.
BugUsed(s) ==
  [address |-> s.address, attr |-> Merged(s),
   images |-> IF Merged(s)["type"] = "VM" /\ parms.image_op = "LIST" THEN NamesOf(s) ELSE server.images]

\* What becomes of the server with the section s: the images of a z/VM system are listed
\* from the file.
Used(s) ==
  [address |-> s.address, attr |-> Merged(s),
   images |-> IF Merged(s)["type"] = "VM" /\ parms.image_op = "LIST" THEN NamesOf(s)
              ELSE [n \in DOMAIN server.images |-> Resolved(server.images[n], s.images)]]

NoSection ==
  IF server.attr["type"] = "VM" /\ parms.image_op = "LIST" THEN [server EXCEPT !.images = <<>>] ELSE server

UsesFile == problem_class = "OK"

Configured ==
  /\ pc = "config" /\ phase = "loaded" /\ location # "crash"
  /\ ~(location # "nowhere" /\ UsesFile /\ Dereferenced)
  /\ pc' = "main"
  /\ IF location = "nowhere" \/ ~UsesFile THEN UNCHANGED <<section, server>>
     ELSE /\ section' = Usable(Candidate)
          /\ server' = IF section' = 0 THEN NoSection ELSE Used(servers[section'])
  /\ UNCHANGED <<confVars, call, option, specified, code, parms, listed, commands>>

Crash ==
  /\ pc = "config" /\ phase = "loaded"
  /\ location = "crash" \/ (location # "nowhere" /\ UsesFile /\ Dereferenced)
  /\ Exit("crash")
  /\ UNCHANGED <<confVars, call, option, specified, parms, server, section, listed, commands>>

(***************************************************************************)
(* The rest of main, and command_processing up to the login.               *)
(***************************************************************************)
NoFile == location = "nowhere"

MainObjections ==
  << <<server.address = None, "MISSING_SERVER">>,
     <<parms.image_op = "OPUNKNOWN", "NO_COMMAND">>,
     <<parms.image_op = "LIST" /\ NoFile /\ (server.attr["type"] = "VM" \/ server.images # <<>>),
       "CONFLICTING_OPTIONS">> >>

Main ==
  /\ pc = "main"
  /\ LET r == FirstObjection(MainObjections)
     IN  IF r # "0" THEN Exit(r) ELSE pc' = "check" /\ UNCHANGED code
  /\ server' = [server EXCEPT !.attr["encryption"] = IF @ = None THEN "yes" ELSE @]
  /\ UNCHANGED <<confVars, call, option, specified, parms, section, listed, commands>>

ListVm ==
  /\ pc = "check" /\ parms.image_op = "LIST" /\ server.attr["type"] = "VM"
  /\ listed' = server.images
  /\ Exit("0")
  /\ UNCHANGED <<confVars, call, option, specified, parms, server, section, commands>>

Objection ==
  LET has(k) == server.attr[k] # None
  IN  IF server.attr["type"] = "VM" THEN FirstObjection(VmObjections(parms, has("user"), has("password")))
      ELSE LastObjection(LparObjections(parms, has("user"), has("password"), has("port"),
                                        server.attr["encryption"] = "yes", Len(server.images) > 1,
                                        \E n \in DOMAIN server.images : server.images[n].stem = "too long"))

Default(p) ==
  IF server.attr["type"] = "VM" /\ p.force = Undefined /\ p.shutdown_time = 0
  THEN [p EXCEPT !.shutdown_time = 300, !.timeout = IF @ = 0 THEN 60000 ELSE @]
  ELSE [p EXCEPT !.timeout = IF @ = 0 THEN 60000 ELSE @]

PrepareCheck ==
  /\ pc = "check" /\ ~(parms.image_op = "LIST" /\ server.attr["type"] = "VM")
  /\ IF Objection # "0" THEN Exit(Objection) /\ UNCHANGED parms
     ELSE pc' = "login" /\ parms' = Default(parms) /\ UNCHANGED code
  /\ UNCHANGED <<confVars, call, option, specified, server, section, listed, commands>>

(***************************************************************************)
(* The commands.  A system that is reached through the RPC interface has   *)
(* the type VM5; only the names for the type VM get their hyphen back.     *)
(***************************************************************************)
Unreplaced(n) == IF n.sep = "newline" THEN [n EXCEPT !.sep = "hyphen"] ELSE n

Login ==
  /\ pc = "login"
  /\ \E type \in IF server.attr["type"] = "VM" THEN {"VM", "VM5"} ELSE {"LPAR"} :
       server' = [server EXCEPT !.attr["type"] = type,
                                !.images = IF type = "VM" THEN [n \in DOMAIN @ |-> Unreplaced(@[n])] ELSE @]
  /\ pc' = "operate"
  /\ UNCHANGED <<confVars, call, option, specified, code, parms, section, listed, commands>>

ListLpar ==
  /\ pc = "operate" /\ parms.image_op = "LIST"
  /\ Exit("0")
  /\ UNCHANGED <<confVars, call, option, specified, parms, server, section, listed, commands>>

Operate ==
  /\ pc = "operate" /\ parms.image_op # "LIST" /\ Len(commands) < Len(server.images)
  /\ parms' = Operated(parms)
  /\ commands' = Append(commands, [image |-> server.images[Len(commands) + 1], image_op |-> parms.image_op,
                                   operands |-> Operands(parms')])
  /\ UNCHANGED <<confVars, call, pc, option, specified, code, server, section, listed>>

Ends ==
  /\ pc = "operate" /\ parms.image_op # "LIST" /\ Len(commands) = Len(server.images)
  /\ Exit("0")
  /\ UNCHANGED <<confVars, call, option, specified, parms, server, section, listed, commands>>

Snipl ==
  \/ Option \/ OptionEnds \/ OptionsRead \/ ConfigFile \/ Configured \/ Crash \/ Main \/ ListVm \/ PrepareCheck
  \/ Login \/ ListLpar \/ Operate \/ Ends

Done == pc = "done" /\ UNCHANGED vars

Next == Snipl \/ Done

Spec == Init /\ [][Next]_vars
(***************************************************************************)
(* Properties.                                                             *)
(***************************************************************************)
\* What an option says, None if it was not given.
Said(c) ==
  LET at == {n \in DOMAIN call.argv : call.argv[n].opt = c}
  IN  IF at = {} THEN None ELSE call.argv[Max(at)].value

SaidNumber(c, default) ==
  LET at == {n \in DOMAIN call.argv : call.argv[n].opt = c}
  IN  IF at = {} THEN default ELSE call.argv[Max(at)].number

SaidAddress == IF Said("V") # None THEN Said("V") ELSE Said("L")

SaidOf(k) ==
  CASE k = "user" -> Said("u")
    [] k = "password" -> IF "P" \in specified THEN "prompted" ELSE Said("p")
    [] k = "type" -> IF Said("V") # None THEN "VM" ELSE IF Said("L") # None THEN "LPAR" ELSE None
    [] k = "port" -> Said("z")
    [] k = "encryption" -> IF "e" \in specified THEN "no" ELSE None
    [] OTHER -> None

\* The image that selects a section: the one behind all others on the command line.
Selecting == Replaced(call.names[Len(call.names)])

\* Type invariant: indices stay in range, every exit has a code, nothing is given to a server
\* before its type is known.
TypeOK ==
  /\ phase \in {"find", "parse", "unique", "loaded"} /\ location \in {"named", "home", "etc", "nowhere", "crash"}
  /\ lineno \in 1 .. Len(file) + 1 /\ reported \subseteq DOMAIN file
  /\ ret \in {"OK", "WARNING", "FATAL"} /\ problem_class \in {"OK", "WARNING", "FATAL"}
  /\ serv1 \in 1 .. Len(servers) + 1 /\ serv2 \in 1 .. Len(servers) + 2
  /\ pc \in {"options", "config", "main", "check", "login", "operate", "done"}
  /\ option \in 1 .. Len(call.argv) + 1 /\ section \in 0 .. Len(servers)
  /\ pc \in {"check", "login", "operate"} => server.attr["type"] \in {"VM", "VM5", "LPAR"}
  /\ Len(commands) <= Len(server.images)

\* The section that is used is one the command line describes: its address, its type, its user
\* unless one of the two leaves that open, its image (configfile_handling's four searches).
\* LPAR servers searched by their address alone are taken whatever user they have.
SectionFits ==
  section # 0 =>
    LET s == servers[section]
    IN  /\ problem_class = "OK"
        /\ SaidAddress # None => s.address = SaidAddress /\ s.attr["type"] = SaidOf("type")
        /\ call.names # <<>> => Defines(s, Selecting)
        /\ \/ Said("u") = None \/ s.attr["user"] \in {None, Said("u")}
           \/ call.names = <<>> /\ s.attr["type"] = "LPAR"

\* The sections that image, address and user of the command line leave.
Fitting ==
  {k \in DOMAIN servers : /\ Defines(servers[k], Selecting)
                          /\ SaidAddress \in {None, servers[k].address}
                          /\ Said("u") = None \/ servers[k].attr["user"] \in {None, Said("u")}}

\* When image, address and user leave one section, of the right type, it is the one that is used:
\* none of the early ends of the searches misses it.
SoleFitIsUsed ==
  \A k \in DOMAIN servers :
    pc = "main" /\ location # "nowhere" /\ problem_class = "OK" /\ call.names # <<>> /\ Fitting = {k}
      /\ servers[k].attr["type"] \in (IF SaidAddress = None THEN {"VM", "LPAR"} ELSE {SaidOf("type")})
    => section = k

\* The section that snipl works with is the right one: it fits, and the only one that fits is not
\* missed by any of the four searches (find_server_in_conf_with_image and the others).
RightSection == SectionFits /\ SoleFitIsUsed

\* snipl.8:168 and 182: what the command line says overrides the file, what it leaves open
\* comes from the section, and from nowhere else.
CommandLineWins ==
  pc = "login" =>
    \A k \in Attribute :
      LET inFile == IF section = 0 THEN None ELSE servers[section].attr[k]
      IN  server.attr[k] = IF SaidOf(k) # None THEN SaidOf(k) ELSE IF inFile # None THEN inFile
                           ELSE IF k = "encryption" THEN "yes" ELSE None

\* No alias of a section is the name or the alias of another image of it.
AliasesApart(s) ==
  \A m, n \in DOMAIN s.images : m # n => s.images[m].alias \notin {s.images[n].name, s.images[n].alias}

\* An alias stands for the image it was defined for, a name for itself: also for images the
\* section was not selected by (alias_handling goes through all of them).
AliasMeansImage ==
  pc = "login" /\ section # 0 /\ AliasesApart(servers[section]) =>
    LET s == servers[section]
    IN  \A n \in DOMAIN server.images :
          LET given == Replaced(call.names[Len(call.names) + 1 - n])
          IN  IF \E m \in DOMAIN s.images : s.images[m].alias = given
              THEN \E m \in DOMAIN s.images : s.images[m].alias = given /\ s.images[m].name = server.images[n]
              ELSE server.images[n] = given

\* The rules agree: an operation is given to a server of a type only if the options it was given
\* with may stand beside the option for that type, also when the type comes from the file.
\* Two tables in two source files say so: invalid_option_combinations and the checks of the
\* libraries.  Option X is the exception (TypeDoesNotMatter).
OperatedMeansAllowed ==
  commands # <<>> =>
    /\ specified \cap (IF server.attr["type"] = "LPAR" THEN Excluded["L"] \ {"X"} ELSE Excluded["V"]) = {}
    /\ Cardinality(specified \cap DOMAIN Operation) = 1

\* Every command carries what the command line said, or the default where it said nothing, for
\* the second image as for the first (the operations write their defaults into server->parms).
OperandsAsGiven ==
  \A n \in DOMAIN commands :
    commands[n].operands =
      CASE commands[n].image_op = "ACTIVATE" -> <<Said("N")>>
        [] commands[n].image_op = "LOAD" ->
             <<Said("A"), Said("R"), IF {"C", "S"} \cap specified # {} THEN 0 ELSE 1,
               SaidNumber("T", 60), IF "S" \in specified THEN 1 ELSE 0>>
        [] commands[n].image_op \in Scsi ->
             <<Said("A"), Said("R"), Padded(Said("W")), Padded(Said("I")), SaidNumber("B", Undefined),
               Said("O"), Padded(Said("E"))>>
        [] OTHER -> <<>>

\* Every command that is given is one the rules allow, and says what the command line said
\* (the checks of main and of the libraries, and the operations behind them).
CommandsAsTold == OperatedMeansAllowed /\ OperandsAsGiven

\* A z/VM system that answers on its socket gets the names as they were typed, unless they
\* are aliases (every hyphen is made a newline and back again).
NamedAsGiven ==
  server.attr["type"] = "VM" /\ section = 0 =>
    \A n \in DOMAIN commands : commands[n].image = call.names[Len(call.names) + 1 - n]

\* Names are kept on their way from the command line to the server: as typed where no alias is
\* known, and as the section defines them where one is.
NamesAreKept == AliasMeansImage /\ NamedAsGiven

\* The type invariant, which bounds the walks over lines, pairs of servers and options, together
\* with AcceptedMeansUnique of the configuration (snipl_configuration_from_file and main).
IInv == TypeOK /\ AcceptedMeansUnique

(***************************************************************************)
(* Expectations that do not hold: see the README.                          *)
(***************************************************************************)
\* snipl.8:163: the first of several images selects the section.
FirstSelects == section # 0 /\ call.names # <<>> => Defines(servers[section], Replaced(call.names[1]))

\* snipl.8:166: if the specifications map to several sections, the first one is used.
NeverCrashes == code # "crash"

\* snipl.8:351: the list of a z/VM system is the one of the configuration file.
ListedIsDefined == listed # <<>> => section # 0 /\ listed = NamesOf(servers[section])

\* sniplapi.c:217: options for SCSI devices only with scsiload and scsidump.
ScsiOptionsNeedScsi ==
  commands # <<>> /\ specified \cap {"W", "I", "B", "O", "E"} # {} => parms.image_op \in Scsi

\* An option is refused for a type of server wherever the type comes from.
TypeDoesNotMatter == commands # <<>> /\ server.attr["type"] = "LPAR" => "X" \notin specified

\* A system that is reached through the RPC interface gets the names as they were typed.
RpcNamedAsGiven ==
  server.attr["type"] = "VM5" /\ section = 0 =>
    \A n \in DOMAIN commands : commands[n].image = call.names[Len(call.names) + 1 - n]
=============================================================================
