------------------------------ MODULE Snconfig ------------------------------
(***************************************************************************)
(* The configuration file of snipl (snconfig.c): which file is read, its   *)
(* lines one by one with the section they belong to, the check that its    *)
(* systems are unique, and the search for a section.  Values are compared  *)
(* without regard to case in the code: equal here means equal in that      *)
(* sense.                                                                  *)
(***************************************************************************)
EXTENDS Integers, Sequences, FiniteSetsExt

None == ""              \* a pointer that is NULL, a number that is UNDEFINED
Improper == "improper"  \* a value that conf_set_attribute refuses

Attribute == {"user", "password", "type", "port", "encryption", "sslfingerprint"}

\* Those whose value is looked at when the line is parsed.
Checked == {"user", "type", "port", "encryption"}

\* A name is "stem", or it has one hyphen, which is either still there or replaced by a
\* newline, the character between system and LPAR on the SE.
Name == [stem : STRING, sep : {"none", "hyphen", "newline"}]

\* What stands behind "image =": a name, and an alias that a slash separates from it.
ImageValue == [name : Name, alias : Name, split : BOOLEAN]

\* A key has a value: the expression of conf_parse_line wants at least one character of it.
Line ==
  [key : Attribute \cup {"server"}, value : STRING \ {None}] \cup [key : {"image"}, value : ImageValue]
    \cup [key : {"cpcid", "unknown", "syntax", "blank"}]

File == Seq(Line)

VARIABLES
  location,       \* where the file that is read was found, "nowhere" if none was, or "crash"
  file,           \* what is in it
  phase,          \* what snipl_configuration_from_file does: "find", "parse", "unique" or "loaded"
  lineno,         \* conf_parse_buffer's lineno
  ret,            \* its ret
  reported,       \* the lines a message of conf->problem names
  problem_class,  \* conf->problem_class
  servers,        \* conf->_servers; the last one is conf->_last
  serv1, serv2    \* check_systems_unique's servers, as indices

confVars == <<location, file, phase, lineno, ret, reported, problem_class, servers, serv1, serv2>>

\* The file is left open: Init of SniplMain has it.
ConfInit ==
  /\ location = "nowhere" /\ phase = "find" /\ lineno = 1
  /\ ret = "OK" /\ reported = {} /\ problem_class = "OK" /\ servers = <<>>
  /\ serv1 = 1 /\ serv2 = 2

(***************************************************************************)
(* get_config_file_name: the file of the command line if it can be read,   *)
(* else the one in the home directory, else the one in /etc.               *)
(***************************************************************************)
Found(named, readable, home) ==
  CASE named /\ "named" \in readable -> "named"
    [] ~home -> "crash"                            \* strlen(getenv("HOME"))
    [] "home" \in readable -> "home"
    [] "etc" \in readable -> "etc"
    [] OTHER -> "nowhere"

FindFile(named, readable, home) ==
  /\ phase = "find"
  /\ location' = Found(named, readable, home)
  /\ phase' = IF location' \in {"nowhere", "crash"} THEN "loaded" ELSE "parse"
  /\ UNCHANGED <<file, lineno, ret, reported, problem_class, servers, serv1, serv2>>

(***************************************************************************)
(* conf_parse_buffer and conf_parse_line: one line.                        *)
(***************************************************************************)
NewServer(address) == [address |-> address, attr |-> [k \in Attribute |-> None], images |-> <<>>]

\* replace_char: the first hyphen becomes a newline.
Replaced(n) == IF n.sep = "hyphen" THEN [n EXCEPT !.sep = "newline"] ELSE n

\* conf_new_image, after replace_char was applied to name and alias as one string.
NewImage(v) ==
  LET name == Replaced(v.name)
  IN  [name |-> name,
       alias |-> IF ~v.split THEN name ELSE IF v.name.sep = "none" THEN Replaced(v.alias) ELSE v.alias]

Parsing == phase = "parse" /\ lineno <= Len(file)
Here == file[lineno]
Latest == Len(servers)

\* What follows a line: a message if ret says so, and the end of the parser if it is FATAL.
Report(r) ==
  /\ ret' = r
  /\ reported' = IF r = "OK" THEN reported ELSE reported \cup {lineno}
  /\ problem_class' = IF r = "OK" THEN problem_class ELSE r
  /\ phase' = IF r = "FATAL" THEN "loaded" ELSE "parse"
  /\ lineno' = lineno + 1
  /\ UNCHANGED <<location, file, serv1, serv2>>

ParseServer ==
  /\ Parsing /\ Here.key = "server"
  /\ servers' = Append(servers, NewServer(Here.value))
  /\ Report("OK")

ParseImage ==
  /\ Parsing /\ Here.key = "image"
  /\ IF servers = <<>> THEN Report("FATAL") /\ UNCHANGED servers
     ELSE /\ servers' = [servers EXCEPT ![Latest].images = <<NewImage(Here.value)>> \o @]
          /\ Report("OK")

\* Mutated form: a second value replaces the first without a word.
BugParseAttribute ==
  /\ Parsing /\ Here.key \in Attribute
  /\ IF servers = <<>> \/ (Here.key \in Checked /\ Here.value = Improper)
     THEN Report("FATAL") /\ UNCHANGED servers
     ELSE /\ servers' = [servers EXCEPT ![Latest].attr[Here.key] = Here.value]
          /\ Report("OK")

ParseAttribute ==
  /\ Parsing /\ Here.key \in Attribute
  /\ IF servers = <<>> \/ (Here.key \in Checked /\ Here.value = Improper)
     THEN Report("FATAL") /\ UNCHANGED servers
     ELSE IF servers[Latest].attr[Here.key] # None THEN Report("WARNING") /\ UNCHANGED servers
     ELSE /\ servers' = [servers EXCEPT ![Latest].attr[Here.key] = Here.value]
          /\ Report("OK")

\* A key of sncap, a key nobody knows, a line that is no "key = value".
ParseOther ==
  /\ Parsing /\ Here.key \in {"cpcid", "unknown", "syntax"}
  /\ Report(CASE Here.key = "cpcid" -> "OK" [] Here.key = "unknown" -> "WARNING" [] OTHER -> "FATAL")
  /\ UNCHANGED servers

\* An empty line or a comment: ret is still the one of the line before.
SkipLine ==
  /\ Parsing /\ Here.key = "blank"
  /\ Report(ret)
  /\ UNCHANGED servers

EndOfFile ==
  /\ phase = "parse" /\ lineno > Len(file)
  /\ phase' = "unique"
  /\ UNCHANGED <<location, file, lineno, ret, reported, problem_class, servers, serv1, serv2>>

(***************************************************************************)
(* check_systems_unique: every server needs a type; no two LPAR servers    *)
(* with one address, no two VM servers with one address and user.          *)
(***************************************************************************)
Clash(s, t) ==
  /\ s.address = t.address
  /\ \/ s.attr["type"] = "LPAR"
     \/ s.attr["type"] = "VM" /\ s.attr["user"] # None /\ s.attr["user"] = t.attr["user"]

Refuse ==
  /\ problem_class' = "FATAL" /\ phase' = "loaded"
  /\ UNCHANGED <<location, file, lineno, ret, reported, servers, serv1, serv2>>

MissingType ==
  /\ phase = "unique" /\ serv1 <= Len(servers) /\ servers[serv1].attr["type"] = None
  /\ Refuse

Comparing ==
  /\ phase = "unique" /\ serv1 <= Len(servers) /\ servers[serv1].attr["type"] # None
  /\ serv2 <= Len(servers)

Duplicate == Comparing /\ Clash(servers[serv1], servers[serv2]) /\ Refuse

NextPair ==
  /\ Comparing /\ ~Clash(servers[serv1], servers[serv2])
  /\ serv2' = serv2 + 1
  /\ UNCHANGED <<location, file, phase, lineno, ret, reported, problem_class, servers, serv1>>

\* Mutated form: the comparison starts one too late.
BugNextServer ==
  /\ phase = "unique" /\ serv1 <= Len(servers) /\ serv2 > Len(servers)
  /\ servers[serv1].attr["type"] # None
  /\ serv1' = serv1 + 1 /\ serv2' = serv1 + 3
  /\ UNCHANGED <<location, file, phase, lineno, ret, reported, problem_class, servers>>

NextServer ==
  /\ phase = "unique" /\ serv1 <= Len(servers) /\ serv2 > Len(servers)
  /\ servers[serv1].attr["type"] # None
  /\ serv1' = serv1 + 1 /\ serv2' = serv1 + 2
  /\ UNCHANGED <<location, file, phase, lineno, ret, reported, problem_class, servers>>

UniqueEnds ==
  /\ phase = "unique" /\ serv1 > Len(servers)
  /\ phase' = "loaded"
  /\ UNCHANGED <<location, file, lineno, ret, reported, problem_class, servers, serv1, serv2>>

Load ==
  \/ ParseServer \/ ParseImage \/ ParseAttribute \/ ParseOther \/ SkipLine \/ EndOfFile
  \/ MissingType \/ Duplicate \/ NextPair \/ NextServer \/ UniqueEnds

(***************************************************************************)
(* Searches: 0 means that there is none.                                   *)
(***************************************************************************)
FirstOf(S) == IF S = {} THEN 0 ELSE CHOOSE k \in S : \A j \in S : k <= j

Defines(s, name) == \E n \in DOMAIN s.images : name \in {s.images[n].name, s.images[n].alias}

\* Mutated form: a section without a user is passed over.
BugFindNextServer(name, user, serv) ==
  FirstOf({k \in serv + 1 .. Len(servers) : user = servers[k].attr["user"] /\ Defines(servers[k], name)})

\* find_next_server: the next section after serv with this image.
FindNextServer(name, user, serv) ==
  FirstOf({k \in serv + 1 .. Len(servers) :
             /\ user = None \/ servers[k].attr["user"] \in {None, user}
             /\ Defines(servers[k], name)})

\* find_server_with_address: the same at a given address.
FindServerWithAddress(address, name, user, serv) ==
  FirstOf({k \in serv + 1 .. Len(servers) :
             /\ user = None \/ servers[k].attr["user"] \in {None, user}
             /\ Defines(servers[k], name)
             /\ servers[k].address = address})

(***************************************************************************)
(* Properties.                                                             *)
(***************************************************************************)
Loaded == phase = "loaded" /\ location \notin {"nowhere", "crash"}

\* The line that starts the i-th section, and the line after its last.
ServerLines == {n \in DOMAIN file : file[n].key = "server"}
Before(n) == {m \in ServerLines : m <= n}
SectionOf(n) == Cardinality(Before(n))
LinesOf(i, key) == {n \in DOMAIN file : SectionOf(n) = i /\ file[n].key = key}

\* A file without a problem is understood as it is written: one section per line "server", with
\* the attributes and images of the lines up to the next one, each attribute once
\* (conf_parse_line and the functions it calls; conf->_last is the only link between lines).
ParsedAsWritten ==
  Loaded /\ problem_class = "OK" =>
    /\ Len(servers) = Cardinality(ServerLines)
    /\ \A i \in DOMAIN servers :
         /\ \E n \in LinesOf(i, "server") : file[n].value = servers[i].address
         /\ \A k \in Attribute : \/ LinesOf(i, k) = {} /\ servers[i].attr[k] = None
                                 \/ \E n \in LinesOf(i, k) : LinesOf(i, k) = {n} /\ servers[i].attr[k] = file[n].value
         /\ Len(servers[i].images) = Cardinality(LinesOf(i, "image"))
         /\ \A n \in LinesOf(i, "image") : Defines(servers[i], Replaced(file[n].value.name))

\* Two sections that one command line could not tell apart.
Alike(s, t) ==
  /\ s.address = t.address /\ s.attr["type"] = t.attr["type"]
  /\ s.attr["type"] = "LPAR" \/ (s.attr["type"] = "VM" /\ s.attr["user"] # None /\ s.attr["user"] = t.attr["user"])

\* In a file that is accepted every section has a type and no two are alike, wherever in the
\* file they stand (check_systems_unique stops at the first server it objects to).
AcceptedMeansUnique ==
  Loaded /\ problem_class # "FATAL" =>
    /\ \A i \in DOMAIN servers : servers[i].attr["type"] # None
    /\ \A i, j \in DOMAIN servers : i # j => ~Alike(servers[i], servers[j])

\* Every message names a line that has a problem.
ReportsAreTrue == \A n \in reported : file[n].key # "blank"
=============================================================================
