--------------------------- MODULE SniplMainProofs ---------------------------
(***************************************************************************)
(* Proofs about SniplMain: one call of snipl, with a command line and a    *)
(* configuration file of any length.  The parts: check_systems_unique;     *)
(* the types of the configuration and of the call, with the options and    *)
(* the section that is used; the commands with what the options say of     *)
(* them; the names of the images; the lines of the file.                   *)
(***************************************************************************)
EXTENDS SniplMain, FiniteSetTheorems, WellFoundedInduction, TLAPS

(***************************************************************************)
(* The invariant of the two loops of check_systems_unique: the servers     *)
(* before serv1 have been compared with all behind them, serv1 with those  *)
(* before serv2.                                                           *)
(***************************************************************************)
IsSequence == \E S : servers \in Seq(S)

Indices == serv1 \in Nat \ {0} /\ serv2 \in Nat

NotYet == phase \in {"find", "parse"} => serv1 = 1 /\ serv2 = 2

\* The pairs behind the two indices.
Compared(i, j) == i < serv1 \/ (i = serv1 /\ j < serv2)

Typed == \A i \in DOMAIN servers : i < serv1 => servers[i].attr["type"] # None

Apart ==
  \A i, j \in DOMAIN servers : i < j /\ Compared(i, j) => ~Clash(servers[i], servers[j])

Underway == phase = "unique" => Typed /\ Apart

Accepted ==
  Loaded /\ problem_class # "FATAL" =>
    /\ \A i \in DOMAIN servers : servers[i].attr["type"] # None
    /\ \A i, j \in DOMAIN servers : i < j => ~Clash(servers[i], servers[j])

UInv == IsSequence /\ Indices /\ NotYet /\ Underway /\ Accepted

(***************************************************************************)
(* Sequences.                                                              *)
(***************************************************************************)
LEMMA Grown ==
  ASSUME NEW S, NEW s \in Seq(S), NEW e
  PROVE  Append(s, e) \in Seq(S \cup {e})
  OBVIOUS

LEMMA Changed ==
  ASSUME NEW S, NEW s \in Seq(S), NEW n, NEW e
  PROVE  [s EXCEPT ![n] = e] \in Seq(S \cup {e})
<1> DEFINE t == [s EXCEPT ![n] = e]
<1>1. Len(s) \in Nat /\ DOMAIN s = 1..Len(s) /\ \A i \in 1..Len(s) : s[i] \in S
  OBVIOUS
<1>2. t \in [1..Len(s) -> S \cup {e}]
  BY <1>1
<1> QED
  BY <1>1, <1>2

LEMMA Places ==
  ASSUME NEW S, NEW s \in Seq(S)
  PROVE  Len(s) \in Nat /\ DOMAIN s = 1..Len(s)
  OBVIOUS

(***************************************************************************)
(* The parser.                                                             *)
(***************************************************************************)
Parse ==
  ParseServer \/ ParseImage \/ ParseAttribute \/ ParseOther \/ SkipLine

LEMMA ReportStep ==
  ASSUME NEW r, Report(r)
  PROVE  /\ UNCHANGED <<serv1, serv2>>
         /\ phase' = "parse" \/ (phase' = "loaded" /\ problem_class' = "FATAL")
  BY DEF Report

LEMMA ParseStep ==
  ASSUME UInv, Parse
  PROVE  UInv'
<1>1. phase = "parse"
  BY DEF Parse, ParseServer, ParseImage, ParseAttribute, ParseOther, SkipLine, Parsing
<1>2. \E r : Report(r)
  BY Zenon DEF Parse, ParseServer, ParseImage, ParseAttribute, ParseOther, SkipLine
<1>3. /\ UNCHANGED <<serv1, serv2>>
      /\ phase' = "parse" \/ (phase' = "loaded" /\ problem_class' = "FATAL")
  BY <1>2, ReportStep
<1>4. \/ UNCHANGED servers
      \/ \E e : servers' = Append(servers, e)
      \/ \E e : servers' = [servers EXCEPT ![Latest] = e]
  BY DEF Parse, ParseServer, ParseImage, ParseAttribute, ParseOther, SkipLine
<1>5. IsSequence'
  <2>1. PICK S : servers \in Seq(S)
    BY DEF UInv, IsSequence
  <2>2. CASE UNCHANGED servers
    BY <2>1, <2>2 DEF IsSequence
  <2>3. ASSUME NEW e, servers' = Append(servers, e)
        PROVE  IsSequence'
    <3>1. servers' \in Seq(S \cup {e})
      BY <2>1, <2>3, Grown
    <3> QED
      BY <3>1 DEF IsSequence
  <2>4. ASSUME NEW e, servers' = [servers EXCEPT ![Latest] = e]
        PROVE  IsSequence'
    <3>1. servers' \in Seq(S \cup {e})
      BY <2>1, <2>4, Changed
    <3> QED
      BY <3>1 DEF IsSequence
  <2> QED
    BY <1>4, <2>2, <2>3, <2>4
<1> QED
  BY <1>1, <1>3, <1>5 DEF UInv, Indices, NotYet, Underway, Accepted, Loaded

(***************************************************************************)
(* The check.                                                              *)
(***************************************************************************)
LEMMA NextPairStep ==
  ASSUME UInv, NextPair
  PROVE  UInv'
<1>1. /\ phase = "unique" /\ serv1 \in Nat \ {0} /\ serv2 \in Nat
      /\ serv2' = serv2 + 1 /\ UNCHANGED <<phase, servers, serv1, problem_class, location>>
      /\ ~Clash(servers[serv1], servers[serv2])
  BY DEF UInv, Indices, NextPair, Comparing
<1>2. PICK S : servers \in Seq(S)
  BY DEF UInv, IsSequence
<1>3. DOMAIN servers = 1..Len(servers) /\ Len(servers) \in Nat
  BY <1>2, Places
<1>4. ASSUME NEW i \in DOMAIN servers, NEW j \in DOMAIN servers, i < j, Compared(i, j)'
      PROVE  ~Clash(servers[i], servers[j])
  <2>1. Compared(i, j) \/ (i = serv1 /\ j = serv2)
    BY <1>1, <1>3, <1>4 DEF Compared
  <2> QED
    BY <1>1, <1>4, <2>1 DEF UInv, Underway, Apart
<1>5. Typed' /\ Apart'
  BY <1>1, <1>4 DEF UInv, Underway, Typed, Apart, Clash
<1> QED
  BY <1>1, <1>5 DEF UInv, IsSequence, Indices, NotYet, Underway, Accepted, Loaded

LEMMA NextServerStep ==
  ASSUME UInv, NextServer
  PROVE  UInv'
<1>1. /\ phase = "unique" /\ serv1 \in Nat \ {0} /\ serv2 \in Nat
      /\ serv2 > Len(servers) /\ servers[serv1].attr["type"] # None
      /\ serv1' = serv1 + 1 /\ serv2' = serv1 + 2 /\ UNCHANGED <<phase, servers, problem_class, location>>
  BY DEF UInv, Indices, NextServer
<1>2. PICK S : servers \in Seq(S)
  BY DEF UInv, IsSequence
<1>3. DOMAIN servers = 1..Len(servers) /\ Len(servers) \in Nat
  BY <1>2, Places
<1>4. ASSUME NEW i \in DOMAIN servers, NEW j \in DOMAIN servers, i < j, Compared(i, j)'
      PROVE  ~Clash(servers[i], servers[j])
  <2>1. Compared(i, j)
    BY <1>1, <1>3, <1>4 DEF Compared
  <2> QED
    BY <1>1, <1>4, <2>1 DEF UInv, Underway, Apart
<1>5. ASSUME NEW i \in DOMAIN servers, i < serv1'
      PROVE  servers[i].attr["type"] # None
  <2>1. i < serv1 \/ i = serv1
    BY <1>1, <1>3, <1>5
  <2> QED
    BY <1>1, <2>1 DEF UInv, Underway, Typed
<1>6. Typed' /\ Apart'
  BY <1>1, <1>4, <1>5 DEF Typed, Apart, Clash
<1> QED
  BY <1>1, <1>6 DEF UInv, IsSequence, Indices, NotYet, Underway, Accepted, Loaded

LEMMA UniqueEndsStep ==
  ASSUME UInv, UniqueEnds
  PROVE  UInv'
<1>1. /\ phase = "unique" /\ phase' = "loaded" /\ serv1 > Len(servers) /\ serv1 \in Nat
      /\ UNCHANGED <<servers, serv1, serv2, problem_class, location>>
  BY DEF UInv, Indices, UniqueEnds
<1>2. PICK S : servers \in Seq(S)
  BY DEF UInv, IsSequence
<1>3. DOMAIN servers = 1..Len(servers) /\ Len(servers) \in Nat
  BY <1>2, Places
<1>4. \A i \in DOMAIN servers : i < serv1 /\ \A j : Compared(i, j)
  BY <1>1, <1>3 DEF Compared
<1>5. /\ \A i \in DOMAIN servers : servers[i].attr["type"] # None
      /\ \A i, j \in DOMAIN servers : i < j => ~Clash(servers[i], servers[j])
  BY <1>1, <1>4 DEF UInv, Underway, Typed, Apart
<1>6. Accepted'
  BY <1>1, <1>5 DEF Accepted, Clash
<1> QED
  BY <1>1, <1>6 DEF UInv, IsSequence, Indices, NotYet, Underway

LEMMA LoadStep ==
  ASSUME UInv, Load
  PROVE  UInv'
<1>1. CASE Parse
  BY <1>1, ParseStep
<1>2. CASE EndOfFile
  <2>1. /\ phase = "parse" /\ phase' = "unique" /\ serv1 = 1 /\ serv2 = 2
        /\ UNCHANGED <<servers, serv1, serv2, problem_class, location>>
    BY <1>2 DEF UInv, NotYet, EndOfFile
  <2>2. PICK S : servers \in Seq(S)
    BY DEF UInv, IsSequence
  <2>3. DOMAIN servers = 1..Len(servers) /\ Len(servers) \in Nat
    BY <2>2, Places
  <2>4. \A i, j \in DOMAIN servers : i < j => ~(i < 1) /\ ~(i = 1 /\ j < 2)
    BY <2>3
  <2>5. Typed' /\ Apart'
    BY <2>1, <2>3, <2>4 DEF Typed, Apart, Compared
  <2> QED
    BY <2>1, <2>5 DEF UInv, IsSequence, Indices, NotYet, Underway, Accepted, Loaded
<1>3. CASE MissingType \/ Duplicate
  <2>1. phase' = "loaded" /\ problem_class' = "FATAL" /\ UNCHANGED <<servers, serv1, serv2>>
    BY <1>3 DEF MissingType, Duplicate, Refuse
  <2> QED
    BY <2>1 DEF UInv, IsSequence, Indices, NotYet, Underway, Accepted
<1>4. CASE NextPair
  BY <1>4, NextPairStep
<1>5. CASE NextServer
  BY <1>5, NextServerStep
<1>6. CASE UniqueEnds
  BY <1>6, UniqueEndsStep
<1> QED
  BY <1>1, <1>2, <1>3, <1>4, <1>5, <1>6 DEF Load, Parse

(***************************************************************************)
(* The whole call.                                                         *)
(***************************************************************************)
LEMMA FileIsSearched ==
  ASSUME UInv, NEW named, NEW readable, NEW home, FindFile(named, readable, home)
  PROVE  UInv'
<1>1. /\ phase = "find" /\ phase' = (IF location' \in {"nowhere", "crash"} THEN "loaded" ELSE "parse")
      /\ UNCHANGED <<servers, serv1, serv2>>
  BY DEF FindFile
<1> QED
  BY <1>1 DEF UInv, IsSequence, Indices, NotYet, Underway, Accepted, Loaded

LEMMA UStep ==
  ASSUME UInv, [Next]_vars
  PROVE  UInv'
<1>1. CASE UNCHANGED confVars
  BY <1>1 DEF confVars, UInv, IsSequence, Indices, NotYet, Underway, Typed, Apart, Compared, Clash, Accepted, Loaded
<1>2. CASE ConfigFile
  BY <1>2, LoadStep, FileIsSearched DEF ConfigFile
<1>3. Next => ConfigFile \/ UNCHANGED confVars
  BY DEF Next, Snipl, Done, vars, Option, OptionEnds, OptionsRead, Configured, Crash, Main, ListVm, PrepareCheck,
         Login, ListLpar, Operate, Ends
<1> QED
  BY <1>1, <1>2, <1>3 DEF vars

LEMMA UInit ==
  ASSUME Init PROVE UInv
<1>1. phase = "find" /\ serv1 = 1 /\ serv2 = 2 /\ servers = <<>>
  BY DEF Init, ConfInit
<1>2. <<>> \in Seq({})
  OBVIOUS
<1> QED
  BY <1>1, <1>2 DEF UInv, IsSequence, Indices, NotYet, Underway, Accepted, Loaded

\* In a file of any length that check_systems_unique lets pass every section has a type, and no
\* two are alike.
THEOREM SectionsAreUnique == Spec => []AcceptedMeansUnique
<1>1. UInv => AcceptedMeansUnique
  <2> SUFFICES ASSUME UInv, Loaded, problem_class # "FATAL"
               PROVE  /\ \A i \in DOMAIN servers : servers[i].attr["type"] # None
                      /\ \A i, j \in DOMAIN servers : i # j => ~Alike(servers[i], servers[j])
    BY DEF AcceptedMeansUnique
  <2>1. PICK S : servers \in Seq(S)
    BY DEF UInv, IsSequence
  <2>2. DOMAIN servers = 1..Len(servers) /\ Len(servers) \in Nat
    BY <2>1, Places
  <2>3. /\ \A i \in DOMAIN servers : servers[i].attr["type"] # None
        /\ \A i, j \in DOMAIN servers : i < j => ~Clash(servers[i], servers[j])
    BY DEF UInv, Accepted
  <2>4. \A i, j \in DOMAIN servers : i # j => i < j \/ j < i
    BY <2>2
  <2>5. \A s, t : Alike(s, t) => Clash(s, t) /\ Clash(t, s)
    BY DEF Alike, Clash
  <2> QED
    BY <2>3, <2>4, <2>5
<1> QED
  BY <1>1, UInit, UStep, PTL DEF Spec

(***************************************************************************)
(* The types of the configuration and of the call.                         *)
(***************************************************************************)
Text == STRING \cup {None, "no", "yes", "VM", "VM5", "LPAR", "prompted"}

Section ==
  [address : Text, attr : [Attribute -> Text], images : Seq([name : Name, alias : Name])]

\* The file and the loops over it: their indices stay in range, and a server once read is whole.
ConfType ==
  /\ file \in File /\ servers \in Seq(Section)
  /\ phase \in {"find", "parse", "unique", "loaded"} /\ location \in {"named", "home", "etc", "nowhere", "crash"}
  /\ lineno \in 1 .. Len(file) + 1 /\ reported \subseteq DOMAIN file
  /\ ret \in {"OK", "WARNING", "FATAL"} /\ problem_class \in {"OK", "WARNING", "FATAL"}
  /\ serv1 \in 1 .. Len(servers) + 1 /\ serv2 \in 1 .. Len(servers) + 2

\* The names of images, whatever aliases they were resolved to, are a sequence.
IsServer(s) == \E S : s \in [address : Text, attr : [Attribute -> Text], images : Seq(S)]

Read == 1 .. option - 1

MainType ==
  /\ call \in Call /\ option \in 1 .. Len(call.argv) + 1
  /\ \A n \in DOMAIN call.argv : call.argv[n].opt \in WithArgument => call.argv[n].value # None
  /\ pc \in {"options", "config", "main", "check", "login", "operate", "done"}
  /\ specified = {call.argv[n].opt : n \in Read}
  /\ IsServer(server)

(***************************************************************************)
(* The options that were read.                                             *)
(***************************************************************************)
Once == \A m, n \in Read : m # n => call.argv[m].opt # call.argv[n].opt

\* What the options read so far have left in the server.
ToldSoFar ==
  /\ \A n \in Read :
       LET g == call.argv[n]
       IN  /\ g.opt = "u" => server.attr["user"] = g.value
           /\ g.opt = "p" => server.attr["password"] = g.value
           /\ g.opt = "z" => server.attr["port"] = g.value
           /\ g.opt = "V" /\ "L" \notin specified => server.address = g.value /\ server.attr["type"] = "VM"
           /\ g.opt = "L" /\ "V" \notin specified => server.address = g.value /\ server.attr["type"] = "LPAR"
  /\ "u" \notin specified => server.attr["user"] = None
  /\ "p" \notin specified => server.attr["password"] = None
  /\ "z" \notin specified => server.attr["port"] = None
  /\ {"V", "L"} \cap specified = {} => server.address = None /\ server.attr["type"] = None
  /\ server.attr["encryption"] = (IF "e" \in specified THEN "no" ELSE None)
  /\ server.attr["sslfingerprint"] = None

\* Two options of one kind end the call, and so do two that exclude each other.
Options ==
  /\ pc = "options" /\ code = "0" => Once /\ ToldSoFar
  /\ pc \notin {"options", "done"} =>
       Once /\ ~ConflictIn(specified) /\ code = "0" /\ option = Len(call.argv) + 1

AsTold ==
  pc = "config" =>
    /\ server.address = SaidAddress /\ server.images = Pushed(call.names)
    /\ \A k \in Attribute : server.attr[k] = SaidOf(k)

(***************************************************************************)
(* The section that is used.                                               *)
(***************************************************************************)
\* What an attribute is after the file was read, and when main is through with it.
FromBoth(k) == IF SaidOf(k) # None THEN SaidOf(k) ELSE IF section = 0 THEN None ELSE servers[section].attr[k]

Finally(k) == IF FromBoth(k) # None THEN FromBoth(k) ELSE IF k = "encryption" THEN "yes" ELSE None

Chosen ==
  /\ section \in 0 .. Len(servers)
  /\ pc \in {"options", "config"} => section = 0
  /\ pc \notin {"options", "config", "done"} => phase = "loaded" /\ location # "crash"
  /\ section # 0 => phase = "loaded" /\ location \notin {"nowhere", "crash"}
  /\ pc = "main" =>
       /\ server.address = (IF section = 0 THEN SaidAddress ELSE servers[section].address)
       /\ \A k \in Attribute : server.attr[k] = FromBoth(k)
       /\ server.address # None => server.attr["type"] \in {"VM", "LPAR"}
  /\ pc \in {"check", "login"} => \A k \in Attribute : server.attr[k] = Finally(k)

\* Nothing is given to a server without a type; every command has its image.
Operating ==
  /\ pc \in {"check", "login"} => server.attr["type"] \in {"VM", "LPAR"}
  /\ pc = "operate" => server.attr["type"] \in {"VM", "VM5", "LPAR"}
  /\ \E S : commands \in Seq(S)
  /\ Len(commands) <= Len(server.images) /\ (pc # "operate" => commands = <<>> \/ pc = "done")


\* The type of the configuration is kept by every line and every pair of servers.
LEMMA LineFacts ==
  ASSUME NEW l \in Line
  PROVE  /\ l.key \in Attribute \cup {"server"} => l.value \in Text
         /\ l.key = "image" => l.value \in ImageValue
  BY DEF Line, Attribute, Text

LEMMA ImageFacts ==
  ASSUME NEW v \in ImageValue
  PROVE  NewImage(v) \in [name : Name, alias : Name]
<1>1. \A n \in Name : Replaced(n) \in Name
  BY DEF Replaced, Name
<1>2. v.name \in Name /\ v.alias \in Name
  BY DEF ImageValue
<1>3. Replaced(v.name) \in Name /\ Replaced(v.alias) \in Name
  BY <1>1, <1>2
<1>4. \A a, b \in Name : [name |-> a, alias |-> b] \in [name : Name, alias : Name]
  OBVIOUS
<1>5. /\ NewImage(v).name = Replaced(v.name)
      /\ NewImage(v).alias \in Name
      /\ NewImage(v) = [name |-> NewImage(v).name, alias |-> NewImage(v).alias]
  BY <1>2, <1>3 DEF NewImage
<1> QED
  BY <1>3, <1>4, <1>5, Zenon

LEMMA SetLatest ==
  ASSUME NEW S, NEW s \in Seq(S), NEW n \in 1..Len(s), NEW e \in S
  PROVE  [s EXCEPT ![n] = e] \in Seq(S) /\ Len([s EXCEPT ![n] = e]) = Len(s)
  OBVIOUS

LEMMA ReportType ==
  ASSUME ConfType, Parsing, NEW r \in {"OK", "WARNING", "FATAL"}, Report(r),
         servers' \in Seq(Section), Len(servers') >= Len(servers)
  PROVE  ConfType'
<1>1. /\ lineno \in 1..Len(file) /\ lineno' = lineno + 1 /\ file' = file /\ location' = location
      /\ Len(file) \in Nat /\ DOMAIN file = 1..Len(file) /\ Len(servers) \in Nat /\ Len(servers') \in Nat
  BY DEF ConfType, Parsing, Report, File
<1>2. reported' \subseteq DOMAIN file' /\ problem_class' \in {"OK", "WARNING", "FATAL"}
  BY <1>1 DEF ConfType, Report
<1>3. serv1' \in 1..Len(servers') + 1 /\ serv2' \in 1..Len(servers') + 2
  BY <1>1 DEF ConfType, Report
<1>4. lineno' \in 1..Len(file') + 1
  BY <1>1
<1>5. ret' \in {"OK", "WARNING", "FATAL"} /\ phase' \in {"find", "parse", "unique", "loaded"}
  BY DEF Report
<1> QED
  BY <1>1, <1>2, <1>3, <1>4, <1>5 DEF ConfType

LEMMA ParseType ==
  ASSUME ConfType, Parse
  PROVE  ConfType'
<1> USE DEF ConfType
<1>1. Parsing /\ servers \in Seq(Section) /\ Len(servers) \in Nat
  BY DEF Parse, ParseServer, ParseImage, ParseAttribute, ParseOther, SkipLine
<1>2. Here \in Line
  <2>1. file \in Seq(Line) /\ lineno \in 1..Len(file)
    BY <1>1 DEF Parsing, File
  <2>2. file[lineno] \in Line
    BY <2>1
  <2> QED
    BY <2>2 DEF Here
<1>3. \A i \in 1..Len(servers) : servers[i] \in Section
  BY <1>1
<1>4. CASE ParseServer
  <2>1. NewServer(Here.value) \in Section
    <3>1. Here.key \in Attribute \cup {"server"}
      BY <1>4 DEF ParseServer
    <3>2. Here.value \in Text
      BY <1>2, <3>1, LineFacts
    <3>3. \A v \in Text : NewServer(v) \in Section
      <4>1. <<>> \in Seq([name : Name, alias : Name])
        OBVIOUS
      <4>2. None \in Text
        BY DEF Text
      <4>3. [k \in Attribute |-> None] \in [Attribute -> Text]
        BY <4>2
      <4> QED
        BY <4>1, <4>3 DEF NewServer, Section
    <3> QED
      BY <3>2, <3>3
  <2>2. servers' \in Seq(Section) /\ Len(servers') >= Len(servers)
    BY <1>1, <1>4, <2>1 DEF ParseServer
  <2> QED
    BY <1>1, <1>4, <2>2, ReportType DEF ParseServer
<1>5. CASE UNCHANGED servers /\ (ParseImage \/ ParseAttribute \/ ParseOther \/ SkipLine)
  <2>1. \E r \in {"OK", "WARNING", "FATAL"} : Report(r)
    BY <1>5 DEF ParseImage, ParseAttribute, ParseOther, SkipLine
  <2> QED
    BY <1>1, <1>5, <2>1, ReportType
<1>6. CASE ParseImage /\ servers # <<>>
  <2>1. Latest \in 1..Len(servers)
    BY <1>1, <1>6 DEF Latest
  <2> DEFINE s == servers[Latest]
             e == [s EXCEPT !.images = <<NewImage(Here.value)>> \o s.images]
  <2>2. s \in Section /\ NewImage(Here.value) \in [name : Name, alias : Name]
    BY <1>2, <1>3, <1>6, <2>1, LineFacts, ImageFacts DEF ParseImage
  <2>3. e \in Section
    <3>1. \A S, i : \A q \in Seq(S) : i \in S => <<i>> \o q \in Seq(S)
      OBVIOUS
    <3>2. <<NewImage(Here.value)>> \o s.images \in Seq([name : Name, alias : Name])
      BY <2>2, <3>1 DEF Section
    <3> QED
      BY <2>2, <3>2 DEF Section
  <2>4. servers' = [servers EXCEPT ![Latest] = e] /\ Report("OK")
    BY <1>6 DEF ParseImage
  <2> HIDE DEF e
  <2>5. servers' \in Seq(Section) /\ Len(servers') = Len(servers)
    BY <1>1, <2>1, <2>3, <2>4, SetLatest
  <2> QED
    BY <1>1, <2>4, <2>5, ReportType
<1>7. CASE ParseAttribute /\ servers # <<>> /\ ~UNCHANGED servers
  <2>1. Latest \in 1..Len(servers)
    BY <1>1, <1>7 DEF Latest
  <2> DEFINE s == servers[Latest]
             e == [s EXCEPT !.attr = [s.attr EXCEPT ![Here.key] = Here.value]]
  <2>2. s \in Section /\ Here.key \in Attribute /\ Here.value \in Text
    BY <1>2, <1>3, <1>7, <2>1, LineFacts DEF ParseAttribute
  <2>3. e \in Section
    BY <2>2 DEF Section
  <2>4. servers' = [servers EXCEPT ![Latest] = e] /\ Report("OK")
    BY <1>7 DEF ParseAttribute
  <2> HIDE DEF e
  <2>5. servers' \in Seq(Section) /\ Len(servers') = Len(servers)
    BY <1>1, <2>1, <2>3, <2>4, SetLatest
  <2> QED
    BY <1>1, <2>4, <2>5, ReportType
<1> QED
  BY <1>4, <1>5, <1>6, <1>7 DEF Parse, ParseImage, ParseAttribute, ParseOther, SkipLine

LEMMA ConfTypeStep ==
  ASSUME UInv, ConfType, Load \/ (\E named, readable, home : FindFile(named, readable, home))
  PROVE  ConfType'
<1>1. Len(file) \in Nat /\ Len(servers) \in Nat /\ serv1 \in Nat /\ serv2 \in Nat
  BY DEF ConfType, File
<1>2. CASE Parse
  BY <1>2, ParseType
<1>3. CASE EndOfFile \/ MissingType \/ Duplicate \/ UniqueEnds
  BY <1>3 DEF ConfType, EndOfFile, MissingType, Duplicate, Refuse, UniqueEnds
<1>4. CASE NextPair
  BY <1>1, <1>4 DEF ConfType, NextPair, Comparing
<1>5. CASE NextServer
  BY <1>1, <1>5 DEF ConfType, NextServer
<1>6. CASE \E named, readable, home : FindFile(named, readable, home)
  BY <1>6 DEF ConfType, FindFile, Found
<1> QED
  BY <1>2, <1>3, <1>4, <1>5, <1>6 DEF Load, Parse

(***************************************************************************)
(* The options of the call.                                                *)
(***************************************************************************)
LEMMA Elements ==
  ASSUME NEW S, NEW s \in Seq(S)
  PROVE  \A n \in DOMAIN s : s[n] \in S
  OBVIOUS

LEMMA CallFacts ==
  ASSUME MainType
  PROVE  /\ Len(call.argv) \in Nat /\ DOMAIN call.argv = 1..Len(call.argv) /\ option \in Nat \ {0}
         /\ \A n \in DOMAIN call.argv : call.argv[n].value \in Text /\ call.argv[n].number \in Int
         /\ call.names \in Seq(Name) /\ Len(call.names) \in Nat
<1>1. call \in Call
  BY DEF MainType
<1>2. call.argv \in Seq([opt : STRING, value : STRING, number : Int]) /\ call.names \in Seq(Name)
  BY <1>1 DEF Call
<1>3. \A n \in DOMAIN call.argv : call.argv[n] \in [opt : STRING, value : STRING, number : Int]
  <2> DEFINE G == [opt : STRING, value : STRING, number : Int]
             s == call.argv
  <2>1. s \in Seq(G)
    BY <1>2
  <2> HIDE DEF G, s
  <2>2. \A n \in DOMAIN s : s[n] \in G
    BY <2>1, Elements
  <2> QED
    BY <2>2 DEF G, s
<1>4. Len(call.argv) \in Nat /\ DOMAIN call.argv = 1..Len(call.argv) /\ Len(call.names) \in Nat
  BY <1>2
<1>5. option \in Nat \ {0}
  BY <1>4 DEF MainType
<1> QED
  BY <1>2, <1>3, <1>4, <1>5 DEF Text

\* What one option does to the server.
LEMMA ToldFacts ==
  ASSUME NEW s, IsServer(s), NEW c, NEW v \in Text
  PROVE  /\ IsServer(Told(s, c, v))
         /\ Told(s, c, v).address = (IF c \in {"V", "L"} THEN v ELSE s.address)
         /\ Told(s, c, v).images = s.images
         /\ Told(s, c, v).attr["user"] = (IF c = "u" THEN v ELSE s.attr["user"])
         /\ Told(s, c, v).attr["password"] = (IF c = "p" THEN v ELSE s.attr["password"])
         /\ Told(s, c, v).attr["port"] = (IF c = "z" THEN v ELSE s.attr["port"])
         /\ Told(s, c, v).attr["encryption"] = (IF c = "e" THEN "no" ELSE s.attr["encryption"])
         /\ Told(s, c, v).attr["sslfingerprint"] = s.attr["sslfingerprint"]
         /\ Told(s, c, v).attr["type"] =
              (IF c = "V" THEN "VM" ELSE IF c = "L" THEN "LPAR" ELSE s.attr["type"])
<1>1. PICK S : s \in [address : Text, attr : [Attribute -> Text], images : Seq(S)]
  BY DEF IsServer
<1>2. Told(s, c, v) \in [address : Text, attr : [Attribute -> Text], images : Seq(S)]
  <2> DEFINE K == [address : Text, attr : [Attribute -> Text], images : Seq(S)]
  <2>1. \A k \in Attribute, t \in Text : [s EXCEPT !.attr[k] = t] \in K
    BY <1>1
  <2>2. \A t, a \in Text : [s EXCEPT !.address = a, !.attr["type"] = t] \in K
    BY <1>1
  <2>3. {"user", "password", "encryption", "port"} \subseteq Attribute /\ {"no", "VM", "LPAR"} \subseteq Text
    BY DEF Attribute, Text
  <2> HIDE DEF K
  <2> QED
    BY <1>1, <2>1, <2>2, <2>3 DEF Told, K
<1>3. IsServer(Told(s, c, v))
  BY <1>2 DEF IsServer
<1> QED
  BY <1>1, <1>3 DEF Told, Attribute

LEMMA OptionStep ==
  ASSUME MainType, Options, Option
  PROVE  MainType' /\ Options' /\ AsTold'
<1>1. PICK c, v : c = Given.opt /\ v = Given.value
  OBVIOUS
<1>2. /\ pc = "options" /\ pc' = "options" /\ call' = call /\ option \in 1..Len(call.argv)
      /\ option' = option + 1 /\ specified' = specified \cup {c} /\ server' = Told(server, c, v)
      /\ code' = "0" => code = "0" /\ c \notin specified
      /\ call.argv[option].opt = c /\ call.argv[option].value = v
  BY <1>1, CallFacts DEF Option, Given
<1>3. v \in Text /\ IsServer(server)
  BY <1>2, CallFacts DEF MainType
<1>4. Read' = Read \cup {option} /\ option \notin Read
  BY <1>2, CallFacts DEF Read
<1>5. specified = {call.argv[n].opt : n \in Read}
  BY DEF MainType
<1>6. specified' = {call'.argv[n].opt : n \in Read'}
  BY <1>2, <1>4, <1>5
<1>7. IsServer(server')
  BY <1>2, <1>3, ToldFacts
<1>8. MainType'
  <2>1. option' \in 1 .. Len(call.argv) + 1
    BY <1>2, CallFacts
  <2> QED
    BY <1>2, <1>6, <1>7, <2>1 DEF MainType
<1>9. ASSUME code' = "0"
      PROVE  Once' /\ ToldSoFar'
  <2>1. \A n \in Read : call.argv[n].opt \in specified /\ call.argv[n].opt # c
    BY <1>2, <1>5, <1>9
  <2>2. Once /\ ToldSoFar
    BY <1>2, <1>9 DEF Options
  <2>3. Once'
    BY <1>2, <1>4, <2>1, <2>2 DEF Once
  <2> DEFINE t == Told(server, c, v)
  <2>4. /\ t.address = (IF c \in {"V", "L"} THEN v ELSE server.address)
        /\ t.attr["user"] = (IF c = "u" THEN v ELSE server.attr["user"])
        /\ t.attr["password"] = (IF c = "p" THEN v ELSE server.attr["password"])
        /\ t.attr["port"] = (IF c = "z" THEN v ELSE server.attr["port"])
        /\ t.attr["encryption"] = (IF c = "e" THEN "no" ELSE server.attr["encryption"])
        /\ t.attr["sslfingerprint"] = server.attr["sslfingerprint"]
        /\ t.attr["type"] = (IF c = "V" THEN "VM" ELSE IF c = "L" THEN "LPAR" ELSE server.attr["type"])
    BY <1>3, ToldFacts
  <2>5. server' = t
    BY <1>2
  <2> HIDE DEF t
  <2>6. \A n \in Read' :
          LET g == call.argv[n]
          IN  /\ g.opt = "u" => t.attr["user"] = g.value
              /\ g.opt = "p" => t.attr["password"] = g.value
              /\ g.opt = "z" => t.attr["port"] = g.value
              /\ g.opt = "V" /\ "L" \notin specified' => t.address = g.value /\ t.attr["type"] = "VM"
              /\ g.opt = "L" /\ "V" \notin specified' => t.address = g.value /\ t.attr["type"] = "LPAR"
    <3>1. ASSUME NEW n, n = option
          PROVE  LET g == call.argv[n]
                 IN  /\ g.opt = "u" => t.attr["user"] = g.value
                     /\ g.opt = "p" => t.attr["password"] = g.value
                     /\ g.opt = "z" => t.attr["port"] = g.value
                     /\ g.opt = "V" /\ "L" \notin specified' => t.address = g.value /\ t.attr["type"] = "VM"
                     /\ g.opt = "L" /\ "V" \notin specified' => t.address = g.value /\ t.attr["type"] = "LPAR"
      BY <1>2, <2>4, <3>1
    <3>2. ASSUME NEW n \in Read
          PROVE  LET g == call.argv[n]
                 IN  /\ g.opt = "u" => t.attr["user"] = g.value
                     /\ g.opt = "p" => t.attr["password"] = g.value
                     /\ g.opt = "z" => t.attr["port"] = g.value
                     /\ g.opt = "V" /\ "L" \notin specified' => t.address = g.value /\ t.attr["type"] = "VM"
                     /\ g.opt = "L" /\ "V" \notin specified' => t.address = g.value /\ t.attr["type"] = "LPAR"
      BY <1>2, <2>1, <2>2, <2>4, <3>2 DEF ToldSoFar
    <3> QED
      BY <1>4, <3>1, <3>2
  <2>7. /\ "u" \notin specified' => t.attr["user"] = None
        /\ "p" \notin specified' => t.attr["password"] = None
        /\ "z" \notin specified' => t.attr["port"] = None
        /\ {"V", "L"} \cap specified' = {} => t.address = None /\ t.attr["type"] = None
        /\ t.attr["encryption"] = (IF "e" \in specified' THEN "no" ELSE None)
        /\ t.attr["sslfingerprint"] = None
    <3>1. /\ c # "u" /\ "u" \notin specified => t.attr["user"] = None
          /\ c # "p" /\ "p" \notin specified => t.attr["password"] = None
          /\ c # "z" /\ "z" \notin specified => t.attr["port"] = None
          /\ t.attr["sslfingerprint"] = None
      BY <2>2, <2>4 DEF ToldSoFar
    <3>2. c \notin {"V", "L"} /\ {"V", "L"} \cap specified = {} => t.address = None /\ t.attr["type"] = None
      BY <2>2, <2>4 DEF ToldSoFar
    <3>3. t.attr["encryption"] = (IF "e" \in specified \cup {c} THEN "no" ELSE None)
      BY <2>2, <2>4 DEF ToldSoFar
    <3> QED
      BY <1>2, <3>1, <3>2, <3>3
  <2> QED
    BY <1>2, <2>3, <2>5, <2>6, <2>7 DEF ToldSoFar
<1> QED
  BY <1>2, <1>8, <1>9 DEF Options, AsTold

LEMMA MaxOfOne ==
  ASSUME NEW n \in Int
  PROVE  Max({n}) = n
<1>1. \E x \in {n} : \A y \in {n} : x >= y
  OBVIOUS
<1> QED
  BY <1>1 DEF Max

\* When no option was given twice, Said is the value of the one there is.
LEMMA SaidFacts ==
  ASSUME MainType, Once, option = Len(call.argv) + 1
  PROVE  /\ \A n \in DOMAIN call.argv : Said(call.argv[n].opt) = call.argv[n].value
         /\ \A c : c \notin specified => Said(c) = None
         /\ Read = DOMAIN call.argv
<1>1. Read = DOMAIN call.argv
  BY CallFacts DEF Read
<1>2. ASSUME NEW n \in DOMAIN call.argv
      PROVE  Said(call.argv[n].opt) = call.argv[n].value
  <2> DEFINE at == {m \in DOMAIN call.argv : call.argv[m].opt = call.argv[n].opt}
  <2>1. at = {n}
    BY <1>1 DEF Once
  <2>2. n \in Int /\ at # {}
    BY <2>1, CallFacts
  <2>3. Max(at) = n
    BY <2>1, <2>2, MaxOfOne
  <2> QED
    BY <2>2, <2>3 DEF Said
<1>3. ASSUME NEW c, c \notin specified
      PROVE  Said(c) = None
  <2>1. {m \in DOMAIN call.argv : call.argv[m].opt = c} = {}
    BY <1>1, <1>3 DEF MainType
  <2> QED
    BY <2>1 DEF Said
<1> QED
  BY <1>1, <1>2, <1>3

\* An option that was given and takes an argument says something.
LEMMA SaidSomething ==
  ASSUME MainType, Once, option = Len(call.argv) + 1, NEW c \in WithArgument
  PROVE  c \in specified <=> Said(c) # None
<1>1. specified = {call.argv[n].opt : n \in DOMAIN call.argv}
  BY SaidFacts DEF MainType
<1>2. ASSUME c \in specified
      PROVE  Said(c) # None
  <2>1. PICK n \in DOMAIN call.argv : call.argv[n].opt = c
    BY <1>1, <1>2
  <2> QED
    BY <2>1, SaidFacts DEF MainType
<1> QED
  BY <1>2, SaidFacts

LEMMA BesideEachOther ==
  ASSUME NEW given, ~ConflictIn(given)
  PROVE  /\ ~("V" \in given /\ "L" \in given)
         /\ ~("p" \in given /\ "P" \in given)
<1>1. /\ "V" \in DOMAIN Excluded /\ "L" \in Excluded["V"]
      /\ "p" \in DOMAIN Excluded /\ "P" \in Excluded["p"]
  BY DEF Excluded
<1> QED
  BY <1>1 DEF ConflictIn

\* After the last option the server is the one the command line describes.
LEMMA AllTold ==
  ASSUME MainType, Once, ToldSoFar, option = Len(call.argv) + 1, ~ConflictIn(specified)
  PROVE  /\ server.address = SaidAddress
         /\ \A k \in Attribute \ {"password"} : server.attr[k] = SaidOf(k)
         /\ "P" \notin specified => server.attr["password"] = SaidOf("password")
<1>1. specified = {call.argv[n].opt : n \in DOMAIN call.argv} /\ Read = DOMAIN call.argv
  BY SaidFacts DEF MainType
<1>2. \A n \in DOMAIN call.argv : Said(call.argv[n].opt) = call.argv[n].value
  BY SaidFacts
<1>3. \A c : c \notin specified => Said(c) = None
  BY SaidFacts
<1>4. \A c \in specified : \E n \in DOMAIN call.argv : call.argv[n].opt = c /\ call.argv[n].value = Said(c)
  BY <1>1, <1>2
<1>5. server.attr["user"] = Said("u") /\ server.attr["port"] = Said("z") /\ server.attr["password"] = Said("p")
  BY <1>1, <1>3, <1>4 DEF ToldSoFar
<1>6. ~("V" \in specified /\ "L" \in specified)
  BY BesideEachOther
<1>7. /\ "V" \in specified <=> Said("V") # None
      /\ "L" \in specified <=> Said("L") # None
  BY SaidSomething DEF WithArgument
<1>8. /\ "V" \in specified => server.address = Said("V") /\ server.attr["type"] = "VM"
      /\ "L" \in specified => server.address = Said("L") /\ server.attr["type"] = "LPAR"
      /\ "V" \notin specified /\ "L" \notin specified => server.address = None /\ server.attr["type"] = None
  BY <1>1, <1>4, <1>6 DEF ToldSoFar
<1>9. server.address = SaidAddress /\ server.attr["type"] = SaidOf("type")
  BY <1>6, <1>7, <1>8 DEF SaidAddress, SaidOf
<1>10. /\ server.attr["user"] = SaidOf("user") /\ server.attr["port"] = SaidOf("port")
       /\ server.attr["encryption"] = SaidOf("encryption")
       /\ server.attr["sslfingerprint"] = SaidOf("sslfingerprint")
       /\ "P" \notin specified => server.attr["password"] = SaidOf("password")
  BY <1>5 DEF ToldSoFar, SaidOf
<1> QED
  BY <1>9, <1>10 DEF Attribute

LEMMA SaidStays ==
  ASSUME UNCHANGED <<call, specified>>
  PROVE  /\ \A c : Said(c)' = Said(c)
         /\ SaidAddress' = SaidAddress /\ \A k : SaidOf(k)' = SaidOf(k) /\ Selecting' = Selecting
  BY Zenon DEF Said, SaidAddress, SaidOf, Selecting

LEMMA PushedFacts ==
  ASSUME NEW names \in Seq(Name)
  PROVE  Pushed(names) \in Seq(Name) /\ Len(Pushed(names)) = Len(names)
<1>1. \A n \in Name : Replaced(n) \in Name
  BY DEF Replaced, Name
<1>2. Len(names) \in Nat /\ \A n \in 1..Len(names) : names[Len(names) + 1 - n] \in Name
  OBVIOUS
<1>3. Pushed(names) \in [1..Len(names) -> Name]
  BY <1>1, <1>2 DEF Pushed
<1> QED
  BY <1>2, <1>3

LEMMA OptionsReadStep ==
  ASSUME MainType, Options, OptionsRead
  PROVE  MainType' /\ Options' /\ AsTold'
<1>1. /\ pc = "options" /\ option > Len(call.argv) /\ pc' \in {"config", "done"}
      /\ UNCHANGED <<call, option, specified>>
      /\ pc' = "config" => code = "0" /\ code' = "0" /\ ~ConflictIn(specified)
  BY DEF OptionsRead, Exit
<1>2. server' = [server EXCEPT !.images = Pushed(call.names),
                               !.attr["password"] = IF "P" \in specified THEN "prompted" ELSE @]
  BY DEF OptionsRead
<1>3. option = Len(call.argv) + 1
  BY <1>1, CallFacts DEF MainType
<1>4. PICK S : server \in [address : Text, attr : [Attribute -> Text], images : Seq(S)]
  BY DEF MainType, IsServer
<1>5. Pushed(call.names) \in Seq(Name)
  BY CallFacts, PushedFacts
<1>6. /\ server' \in [address : Text, attr : [Attribute -> Text], images : Seq(Name)]
      /\ server'.address = server.address /\ server'.images = Pushed(call.names)
      /\ \A k \in Attribute \ {"password"} : server'.attr[k] = server.attr[k]
      /\ server'.attr["password"] = (IF "P" \in specified THEN "prompted" ELSE server.attr["password"])
  <2>1. "password" \in Attribute /\ "prompted" \in Text
    BY DEF Attribute, Text
  <2> QED
    BY <1>2, <1>4, <1>5, <2>1
<1>7. IsServer(server')
  BY <1>6 DEF IsServer
<1>8. MainType'
  BY <1>1, <1>7 DEF MainType, Read
<1>9. Options'
  BY <1>1, <1>3 DEF Options, Once, Read
<1>10. ASSUME pc' = "config"
       PROVE  /\ server'.address = SaidAddress /\ server'.images = Pushed(call.names)
              /\ \A k \in Attribute : server'.attr[k] = SaidOf(k)
  <2>1. /\ server.address = SaidAddress
        /\ \A k \in Attribute \ {"password"} : server.attr[k] = SaidOf(k)
        /\ "P" \notin specified => server.attr["password"] = SaidOf("password")
    BY <1>1, <1>3, <1>10, AllTold DEF Options
  <2>2. "P" \in specified => SaidOf("password") = "prompted"
    BY DEF SaidOf
  <2> QED
    BY <1>6, <2>1, <2>2
<1>11. AsTold'
  BY <1>1, <1>10, SaidStays DEF AsTold
<1> QED
  BY <1>8, <1>9, <1>11

(***************************************************************************)
(* The four searches for a section.                                        *)
(***************************************************************************)
\* A set of natural numbers has a least element.
LEMMA LeastNatural ==
  ASSUME NEW S, S \subseteq Nat, S # {}
  PROVE  \E i \in S : \A k \in S : i <= k
<1> DEFINE R == OpToRel(<, Nat)
<1>1. IsWellFoundedOn(R, Nat)
  BY NatLessThanWellFounded
<1>2. PICK i \in S : \A k \in S : <<k, i>> \notin R
  <2> HIDE DEF R
  <2> QED
    BY <1>1, WFMin
<1>3. \A k \in S : ~(k < i)
  BY <1>2 DEF OpToRel
<1>4. \A k \in S : k \in Nat /\ i \in Nat
  OBVIOUS
<1> HIDE DEF R
<1> QED
  BY <1>3, <1>4

LEMMA FirstOfFacts ==
  ASSUME NEW S, S \subseteq Nat \ {0}
  PROVE  /\ S = {} => FirstOf(S) = 0
         /\ S # {} => FirstOf(S) \in S /\ \A j \in S : FirstOf(S) <= j
<1>1. S # {} => \E i \in S : \A j \in S : i <= j
  BY LeastNatural
<1> QED
  BY <1>1 DEF FirstOf

\* What a section must have to be one that an image, an address and a user select.
Selected(k, name, address, user) ==
  /\ user = None \/ servers[k].attr["user"] \in {None, user}
  /\ Defines(servers[k], name)
  /\ address = None \/ servers[k].address = address

LEMMA SelectedFirst ==
  ASSUME ConfType, NEW name, NEW user, NEW address, NEW serv \in 0..Len(servers), NEW k,
         k = FirstOf({j \in serv + 1 .. Len(servers) : Selected(j, name, address, user)})
  PROVE  /\ k # 0 => k \in serv + 1 .. Len(servers) /\ Selected(k, name, address, user)
         /\ \A j \in serv + 1 .. Len(servers) : Selected(j, name, address, user) => k # 0 /\ k <= j
<1> DEFINE S == {j \in serv + 1 .. Len(servers) : Selected(j, name, address, user)}
<1>1. S \subseteq Nat \ {0}
  BY DEF ConfType
<1>2. (S = {} => k = 0) /\ (S # {} => k \in S /\ \A j \in S : k <= j)
  <2> HIDE DEF S
  <2> QED
    BY <1>1, FirstOfFacts DEF S
<1> QED
  BY <1>1, <1>2

LEMMA SearchFacts ==
  ASSUME ConfType, NEW name, NEW user, NEW serv \in 0..Len(servers), NEW k, k = FindNextServer(name, user, serv)
  PROVE  /\ k # 0 => k \in serv + 1 .. Len(servers) /\ Selected(k, name, None, user)
         /\ \A j \in serv + 1 .. Len(servers) : Selected(j, name, None, user) => k # 0 /\ k <= j
<1>1. \A j : Selected(j, name, None, user) <=>
             /\ user = None \/ servers[j].attr["user"] \in {None, user}
             /\ Defines(servers[j], name)
  BY Zenon DEF Selected
<1>2. k = FirstOf({j \in serv + 1 .. Len(servers) : Selected(j, name, None, user)})
  BY <1>1, Zenon DEF FindNextServer
<1> QED
  BY <1>2, SelectedFirst, Zenon

LEMMA AddressFacts ==
  ASSUME ConfType, NEW name, NEW user, NEW address, address # None, NEW serv \in 0..Len(servers), NEW k,
         k = FindServerWithAddress(address, name, user, serv)
  PROVE  /\ k # 0 => k \in serv + 1 .. Len(servers) /\ Selected(k, name, address, user)
         /\ \A j \in serv + 1 .. Len(servers) : Selected(j, name, address, user) => k # 0 /\ k <= j
<1>1. \A j : Selected(j, name, address, user) <=>
             /\ user = None \/ servers[j].attr["user"] \in {None, user}
             /\ Defines(servers[j], name)
             /\ servers[j].address = address
  BY Zenon DEF Selected
<1>2. k = FirstOf({j \in serv + 1 .. Len(servers) : Selected(j, name, address, user)})
  BY <1>1, Zenon DEF FindServerWithAddress
<1> QED
  BY <1>2, SelectedFirst, Zenon

\* What the command line says when main looks for a section.
Wanted ==
  /\ server.address = SaidAddress /\ server.images = Pushed(call.names) /\ User = Said("u")
  /\ server.attr["type"] = SaidOf("type")

LEMMA WantedFacts ==
  ASSUME MainType, AsTold, pc = "config"
  PROVE  /\ Wanted
         /\ server.images = <<>> <=> call.names = <<>>
         /\ call.names # <<>> => server.images[1] = Selecting
         /\ SaidAddress # None => SaidOf("type") \in {"VM", "LPAR"}
         /\ SaidAddress = None => SaidOf("type") = None
<1>1. server.attr["user"] = SaidOf("user") /\ server.attr["type"] = SaidOf("type")
  BY DEF AsTold, Attribute
<1>2. Wanted
  BY <1>1 DEF AsTold, Wanted, User, SaidOf
<1>3. call.names \in Seq(Name) /\ Len(call.names) \in Nat
  BY CallFacts
<1>4. Len(server.images) = Len(call.names) /\ server.images \in Seq(Name)
  BY <1>2, <1>3, PushedFacts DEF Wanted
<1>5. server.images = <<>> <=> call.names = <<>>
  BY <1>3, <1>4
<1>6. call.names # <<>> => server.images[1] = Selecting
  BY <1>2, <1>3 DEF Wanted, Pushed, Selecting
<1> QED
  BY <1>2, <1>5, <1>6 DEF SaidAddress, SaidOf

\* A section fits the command line: SectionFits, for any section.
Fits(k) ==
  LET s == servers[k]
  IN  /\ SaidAddress # None => s.address = SaidAddress /\ s.attr["type"] = SaidOf("type")
      /\ call.names # <<>> => Defines(s, Selecting)
      /\ \/ Said("u") = None \/ s.attr["user"] \in {None, Said("u")}
         \/ call.names = <<>> /\ s.attr["type"] = "LPAR"

LEMMA WithAddressFits ==
  ASSUME ConfType, server.address # None, NEW k, k = WithAddress, k # 0
  PROVE  /\ k \in 1..Len(servers) /\ servers[k].address = server.address
         /\ User = None \/ servers[k].attr["user"] = User \/ servers[k].attr["type"] = "LPAR"
<1> DEFINE at == {j \in DOMAIN servers : servers[j].address = server.address}
           mine == {j \in at : servers[j].attr["type"] = "LPAR" \/ servers[j].attr["user"] = User}
           k1 == FirstOf(at)
           k2 == FirstOf(at \ {k1})
<1>1. DOMAIN servers = 1..Len(servers) /\ Len(servers) \in Nat
  BY DEF ConfType
<1>2. at \subseteq Nat \ {0} /\ mine \subseteq at /\ at \ {k1} \subseteq at
  BY <1>1
<1>3. k \in {FirstOf(mine), k1, k2} /\ (User # None => k = FirstOf(mine))
  BY DEF WithAddress
<1> HIDE DEF at, mine
<1>4. /\ FirstOf(mine) = 0 \/ FirstOf(mine) \in mine
      /\ k1 = 0 \/ k1 \in at
      /\ k2 = 0 \/ k2 \in at
  BY <1>2, FirstOfFacts
<1>5. k \in at /\ (User # None => k \in mine)
  BY <1>2, <1>3, <1>4
<1> QED
  BY <1>1, <1>5 DEF at, mine

LEMMA UsableFits ==
  ASSUME ConfType, MainType, AsTold, pc = "config", NEW k, k = Usable(Candidate), k # 0
  PROVE  /\ k \in 1..Len(servers) /\ Fits(k)
         /\ SaidAddress = None => servers[k].attr["type"] \in {"VM", "LPAR"}
<1>1. /\ Wanted
      /\ server.images = <<>> <=> call.names = <<>>
      /\ call.names # <<>> => server.images[1] = Selecting
      /\ SaidAddress # None => SaidOf("type") \in {"VM", "LPAR"}
  BY WantedFacts
<1>2. /\ k = Candidate /\ Len(servers) \in Nat
      /\ server.address # None => servers[k].attr["type"] = server.attr["type"]
  BY DEF Usable, ConfType
<1>3. CASE call.names # <<>> /\ SaidAddress # None
  <2>1. k = FindServerWithAddress(SaidAddress, Selecting, Said("u"), 0)
    BY <1>1, <1>2, <1>3 DEF Candidate, WithBoth, Wanted
  <2>2. k # 0 => k \in 0 + 1 .. Len(servers) /\ Selected(k, Selecting, SaidAddress, Said("u"))
    <3>1. 0 \in 0 .. Len(servers)
      BY <1>2
    <3> QED
      BY <1>3, <2>1, <3>1, AddressFacts
  <2> QED
    BY <1>1, <1>2, <1>3, <2>2 DEF Fits, Selected, Wanted
<1>4. CASE call.names # <<>> /\ SaidAddress = None
  <2>1. /\ k = FindNextServer(Selecting, Said("u"), 0)
        /\ servers[k].attr["type"] \in {"VM", "LPAR"}
    BY <1>1, <1>2, <1>4 DEF Candidate, WithImage, Wanted
  <2>2. k # 0 => k \in 0 + 1 .. Len(servers) /\ Selected(k, Selecting, None, Said("u"))
    <3>1. 0 \in 0 .. Len(servers)
      BY <1>2
    <3> QED
      BY <2>1, <3>1, SearchFacts
  <2> QED
    BY <1>4, <2>1, <2>2 DEF Fits, Selected
<1>5. CASE call.names = <<>> /\ SaidAddress # None
  <2>1. k = WithAddress /\ server.address # None
    BY <1>1, <1>2, <1>5 DEF Candidate, Wanted
  <2>2. /\ k \in 1..Len(servers) /\ servers[k].address = server.address
        /\ User = None \/ servers[k].attr["user"] = User \/ servers[k].attr["type"] = "LPAR"
    BY <2>1, WithAddressFits
  <2> QED
    BY <1>1, <1>2, <1>5, <2>1, <2>2 DEF Fits, Wanted
<1>6. CASE call.names = <<>> /\ SaidAddress = None
  BY <1>1, <1>2, <1>6 DEF Candidate, Wanted
<1> QED
  BY <1>3, <1>4, <1>5, <1>6

\* A section that is the only one to fit is found.
LEMMA SoleIsFound ==
  ASSUME ConfType, MainType, AsTold, pc = "config", call.names # <<>>, NEW k \in DOMAIN servers, Fitting = {k},
         servers[k].attr["type"] \in (IF SaidAddress = None THEN {"VM", "LPAR"} ELSE {SaidOf("type")})
  PROVE  Usable(Candidate) = k
<1>1. Wanted /\ server.images # <<>> /\ server.images[1] = Selecting
  BY WantedFacts
<1>2. DOMAIN servers = 1..Len(servers) /\ Len(servers) \in Nat
  BY DEF ConfType
<1>3. /\ Selected(k, Selecting, SaidAddress, Said("u"))
      /\ \A j \in 1..Len(servers) : Selected(j, Selecting, SaidAddress, Said("u")) => j = k
  <2>1. \A j \in DOMAIN servers : j \in Fitting <=> Selected(j, Selecting, SaidAddress, Said("u"))
    BY DEF Fitting, Selected
  <2> QED
    BY <1>2, <2>1
<1>4. CASE SaidAddress # None
  <2> DEFINE found == FindServerWithAddress(SaidAddress, Selecting, Said("u"), 0)
  <2>1. found = k
    <3>1. /\ found # 0 => found \in 0 + 1 .. Len(servers) /\ Selected(found, Selecting, SaidAddress, Said("u"))
          /\ \A j \in 0 + 1 .. Len(servers) : Selected(j, Selecting, SaidAddress, Said("u")) => found # 0 /\ found <= j
      BY <1>2, <1>4, AddressFacts
    <3> HIDE DEF found
    <3> QED
      BY <1>2, <1>3, <3>1
  <2>2. Candidate = k
    BY <1>1, <1>4, <2>1 DEF Candidate, WithBoth, Wanted
  <2> QED
    BY <1>1, <1>4, <2>2 DEF Usable, Wanted
<1>5. CASE SaidAddress = None
  <2> DEFINE found == FindNextServer(Selecting, Said("u"), 0)
  <2>1. found = k
    <3>1. /\ found # 0 => found \in 0 + 1 .. Len(servers) /\ Selected(found, Selecting, None, Said("u"))
          /\ \A j \in 0 + 1 .. Len(servers) : Selected(j, Selecting, None, Said("u")) => found # 0 /\ found <= j
      BY <1>2, SearchFacts
    <3> HIDE DEF found
    <3> QED
      BY <1>2, <1>3, <1>5, <3>1
  <2> DEFINE second == FindNextServer(Selecting, Said("u"), k)
  <2>2. second = 0
    <3>1. second # 0 => second \in k + 1 .. Len(servers) /\ Selected(second, Selecting, None, Said("u"))
      BY <1>2, SearchFacts
    <3> HIDE DEF second
    <3> QED
      BY <1>2, <1>3, <1>5, <3>1
  <2>3. Candidate = k
    <3>1. k # 0
      BY <1>2
    <3> QED
      BY <1>1, <1>5, <2>1, <2>2, <3>1 DEF Candidate, WithImage, Wanted
  <2> QED
    BY <1>1, <1>5, <2>3 DEF Usable, Wanted
<1> QED
  BY <1>4, <1>5

(***************************************************************************)
(* What becomes of the server when the file was read.                      *)
(***************************************************************************)
LEMMA ListOver ==
  ASSUME NEW m \in Nat, NEW f, f = [i \in 1..m |-> f[i]]
  PROVE  (\E S : f \in Seq(S)) /\ Len(f) = m
<1> DEFINE T == {f[i] : i \in 1..m}
<1>1. \A i \in 1..m : f[i] \in T
  OBVIOUS
<1> HIDE DEF T
<1>2. f \in Seq(T)
  BY <1>1
<1>3. Len(f) = m
  BY <1>1
<1> QED
  BY <1>2, <1>3

LEMMA UsedFacts ==
  ASSUME ConfType, IsServer(server), NEW k \in 1..Len(servers)
  PROVE  /\ IsServer(Used(servers[k])) /\ Used(servers[k]).address = servers[k].address
         /\ \A a \in Attribute : Used(servers[k]).attr[a] =
              IF server.attr[a] # None THEN server.attr[a] ELSE servers[k].attr[a]
<1> DEFINE s == servers[k]
<1>1. PICK S : server \in [address : Text, attr : [Attribute -> Text], images : Seq(S)]
  BY DEF IsServer
<1>2. s \in Section
  BY DEF ConfType
<1>3. Merged(s) \in [Attribute -> Text]
  BY <1>1, <1>2 DEF Merged, Section
<1>4. \E T : Used(s).images \in Seq(T)
  <2>1. s.images \in Seq([name : Name, alias : Name])
    BY <1>2 DEF Section
  <2>2. Len(s.images) \in Nat /\ DOMAIN s.images = 1..Len(s.images)
    BY <2>1
  <2>3. Len(server.images) \in Nat /\ DOMAIN server.images = 1..Len(server.images)
    BY <1>1
  <2> DEFINE f == [n \in DOMAIN s.images |-> s.images[n].name]
             g == [n \in DOMAIN server.images |-> Resolved(server.images[n], s.images)]
  <2>4. f = [n \in 1..Len(s.images) |-> f[n]] /\ g = [n \in 1..Len(server.images) |-> g[n]]
    BY <2>2, <2>3
  <2>5. Used(s).images = f \/ Used(s).images = g
    BY DEF Used, NamesOf
  <2> HIDE DEF f, g, s
  <2> QED
    BY <2>2, <2>3, <2>4, <2>5, ListOver
<1>5. /\ Used(s).address = s.address /\ Used(s).attr = Merged(s)
      /\ Used(s) = [address |-> Used(s).address, attr |-> Used(s).attr, images |-> Used(s).images]
  BY DEF Used
<1>6. PICK T : Used(s).images \in Seq(T)
  BY <1>4
<1>7. s.address \in Text
  BY <1>2 DEF Section
<1>8. IsServer(Used(s))
  <2> DEFINE u == Used(s)
  <2>1. u.address \in Text /\ u.attr \in [Attribute -> Text] /\ u.images \in Seq(T)
    BY <1>3, <1>5, <1>6, <1>7
  <2>2. u = [address |-> u.address, attr |-> u.attr, images |-> u.images]
    BY <1>5
  <2> HIDE DEF u
  <2>3. u \in [address : Text, attr : [Attribute -> Text], images : Seq(T)]
    BY <2>1, <2>2
  <2> QED
    BY <2>3 DEF IsServer, u
<1> QED
  BY <1>5, <1>8 DEF Merged

LEMMA NoSectionFacts ==
  ASSUME IsServer(server)
  PROVE  IsServer(NoSection) /\ NoSection.address = server.address /\ NoSection.attr = server.attr
<1>1. PICK S : server \in [address : Text, attr : [Attribute -> Text], images : Seq(S)]
  BY DEF IsServer
<1>2. <<>> \in Seq(S)
  OBVIOUS
<1>3. NoSection \in [address : Text, attr : [Attribute -> Text], images : Seq(S)]
  BY <1>1, <1>2 DEF NoSection
<1> QED
  BY <1>1, <1>3 DEF IsServer, NoSection

CallInv1 == ConfType /\ MainType /\ Options /\ AsTold /\ Chosen

LEMMA ConfiguredStep ==
  ASSUME CallInv1, Configured
  PROVE  /\ CallInv1'
         /\ SectionFits' /\ SoleFitIsUsed'
<1>1. /\ pc = "config" /\ phase = "loaded" /\ location # "crash" /\ pc' = "main"
      /\ UNCHANGED <<confVars, call, option, specified, code>>
  BY DEF Configured
<1>2. /\ ConfType /\ MainType /\ Options /\ AsTold /\ section = 0 /\ IsServer(server)
  BY <1>1 DEF CallInv1, Chosen, MainType
<1>3. ConfType'
  BY <1>1, <1>2 DEF ConfType, confVars
<1>4. /\ Wanted
      /\ SaidAddress # None => SaidOf("type") \in {"VM", "LPAR"}
      /\ SaidAddress = None => SaidOf("type") = None
  BY <1>1, <1>2, WantedFacts
<1>5. \A a \in Attribute : server.attr[a] = SaidOf(a)
  BY <1>1, <1>2 DEF AsTold
<1>6. /\ SaidAddress' = SaidAddress /\ Selecting' = Selecting
      /\ \A c : Said(c)' = Said(c) /\ SaidOf(c)' = SaidOf(c)
  BY <1>1, SaidStays
<1>7. Options' /\ AsTold'
  BY <1>1, <1>2 DEF Options, AsTold, Once, Read
<1>8. ASSUME IsServer(server')
      PROVE  MainType'
  BY <1>1, <1>2, <1>8 DEF MainType, Read
<1>9. servers' = servers /\ location' = location /\ phase' = phase /\ problem_class' = problem_class
  BY <1>1 DEF confVars
<1>10. CASE location = "nowhere" \/ ~UsesFile
  <2>1. section' = 0 /\ server' = server
    BY <1>2, <1>10 DEF Configured
  <2>2. Chosen'
    BY <1>1, <1>2, <1>4, <1>5, <1>6, <1>9, <2>1 DEF Chosen, FromBoth, Wanted
  <2>3. SectionFits' /\ SoleFitIsUsed'
    BY <1>9, <1>10, <2>1 DEF SectionFits, SoleFitIsUsed, UsesFile
  <2> QED
    BY <1>2, <1>3, <1>7, <1>8, <2>1, <2>2, <2>3 DEF CallInv1
<1>11. CASE location # "nowhere" /\ UsesFile
  <2>1. /\ section' = Usable(Candidate)
        /\ server' = IF section' = 0 THEN NoSection ELSE Used(servers[section'])
    BY <1>11 DEF Configured
  <2>2. section' # 0 => /\ section' \in 1..Len(servers) /\ Fits(section')
                        /\ SaidAddress = None => servers[section'].attr["type"] \in {"VM", "LPAR"}
    BY <1>1, <1>2, <2>1, UsableFits
  <2>3. IsServer(server')
    BY <1>2, <2>1, <2>2, NoSectionFacts, UsedFacts
  <2>4. /\ section' \in 0..Len(servers)
        /\ server'.address = (IF section' = 0 THEN SaidAddress ELSE servers[section'].address)
    BY <1>2, <1>4, <2>1, <2>2, NoSectionFacts, UsedFacts DEF Wanted, ConfType
  <2>5. \A a \in Attribute : server'.attr[a] = IF SaidOf(a) # None THEN SaidOf(a)
                                               ELSE IF section' = 0 THEN None ELSE servers[section'].attr[a]
    BY <1>2, <1>5, <2>1, <2>2, NoSectionFacts, UsedFacts
  <2>6. server'.address # None => server'.attr["type"] \in {"VM", "LPAR"}
    <3>1. "type" \in Attribute
      BY DEF Attribute
    <3> QED
      BY <1>4, <2>2, <2>4, <2>5, <3>1 DEF None
  <2>7. Chosen'
    BY <1>1, <1>2, <1>6, <1>9, <1>11, <2>4, <2>5, <2>6 DEF Chosen, FromBoth, ConfType
  <2>8. SectionFits'
    BY <1>1, <1>6, <1>9, <1>11, <2>2 DEF SectionFits, Fits, UsesFile
  <2>9. SoleFitIsUsed'
    <3>1. Fitting' = Fitting
      BY <1>6, <1>9 DEF Fitting
    <3> SUFFICES ASSUME NEW k \in DOMAIN servers, call.names # <<>>, Fitting = {k},
                        servers[k].attr["type"] \in (IF SaidAddress = None THEN {"VM", "LPAR"} ELSE {SaidOf("type")})
                 PROVE  section' = k
      BY <1>1, <1>6, <1>9, <3>1 DEF SoleFitIsUsed
    <3> QED
      BY <1>1, <1>2, <2>1, SoleIsFound
  <2> QED
    BY <1>2, <1>3, <1>7, <1>8, <2>3, <2>7, <2>8, <2>9 DEF CallInv1
<1> QED
  BY <1>10, <1>11

(***************************************************************************)
(* The rest of the call.                                                   *)
(***************************************************************************)
CallInv2 == CallInv1 /\ Operating /\ SectionFits /\ SoleFitIsUsed

\* What main does after the file was read leaves the configuration and the section alone.
Later == Main \/ ListVm \/ PrepareCheck \/ Login \/ ListLpar \/ Operate \/ Ends \/ Crash

LEMMA LaterFrame ==
  ASSUME CallInv2, Later
  PROVE  /\ UNCHANGED <<confVars, call, option, specified, section>>
         /\ pc # "options" /\ pc # "done" /\ pc' \notin {"options", "config", "main"}
         /\ pc' # "done" => code' = code /\ pc # "config"
  BY DEF Later, Main, ListVm, PrepareCheck, Login, ListLpar, Operate, Ends, Crash, Exit

LEMMA LaterServer ==
  ASSUME CallInv2, Later
  PROVE  /\ IsServer(server') /\ server'.address = server.address
         /\ ~Login => server'.images = server.images
         /\ Len(server'.images) = Len(server.images)
         /\ ~Login => \A k \in Attribute :
              server'.attr[k] = IF Main /\ k = "encryption" /\ server.attr[k] = None THEN "yes" ELSE server.attr[k]
         /\ Login => server'.attr["type"] \in {"VM", "VM5", "LPAR"}
<1>1. PICK S : server \in [address : Text, attr : [Attribute -> Text], images : Seq(S)]
  BY DEF CallInv2, CallInv1, MainType, IsServer
<1>2. Len(server.images) \in Nat /\ DOMAIN server.images = 1..Len(server.images)
  BY <1>1
<1>3. {"encryption", "type"} \subseteq Attribute /\ {"yes", "VM", "VM5", "LPAR"} \subseteq Text
  BY DEF Attribute, Text
<1>4. CASE Main
  <2>1. pc = "main" /\ server' = [server EXCEPT !.attr["encryption"] = IF @ = None THEN "yes" ELSE @]
    BY <1>4 DEF Main
  <2>2. server' \in [address : Text, attr : [Attribute -> Text], images : Seq(S)]
    BY <1>1, <1>3, <2>1
  <2>3. ~Login
    BY <2>1 DEF Login
  <2> QED
    BY <1>1, <1>3, <1>4, <2>1, <2>2, <2>3 DEF IsServer
<1>5. CASE Login
  <2>1. PICK type \in {"VM", "VM5", "LPAR"} :
          server' = [server EXCEPT !.attr["type"] = type,
                                   !.images = IF type = "VM" THEN [n \in DOMAIN @ |-> Unreplaced(@[n])] ELSE @]
    BY <1>5 DEF Login
  <2> DEFINE f == [n \in DOMAIN server.images |-> Unreplaced(server.images[n])]
             g == IF type = "VM" THEN f ELSE server.images
  <2>2. f = [n \in 1..Len(server.images) |-> f[n]]
    BY <1>2
  <2>3. (\E T : f \in Seq(T)) /\ Len(f) = Len(server.images)
    <3> HIDE DEF f
    <3> QED
      BY <1>2, <2>2, ListOver
  <2>4. PICK T : g \in Seq(T)
    <3> HIDE DEF f
    <3> QED
      BY <1>1, <2>3
  <2>5. Len(g) = Len(server.images)
    <3> HIDE DEF f
    <3> QED
      BY <2>3
  <2>6. server' = [server EXCEPT !.attr["type"] = type, !.images = g]
    BY <2>1
  <2> HIDE DEF g
  <2>7. server' \in [address : Text, attr : [Attribute -> Text], images : Seq(T)] /\ server'.images = g
        /\ server'.address = server.address /\ server'.attr["type"] = type
    BY <1>1, <1>3, <2>4, <2>6
  <2>8. IsServer(server')
    BY <2>7 DEF IsServer
  <2> QED
    BY <1>5, <2>5, <2>7, <2>8
<1>6. CASE ~Main /\ ~Login
  <2>1. server' = server
    BY <1>6 DEF Later, ListVm, PrepareCheck, ListLpar, Operate, Ends, Crash
  <2> QED
    BY <1>1, <1>6, <2>1 DEF IsServer
<1> QED
  BY <1>4, <1>5, <1>6

LEMMA LaterStep ==
  ASSUME CallInv2, Later
  PROVE  CallInv2'
<1>1. /\ UNCHANGED <<confVars, call, option, specified, section>>
      /\ pc # "options" /\ pc # "done" /\ pc' \notin {"options", "config", "main"}
      /\ pc' # "done" => code' = code /\ pc # "config"
  BY LaterFrame
<1>2. /\ IsServer(server') /\ server'.address = server.address
      /\ ~Login => server'.images = server.images
      /\ Len(server'.images) = Len(server.images)
      /\ ~Login => \A k \in Attribute :
           server'.attr[k] = IF Main /\ k = "encryption" /\ server.attr[k] = None THEN "yes" ELSE server.attr[k]
      /\ Login => server'.attr["type"] \in {"VM", "VM5", "LPAR"}
  BY LaterServer
<1>3. /\ ConfType /\ MainType /\ Options /\ Chosen /\ Operating /\ SectionFits
  BY DEF CallInv2, CallInv1
<1>4. pc' \in {"check", "login", "operate", "done"}
  BY <1>1 DEF Later, Main, ListVm, PrepareCheck, Login, ListLpar, Operate, Ends, Crash, Exit
<1>5. /\ SaidAddress' = SaidAddress /\ Selecting' = Selecting
      /\ \A c : Said(c)' = Said(c) /\ SaidOf(c)' = SaidOf(c)
  BY <1>1, SaidStays
<1>6. ConfType' /\ MainType'
  BY <1>1, <1>2, <1>3, <1>4 DEF ConfType, confVars, MainType, Read
<1>7. Options' /\ AsTold' /\ SoleFitIsUsed'
  BY <1>1, <1>3 DEF Options, AsTold, Once, Read, SoleFitIsUsed
<1>8. Chosen'
  <2>1. \A k : FromBoth(k)' = FromBoth(k) /\ Finally(k)' = Finally(k)
    BY <1>1, <1>5, Zenon DEF FromBoth, Finally, confVars
  <2>2. ASSUME pc' \in {"check", "login"}, NEW k \in Attribute
        PROVE  server'.attr[k] = Finally(k)
    <3>1. ~Login
      BY <2>2 DEF Login
    <3>2. CASE Main
      <4>1. server.attr[k] = FromBoth(k)
        BY <1>3, <2>2, <3>2 DEF Main, Chosen
      <4>2. server'.attr[k] = IF k = "encryption" /\ server.attr[k] = None THEN "yes" ELSE server.attr[k]
        BY <1>2, <2>2, <3>1, <3>2
      <4> QED
        BY <4>1, <4>2 DEF Finally
    <3>3. CASE PrepareCheck
      BY <1>2, <1>3, <2>2, <3>1, <3>3 DEF PrepareCheck, Main, Chosen
    <3> QED
      BY <1>1, <2>2, <3>1, <3>2, <3>3 DEF Later, ListVm, ListLpar, Operate, Ends, Crash, Exit
  <2> QED
    BY <1>1, <1>3, <2>1, <2>2 DEF Chosen, confVars
<1>9. SectionFits'
  BY <1>1, <1>3, <1>5 DEF SectionFits, confVars
<1>10. Operating'
  <2>1. PICK S : commands \in Seq(S)
    BY <1>3 DEF Operating
  <2>2. PICK T : server.images \in Seq(T)
    BY <1>3 DEF MainType, IsServer
  <2>3. Len(commands) \in Nat /\ Len(server.images) \in Nat
    BY <2>1, <2>2
  <2>4. (\E U : commands' \in Seq(U)) /\ Len(commands') <= Len(server'.images)
    <3>1. CASE Operate
      <4>1. PICK e : commands' = Append(commands, e)
        BY <3>1 DEF Operate
      <4>2. commands' \in Seq(S \cup {e}) /\ Len(commands') = Len(commands) + 1
        BY <2>1, <4>1
      <4> QED
        BY <1>2, <2>3, <3>1, <4>2 DEF Operate
    <3>2. CASE ~Operate
      BY <1>2, <1>3, <2>1, <3>2 DEF Operating, Later, Main, ListVm, PrepareCheck, Login, ListLpar, Ends, Crash
    <3> QED
      BY <3>1, <3>2
  <2>5. pc' # "operate" => commands' = <<>> \/ pc' = "done"
    BY <1>1, <1>3 DEF Operating, Later, Main, ListVm, PrepareCheck, Login, ListLpar, Operate, Ends, Crash, Exit
  <2>6. /\ pc' \in {"check", "login"} => server'.attr["type"] \in {"VM", "LPAR"}
        /\ pc' = "operate" => server'.attr["type"] \in {"VM", "VM5", "LPAR"}
    <3>1. CASE Main /\ pc' # "done"
      <4>1. server.address # None
        <5> DEFINE o == MainObjections
        <5>1. DOMAIN o = 1..3 /\ o[1][2] = "MISSING_SERVER"
          BY DEF MainObjections
        <5>6. o[1][1] <=> server.address = None
          BY DEF MainObjections
        <5>2. FirstObjection(o) = "0"
          BY <3>1 DEF Main, Exit
        <5> HIDE DEF o
        <5>3. 1 \in {n \in DOMAIN o : o[n][1]} => FirstObjection(o) = o[1][2]
          <6> DEFINE raised == {n \in DOMAIN o : o[n][1]}
          <6> SUFFICES ASSUME 1 \in raised PROVE Min(raised) = 1
            BY DEF FirstObjection
          <6>1. \A m \in raised : m \in Int /\ 1 <= m
            BY <5>1
          <6> HIDE DEF raised
          <6> QED
            BY <6>1 DEF Min
        <5>4. 1 \notin {n \in DOMAIN o : o[n][1]}
          BY <5>1, <5>2, <5>3
        <5> QED
          BY <5>1, <5>4, <5>6
      <4> QED
        BY <1>2, <1>3, <3>1, <4>1 DEF Chosen, Attribute, Main, Login
    <3>2. CASE ~Main /\ ~Login /\ pc' # "done"
      BY <1>2, <1>3, <3>2 DEF Operating, Later, ListVm, PrepareCheck, ListLpar, Operate, Ends, Crash, Exit, Attribute
    <3> QED
      BY <1>2, <3>1, <3>2 DEF Login
  <2> QED
    BY <2>4, <2>5, <2>6 DEF Operating
<1> QED
  BY <1>6, <1>7, <1>8, <1>9, <1>10 DEF CallInv2, CallInv1

LEMMA CallStep ==
  ASSUME UInv, CallInv2, [Next]_vars
  PROVE  CallInv2'
<1>1. CASE UNCHANGED vars
  <2>1. UNCHANGED confVars /\ UNCHANGED mainVars
    BY <1>1 DEF vars
  <2>2. ConfType' /\ MainType' /\ Options' /\ AsTold' /\ Operating'
    <3>1. ToldSoFar' <=> ToldSoFar
      BY <2>1 DEF ToldSoFar, Read, mainVars
    <3> QED
      BY <2>1, <3>1, SaidStays DEF confVars, mainVars, CallInv2, CallInv1, ConfType, MainType, Read, Options, Once,
        AsTold, Operating
  <2>3. Chosen'
    <3>1. \A k : FromBoth(k)' = FromBoth(k) /\ Finally(k)' = Finally(k)
      BY <2>1, SaidStays, Zenon DEF FromBoth, Finally, confVars, mainVars
    <3> QED
      BY <2>1, <3>1, SaidStays DEF confVars, mainVars, CallInv2, CallInv1, Chosen
  <2>4. SectionFits' /\ SoleFitIsUsed'
    <3>1. Fitting' = Fitting
      BY <2>1, SaidStays DEF Fitting, confVars, mainVars
    <3> QED
      BY <2>1, <3>1, SaidStays DEF confVars, mainVars, CallInv2, SectionFits, SoleFitIsUsed
  <2> QED
    BY <2>2, <2>3, <2>4 DEF CallInv2, CallInv1
<1>2. CASE Option \/ OptionsRead \/ OptionEnds
  <2>1. /\ UNCHANGED confVars /\ UNCHANGED <<call, section, commands>> /\ pc = "options" /\ section = 0
        /\ pc' \in {"options", "config", "done"} /\ commands = <<>>
    BY <1>2 DEF Option, OptionsRead, OptionEnds, Exit, CallInv2, CallInv1, Chosen, Operating
  <2>2. MainType' /\ Options' /\ AsTold'
    <3>1. CASE OptionEnds
      BY <3>1 DEF OptionEnds, Exit, CallInv2, CallInv1, MainType, Read, Options, AsTold
    <3> QED
      BY <1>2, <3>1, OptionStep, OptionsReadStep DEF CallInv2, CallInv1
  <2>3. ConfType'
    BY <2>1 DEF CallInv2, CallInv1, ConfType, confVars
  <2>4. Chosen' /\ SectionFits' /\ SoleFitIsUsed'
    BY <2>1 DEF CallInv2, CallInv1, Chosen, SectionFits, SoleFitIsUsed, confVars
  <2>5. Operating'
    <3>1. PICK S : server'.images \in Seq(S)
      BY <2>2 DEF MainType, IsServer
    <3>2. <<>> \in Seq(S) /\ Len(<<>>) <= Len(server'.images)
      BY <3>1
    <3> QED
      BY <2>1, <3>2 DEF Operating
  <2> QED
    BY <2>2, <2>3, <2>4, <2>5 DEF CallInv2, CallInv1
<1>3. CASE ConfigFile
  <2>1. /\ pc = "config" /\ UNCHANGED mainVars
        /\ Load \/ \E named, readable, home : FindFile(named, readable, home)
    BY <1>3 DEF ConfigFile
  <2>2. ConfType' /\ section = 0 /\ section' = 0 /\ pc' = "config"
    BY <2>1, ConfTypeStep DEF CallInv2, CallInv1, Chosen, mainVars
  <2>3. MainType' /\ Options' /\ AsTold'
    BY <2>1, SaidStays DEF CallInv2, CallInv1, mainVars, MainType, Read, Options, Once, AsTold
  <2>4. Chosen'
    <3>1. Len(servers') \in Nat
      BY <2>2 DEF ConfType
    <3> QED
      BY <2>2, <3>1 DEF Chosen
  <2>5. Operating' /\ SectionFits' /\ SoleFitIsUsed'
    BY <2>1, <2>2 DEF CallInv2, mainVars, Operating, SectionFits, SoleFitIsUsed
  <2> QED
    BY <2>2, <2>3, <2>4, <2>5 DEF CallInv2, CallInv1
<1>4. CASE Configured
  <2>1. CallInv1' /\ SectionFits' /\ SoleFitIsUsed'
    BY <1>4, ConfiguredStep DEF CallInv2
  <2>2. Operating'
    <3>1. PICK S : server'.images \in Seq(S)
      BY <2>1 DEF CallInv1, MainType, IsServer
    <3>2. <<>> \in Seq(S) /\ Len(<<>>) <= Len(server'.images)
      BY <3>1
    <3> QED
      BY <1>4, <3>2 DEF CallInv2, Operating, Configured
  <2> QED
    BY <2>1, <2>2 DEF CallInv2
<1>5. CASE Later
  BY <1>5, LaterStep
<1> QED
  BY <1>1, <1>2, <1>3, <1>4, <1>5 DEF Next, Snipl, Later, Done

LEMMA CallInit ==
  ASSUME Init
  PROVE  CallInv2
<1>1. PICK i \in Input : call = i[1] /\ file = i[2]
  BY DEF Init
<1>2. /\ call \in Call /\ file \in File
      /\ \A n \in DOMAIN call.argv : call.argv[n].opt \in WithArgument => call.argv[n].value # None
  BY <1>1, SniplMainAssumption, ArgumentAssumption
<1>3. Len(call.argv) \in Nat /\ Len(file) \in Nat
  BY <1>2 DEF Call, File
<1>4. /\ server = [NewServer(None) EXCEPT !.images = <<>>] /\ commands = <<>> /\ section = 0
      /\ option = 1 /\ specified = {} /\ pc = "options" /\ ConfInit
  BY DEF Init
<1>5. server = [address |-> None, attr |-> [k \in Attribute |-> None], images |-> <<>>]
  BY <1>4 DEF NewServer
<1>6. <<>> \in Seq({}) /\ None \in Text /\ Len(<<>>) <= Len(server.images)
  BY <1>5 DEF Text
<1>7. ConfType
  <2>1. <<>> \in Seq(Section) /\ Len(<<>>) = 0
    OBVIOUS
  <2> QED
    BY <1>2, <1>3, <1>4, <2>1 DEF ConfInit, ConfType
<1>8. IsServer(server)
  BY <1>5, <1>6 DEF IsServer
<1>9. Read = {}
  BY <1>4 DEF Read
<1>10. MainType
  BY <1>2, <1>3, <1>4, <1>8, <1>9 DEF MainType
<1>11. Once /\ ToldSoFar
  BY <1>4, <1>5, <1>9 DEF Once, ToldSoFar, Attribute
<1>12. Options /\ AsTold /\ SectionFits /\ SoleFitIsUsed
  BY <1>4, <1>11 DEF Options, AsTold, SectionFits, SoleFitIsUsed
<1>13. Chosen /\ Operating
  <2>1. section \in 0..Len(servers)
    BY <1>4, <1>7 DEF ConfType
  <2> QED
    BY <1>4, <1>6, <2>1 DEF Chosen, Operating
<1> QED
  BY <1>7, <1>10, <1>12, <1>13 DEF CallInv2, CallInv1

LEMMA CallAlways == Spec => [](UInv /\ CallInv2)
  BY UInit, UStep, CallInit, CallStep, PTL DEF Spec

\* However many lines, sections and options there are: indices stay in range, main's loops stay
\* within what they walk over, and nothing is given to a server before its type is known.
THEOREM CallStaysTyped == Spec => []IInv
<1>1. UInv /\ CallInv2 => TypeOK
  BY DEF CallInv2, CallInv1, ConfType, MainType, Chosen, Operating, TypeOK
<1> QED
  BY <1>1, CallAlways, SectionsAreUnique, PTL DEF IInv

\* However many sections the file has, the section that is used fits the address, the type, the
\* user and the image of the command line, and the only one that fits is not missed.
THEOREM UsesRightSection == Spec => []RightSection
<1>1. UInv /\ CallInv2 => RightSection
  BY DEF CallInv2, RightSection
<1> QED
  BY <1>1, CallAlways, PTL

\* Whatever options were given, in whatever order: at the login every attribute of the server is
\* what the command line says, else what the section says, else the default.
THEOREM CommandLineGoesFirst == Spec => []CommandLineWins
<1>1. UInv /\ CallInv2 => CommandLineWins
  BY DEF CallInv2, CallInv1, Chosen, CommandLineWins, Finally, FromBoth, None
<1> QED
  BY <1>1, CallAlways, PTL
(***************************************************************************)
(* The parameters.                                                         *)
(***************************************************************************)
Word == Text \cup {"short, padded", "OPUNKNOWN", "ACTIVATE", "STOP", "LOAD", "GETSTATUS", "SCSILOAD", "SCSIDUMP",
                   "DEACTIVATE", "RESET", "DIALOG", "LIST"}

Parms ==
  [force : Int, clear : Int, store_stat : Int, load_timeout : Int, scsiload_bps : Int, msg_timeout : Int,
   shutdown_time : Int, timeout : Int, profile : Word, load_address : Word, load_parms : Word,
   scsiload_wwpn : Word, scsiload_lun : Word, scsiload_bootrec : Word, scsiload_ossparms : Word,
   msgfilename : Word, image_op : Word]

\* The parameters q that an option c leaves of p.
TakenFrom(p, q, c, v, n, w, h) ==
  /\ q.image_op = (IF c \in DOMAIN Operation THEN Operation[c] ELSE p.image_op)
  /\ q.clear = (IF c = "C" THEN 0 ELSE p.clear)
  /\ q.store_stat = (IF c = "S" THEN 1 ELSE p.store_stat)
  /\ q.load_timeout = (IF c = "T" THEN h ELSE p.load_timeout)
  /\ q.scsiload_bps = (IF c = "B" THEN h ELSE p.scsiload_bps)
  /\ q.msg_timeout = (IF c = "m" THEN n ELSE p.msg_timeout)
  /\ q.profile = (IF c = "N" THEN v ELSE p.profile)
  /\ q.load_address = (IF c = "A" THEN v ELSE p.load_address)
  /\ q.load_parms = (IF c = "R" THEN v ELSE p.load_parms)
  /\ q.scsiload_wwpn = (IF c = "W" THEN w ELSE p.scsiload_wwpn)
  /\ q.scsiload_lun = (IF c = "I" THEN w ELSE p.scsiload_lun)
  /\ q.scsiload_bootrec = (IF c = "E" THEN w ELSE p.scsiload_bootrec)
  /\ q.scsiload_ossparms = (IF c = "O" THEN v ELSE p.scsiload_ossparms)

LEMMA SetFacts ==
  ASSUME NEW p \in Parms, NEW c, NEW v \in Word, NEW n \in Int,
         NEW q, NEW w, NEW h, q = Set(p, c, v, n), w = Padded(v), h = Short(n)
  PROVE  /\ q \in Parms
         /\ TakenFrom(p, q, c, v, n, w, h)
<1>1. DOMAIN Operation = {"a", "o", "l", "g", "s", "D", "d", "r", "i", "x"}
  BY DEF Operation
<1>2. \A k \in DOMAIN Operation : Operation[k] \in Word
  <2>1. /\ Operation["a"] = "ACTIVATE" /\ Operation["o"] = "STOP" /\ Operation["l"] = "LOAD"
        /\ Operation["g"] = "GETSTATUS" /\ Operation["s"] = "SCSILOAD" /\ Operation["D"] = "SCSIDUMP"
        /\ Operation["d"] = "DEACTIVATE" /\ Operation["r"] = "RESET" /\ Operation["i"] = "DIALOG"
        /\ Operation["x"] = "LIST"
    BY DEF Operation
  <2> QED
    BY <1>1, <2>1 DEF Word
<1>3. Padded(v) \in Word /\ Short(n) \in Int
  <2>1. (n + 32768) % 65536 \in Int
    OBVIOUS
  <2>2. Short(n) \in Int
    BY <2>1 DEF Short
  <2>3. Padded(v) \in Word
    BY DEF Padded, Word
  <2> QED
    BY <2>2, <2>3
<1>4. CASE c \in DOMAIN Operation
  <2>1. q = [p EXCEPT !.image_op = Operation[c]]
    BY <1>1, <1>4 DEF Set
  <2>2. c \notin {"F", "C", "S", "T", "B", "m", "X", "t", "N", "A", "R", "W", "I", "E", "O", "M"}
    BY <1>1, <1>4
  <2> QED
    BY <1>2, <1>4, <2>1, <2>2 DEF Parms, TakenFrom
<1>5. CASE c \notin DOMAIN Operation /\ c \notin {"F", "C", "S", "T", "B", "m", "X", "t", "N", "A", "R", "W", "I", "E", "O", "M"}
  <2>1. q = p
    BY <1>1, <1>5 DEF Set
  <2> QED
    BY <1>5, <2>1 DEF TakenFrom
<1>6. CASE c \in {"F", "C", "S", "T", "B", "m", "X", "t"}
  <2>1. c \notin DOMAIN Operation
    BY <1>1, <1>6
  <2>2. q = CASE c = "F" -> [p EXCEPT !.force = 1]
              [] c = "C" -> [p EXCEPT !.clear = 0]
              [] c = "S" -> [p EXCEPT !.store_stat = 1]
              [] c = "T" -> [p EXCEPT !.load_timeout = h]
              [] c = "B" -> [p EXCEPT !.scsiload_bps = h]
              [] c = "m" -> [p EXCEPT !.msg_timeout = n]
              [] c = "X" -> [p EXCEPT !.shutdown_time = n]
              [] c = "t" -> [p EXCEPT !.timeout = n]
    BY <1>6, <2>1 DEF Set
  <2> QED
    BY <1>3, <1>6, <2>1, <2>2 DEF Parms, TakenFrom
<1>7. CASE c \in {"N", "A", "R", "W", "I", "E", "O", "M"}
  <2>1. c \notin DOMAIN Operation
    BY <1>1, <1>7
  <2>2. q = CASE c = "N" -> [p EXCEPT !.profile = v]
              [] c = "A" -> [p EXCEPT !.load_address = v]
              [] c = "R" -> [p EXCEPT !.load_parms = v]
              [] c = "W" -> [p EXCEPT !.scsiload_wwpn = w]
              [] c = "I" -> [p EXCEPT !.scsiload_lun = w]
              [] c = "E" -> [p EXCEPT !.scsiload_bootrec = w]
              [] c = "O" -> [p EXCEPT !.scsiload_ossparms = v]
              [] c = "M" -> [p EXCEPT !.msgfilename = v]
    BY <1>7, <2>1 DEF Set
  <2> QED
    BY <1>3, <1>7, <2>1, <2>2 DEF Parms, TakenFrom
<1> QED
  BY <1>4, <1>5, <1>6, <1>7

\* Time-outs that the C types of the parameters can hold: a short for -T, an int for -m.
Held(argv) ==
  \A n \in DOMAIN argv :
    /\ argv[n].opt = "T" =>
         argv[n].number = NotANumber \/ (argv[n].number \in Nat /\ argv[n].number < 32768)
    /\ argv[n].opt = "m" => argv[n].number = NotANumber \/ argv[n].number \in Nat

NumbersFit == \A i \in Input : Held(i[1].argv)

\* What the options read so far have left in the parameters.
ParmsSoFar ==
  /\ \A n \in Read :
       LET g == call.argv[n]
       IN  /\ g.opt \in DOMAIN Operation /\ specified \cap DOMAIN Operation \subseteq {g.opt}
                => parms.image_op = Operation[g.opt]
           /\ g.opt = "T" => parms.load_timeout = g.number /\ g.number # Undefined
           /\ g.opt = "B" => parms.scsiload_bps = g.number /\ g.number # Undefined
           /\ g.opt = "m" => parms.msg_timeout # Undefined
           /\ g.opt = "N" => parms.profile = g.value
           /\ g.opt = "A" => parms.load_address = g.value
           /\ g.opt = "R" => parms.load_parms = g.value
           /\ g.opt = "W" => parms.scsiload_wwpn = Padded(g.value)
           /\ g.opt = "I" => parms.scsiload_lun = Padded(g.value)
           /\ g.opt = "E" => parms.scsiload_bootrec = Padded(g.value)
           /\ g.opt = "O" => parms.scsiload_ossparms = g.value
  /\ specified \cap DOMAIN Operation = {} => parms.image_op = "OPUNKNOWN"
  /\ "T" \notin specified => parms.load_timeout = Undefined
  /\ "B" \notin specified => parms.scsiload_bps = Undefined
  /\ "N" \notin specified => parms.profile = None
  /\ "A" \notin specified => parms.load_address = None
  /\ "R" \notin specified => parms.load_parms = None
  /\ "W" \notin specified => parms.scsiload_wwpn = None
  /\ "I" \notin specified => parms.scsiload_lun = None
  /\ "E" \notin specified => parms.scsiload_bootrec = None
  /\ "O" \notin specified => parms.scsiload_ossparms = None
  /\ parms.clear = (IF "C" \in specified THEN 0 ELSE Undefined)
  /\ parms.store_stat = (IF "S" \in specified THEN 1 ELSE Undefined)

\* The operands of the command line: those no operation changes, and those of a load before and
\* after its defaults were written into the parameters.
Strings ==
  /\ parms.profile = Said("N") /\ parms.load_address = Said("A") /\ parms.load_parms = Said("R")
  /\ parms.scsiload_wwpn = Padded(Said("W")) /\ parms.scsiload_lun = Padded(Said("I"))
  /\ parms.scsiload_bootrec = Padded(Said("E")) /\ parms.scsiload_ossparms = Said("O")
  /\ parms.scsiload_bps = SaidNumber("B", Undefined)

BeforeLoad ==
  /\ parms.clear = (IF "C" \in specified THEN 0 ELSE Undefined)
  /\ parms.store_stat = (IF "S" \in specified THEN 1 ELSE Undefined)
  /\ parms.load_timeout = SaidNumber("T", Undefined)

AfterLoad ==
  /\ parms.clear = (IF {"C", "S"} \cap specified # {} THEN 0 ELSE 1)
  /\ parms.store_stat = (IF "S" \in specified THEN 1 ELSE 0)
  /\ parms.load_timeout = SaidNumber("T", 60)

\* A time-out that was given is not taken for one that was not.
Noted == "T" \in specified => SaidNumber("T", Undefined) # Undefined

ParmsAsTold ==
  /\ Strings /\ BeforeLoad /\ Noted
  /\ "B" \in specified => parms.scsiload_bps # Undefined
  /\ "m" \in specified => parms.msg_timeout # Undefined
  /\ \A c \in specified \cap DOMAIN Operation : parms.image_op = Operation[c]
  /\ specified \cap DOMAIN Operation = {} => parms.image_op = "OPUNKNOWN"

Permitted ==
  /\ specified \cap (IF server.attr["type"] = "LPAR" THEN Excluded["L"] \ {"X"} ELSE Excluded["V"]) = {}
  /\ Cardinality(specified \cap DOMAIN Operation) = 1

CommandInv ==
  /\ Held(call.argv) /\ parms \in Parms
  /\ pc = "options" /\ code = "0" => ParmsSoFar
  /\ pc \in {"config", "main", "check"} => ParmsAsTold
  /\ pc = "check" => specified \cap DOMAIN Operation # {}
  /\ pc \in {"login", "operate"} => Permitted /\ Strings /\ Noted /\ (BeforeLoad \/ AfterLoad)
  /\ commands # <<>> => Permitted
  /\ OperandsAsGiven

LEMMA SaidNumberFacts ==
  ASSUME MainType, Once, option = Len(call.argv) + 1
  PROVE  /\ \A n \in DOMAIN call.argv : \A d : SaidNumber(call.argv[n].opt, d) = call.argv[n].number
         /\ \A c, d : c \notin specified => SaidNumber(c, d) = d
<1>1. Read = DOMAIN call.argv
  BY SaidFacts
<1>2. ASSUME NEW n \in DOMAIN call.argv, NEW d
      PROVE  SaidNumber(call.argv[n].opt, d) = call.argv[n].number
  <2> DEFINE at == {m \in DOMAIN call.argv : call.argv[m].opt = call.argv[n].opt}
  <2>1. at = {n}
    BY <1>1 DEF Once
  <2>2. n \in Int /\ at # {}
    BY <2>1, CallFacts
  <2>3. Max(at) = n
    BY <2>1, <2>2, MaxOfOne
  <2> QED
    BY <2>2, <2>3 DEF SaidNumber
<1>3. ASSUME NEW c, NEW d, c \notin specified
      PROVE  SaidNumber(c, d) = d
  <2>1. {m \in DOMAIN call.argv : call.argv[m].opt = c} = {}
    BY <1>1, <1>3 DEF MainType
  <2> QED
    BY <2>1 DEF SaidNumber
<1> QED
  BY <1>2, <1>3

\* Any two operations exclude each other.
LEMMA OneOperation ==
  ASSUME NEW given, ~ConflictIn(given), NEW c \in given \cap DOMAIN Operation
  PROVE  given \cap DOMAIN Operation = {c}
<1>1. DOMAIN Operation = {"a", "o", "l", "g", "s", "D", "d", "r", "i", "x"}
  BY DEF Operation
<1>2. \A k \in DOMAIN Excluded \cap given : Excluded[k] \cap given = {}
  BY DEF ConflictIn
<1>3. {"o", "l", "s", "D", "a", "d", "r", "i", "x"} \subseteq DOMAIN Excluded
  BY DEF Excluded
<1>4. /\ {"l", "s", "D", "a", "d", "r", "i", "x", "g"} \subseteq Excluded["o"]
      /\ {"s", "D", "a", "d", "r", "i", "x", "g"} \subseteq Excluded["l"]
      /\ {"D", "a", "d", "r", "i", "x", "g"} \subseteq Excluded["s"]
      /\ {"a", "d", "r", "i", "x", "g"} \subseteq Excluded["D"]
      /\ {"d", "r", "i", "x", "g"} \subseteq Excluded["a"]
      /\ {"r", "i", "x", "g"} \subseteq Excluded["d"]
      /\ {"i", "x", "g"} \subseteq Excluded["r"]
      /\ {"x", "g"} \subseteq Excluded["i"]
      /\ {"g"} \subseteq Excluded["x"]
  BY DEF Excluded
<1> QED
  BY <1>1, <1>2, <1>3, <1>4

LEMMA BadFacts ==
  ASSUME NEW c, NEW v, NEW n, ~Bad(c, v, n)
  PROVE  /\ c = "T" => n # NotANumber
         /\ c = "m" => n # NotANumber
         /\ c = "B" => n \in 0..30
<1>1. ASSUME c = "T" PROVE n # NotANumber
  BY <1>1 DEF Bad
<1>2. ASSUME c = "m" PROVE n # NotANumber
  BY <1>2 DEF Bad
<1>3. ASSUME c = "B" PROVE n \in 0..30
  BY <1>3 DEF Bad
<1> QED
  BY <1>1, <1>2, <1>3

LEMMA ShortFits ==
  ASSUME NEW n \in Nat, n < 32768
  PROVE  Short(n) = n
<1>1. n + 32768 \in Int /\ 0 <= n + 32768 /\ n + 32768 < 65536
  OBVIOUS
<1>2. (n + 32768) % 65536 = n + 32768
  BY <1>1
<1> QED
  BY <1>2 DEF Short

\* A number that is taken for the parameter is kept as it is, and is none that stands for no number.
LEMMA TakenNumbers ==
  ASSUME NEW c, NEW v, NEW n, ~Bad(c, v, n),
         c = "T" => n = NotANumber \/ (n \in Nat /\ n < 32768), c = "m" => n = NotANumber \/ n \in Nat
  PROVE  /\ c = "T" => Short(n) = n /\ n # Undefined
         /\ c = "B" => Short(n) = n /\ n # Undefined
         /\ c = "m" => n # Undefined
<1>1. c \in {"T", "B"} => n \in Nat /\ n < 32768
  BY BadFacts
<1>2. c = "m" => n \in Nat
  BY BadFacts
<1>3. \A k \in Nat : k # Undefined
  BY DEF Undefined
<1> QED
  <2>1. n \in Nat /\ n < 32768 => Short(n) = n
    BY ShortFits
  <2> QED
    BY <1>1, <1>2, <1>3, <2>1

LEMMA ParmsOptionStep ==
  ASSUME MainType, Options, parms \in Parms, pc = "options" /\ code = "0" => ParmsSoFar, Held(call.argv), Option
  PROVE  /\ parms' \in Parms
         /\ code' = "0" => ParmsSoFar'
<1>1. PICK c, v, n : c = Given.opt /\ v = Given.value /\ n = Given.number
  OBVIOUS
<1>2. /\ pc = "options" /\ call' = call /\ option \in 1..Len(call.argv) /\ option \in DOMAIN call.argv
      /\ option' = option + 1 /\ specified' = specified \cup {c} /\ parms' = Set(parms, c, v, n)
      /\ code' = "0" => code = "0" /\ c \notin specified /\ ~Bad(c, v, n)
      /\ call.argv[option].opt = c /\ call.argv[option].value = v /\ call.argv[option].number = n
  BY <1>1, CallFacts DEF Option, Given
<1>3. v \in Word /\ n \in Int
  BY <1>2, CallFacts DEF Word
<1>4. Read' = Read \cup {option} /\ option \notin Read
  BY <1>2, CallFacts DEF Read
<1>5. \A m \in Read : call.argv[m].opt \in specified
  BY DEF MainType
<1>6. parms' \in Parms
  <2>1. PICK h, w, q : h = Short(n) /\ w = Padded(v) /\ q = Set(parms, c, v, n)
    OBVIOUS
  <2>2. q \in Parms
    BY <1>3, <2>1, SetFacts, Zenon
  <2> QED
    BY <1>2, <2>1, <2>2
<1>7. ASSUME code' = "0"
      PROVE  ParmsSoFar'
  <2>1. \A m \in Read : call.argv[m].opt # c
    BY <1>2, <1>5, <1>7
  <2>2. ParmsSoFar /\ c \notin specified
    BY <1>2, <1>7
  <2>3. /\ c = "T" => Short(n) = n /\ n # Undefined
        /\ c = "B" => Short(n) = n /\ n # Undefined
        /\ c = "m" => n # Undefined
    <3>1. ~Bad(c, v, n)
      BY <1>2, <1>7
    <3>2. /\ c = "T" => n = NotANumber \/ (n \in Nat /\ n < 32768)
          /\ c = "m" => n = NotANumber \/ n \in Nat
      <4>1. \A m \in DOMAIN call.argv :
              /\ call.argv[m].opt = "T" => call.argv[m].number = NotANumber \/ (call.argv[m].number \in Nat /\ call.argv[m].number < 32768)
              /\ call.argv[m].opt = "m" => call.argv[m].number = NotANumber \/ call.argv[m].number \in Nat
        BY DEF Held
      <4> QED
        BY <1>2, <4>1
    <3> QED
      BY <3>1, <3>2, TakenNumbers
  <2>4. PICK h, w, q : h = Short(n) /\ w = Padded(v) /\ q = Set(parms, c, v, n)
    OBVIOUS
  <2>5. TakenFrom(parms, q, c, v, n, w, h)
    BY <1>3, <2>4, SetFacts, Zenon
  <2>6. parms' = q /\ specified' = specified \cup {c}
    BY <1>2, <2>4
  <2> DEFINE Left(g) ==
        /\ g.opt \in DOMAIN Operation /\ (specified \cup {c}) \cap DOMAIN Operation \subseteq {g.opt}
             => q.image_op = Operation[g.opt]
        /\ g.opt = "T" => q.load_timeout = g.number /\ g.number # Undefined
        /\ g.opt = "B" => q.scsiload_bps = g.number /\ g.number # Undefined
        /\ g.opt = "m" => q.msg_timeout # Undefined
        /\ g.opt = "N" => q.profile = g.value
        /\ g.opt = "A" => q.load_address = g.value
        /\ g.opt = "R" => q.load_parms = g.value
        /\ g.opt = "W" => q.scsiload_wwpn = Padded(g.value)
        /\ g.opt = "I" => q.scsiload_lun = Padded(g.value)
        /\ g.opt = "E" => q.scsiload_bootrec = Padded(g.value)
        /\ g.opt = "O" => q.scsiload_ossparms = g.value
  <2>7. Left(call.argv[option])
    BY <1>2, <2>3, <2>4, <2>5 DEF TakenFrom
  <2>8. ASSUME NEW m \in Read
        PROVE  Left(call.argv[m])
    <3>1. PICK g : g = call.argv[m] /\ g.opt # c
      BY <2>1
    <3>2. /\ g.opt \in DOMAIN Operation /\ specified \cap DOMAIN Operation \subseteq {g.opt}
               => parms.image_op = Operation[g.opt]
          /\ g.opt = "T" => parms.load_timeout = g.number /\ g.number # Undefined
          /\ g.opt = "B" => parms.scsiload_bps = g.number /\ g.number # Undefined
          /\ g.opt = "m" => parms.msg_timeout # Undefined
          /\ g.opt = "N" => parms.profile = g.value
          /\ g.opt = "A" => parms.load_address = g.value
          /\ g.opt = "R" => parms.load_parms = g.value
          /\ g.opt = "W" => parms.scsiload_wwpn = Padded(g.value)
          /\ g.opt = "I" => parms.scsiload_lun = Padded(g.value)
          /\ g.opt = "E" => parms.scsiload_bootrec = Padded(g.value)
          /\ g.opt = "O" => parms.scsiload_ossparms = g.value
      BY <2>2, <3>1 DEF ParmsSoFar
    <3> QED
      BY <2>5, <3>1, <3>2 DEF TakenFrom
  <2>9. /\ (specified \cup {c}) \cap DOMAIN Operation = {} => q.image_op = "OPUNKNOWN"
        /\ "T" \notin specified \cup {c} => q.load_timeout = Undefined
        /\ "B" \notin specified \cup {c} => q.scsiload_bps = Undefined
        /\ "N" \notin specified \cup {c} => q.profile = None
        /\ "A" \notin specified \cup {c} => q.load_address = None
        /\ "R" \notin specified \cup {c} => q.load_parms = None
        /\ "W" \notin specified \cup {c} => q.scsiload_wwpn = None
        /\ "I" \notin specified \cup {c} => q.scsiload_lun = None
        /\ "E" \notin specified \cup {c} => q.scsiload_bootrec = None
        /\ "O" \notin specified \cup {c} => q.scsiload_ossparms = None
        /\ q.clear = (IF "C" \in specified \cup {c} THEN 0 ELSE Undefined)
        /\ q.store_stat = (IF "S" \in specified \cup {c} THEN 1 ELSE Undefined)
    BY <2>2, <2>5 DEF ParmsSoFar, TakenFrom
  <2>10. \A m \in Read' : Left(call.argv[m])
    <3> HIDE DEF Left
    <3> QED
      BY <1>4, <2>7, <2>8
  <2> QED
    BY <1>2, <2>6, <2>9, <2>10 DEF ParmsSoFar
<1> QED
  BY <1>6, <1>7

LEMMA ParmsRead ==
  ASSUME MainType, Once, option = Len(call.argv) + 1, ~ConflictIn(specified), ParmsSoFar
  PROVE  ParmsAsTold
<1>1. specified = {call.argv[n].opt : n \in DOMAIN call.argv} /\ Read = DOMAIN call.argv
  BY SaidFacts DEF MainType
<1>2. /\ \A n \in DOMAIN call.argv : Said(call.argv[n].opt) = call.argv[n].value
      /\ \A n \in DOMAIN call.argv : \A d : SaidNumber(call.argv[n].opt, d) = call.argv[n].number
  BY SaidFacts, SaidNumberFacts
<1>3. \A c : c \notin specified => Said(c) = None /\ \A d : SaidNumber(c, d) = d
  BY SaidFacts, SaidNumberFacts
<1>4. \A c \in specified : \E n \in DOMAIN call.argv :
        call.argv[n].opt = c /\ call.argv[n].value = Said(c) /\ call.argv[n].number = SaidNumber(c, Undefined)
  <2>1. ASSUME NEW n \in DOMAIN call.argv
        PROVE  /\ call.argv[n].value = Said(call.argv[n].opt)
               /\ call.argv[n].number = SaidNumber(call.argv[n].opt, Undefined)
    BY <1>2
  <2> QED
    BY <1>1, <2>1
<1>5. Padded(None) = None
  BY DEF Padded, None
<1>6. parms.profile = Said("N") /\ parms.load_address = Said("A") /\ parms.load_parms = Said("R")
  BY <1>1, <1>3, <1>4 DEF ParmsSoFar
<1>7. /\ parms.scsiload_wwpn = Padded(Said("W")) /\ parms.scsiload_lun = Padded(Said("I"))
      /\ parms.scsiload_bootrec = Padded(Said("E")) /\ parms.scsiload_ossparms = Said("O")
  BY <1>1, <1>3, <1>4, <1>5 DEF ParmsSoFar
<1>8. SaidNumber("T", Undefined) = Undefined \/ "T" \in specified
  BY <1>3
<1>9. SaidNumber("B", Undefined) = Undefined \/ "B" \in specified
  BY <1>3
<1>10. /\ parms.scsiload_bps = SaidNumber("B", Undefined) /\ parms.load_timeout = SaidNumber("T", Undefined)
       /\ "T" \in specified => SaidNumber("T", Undefined) # Undefined
       /\ "B" \in specified => parms.scsiload_bps # Undefined
       /\ "m" \in specified => parms.msg_timeout # Undefined
  BY <1>1, <1>4, <1>8, <1>9 DEF ParmsSoFar
<1>11. ASSUME NEW c \in specified \cap DOMAIN Operation
      PROVE  parms.image_op = Operation[c]
  <2>1. specified \cap DOMAIN Operation = {c}
    BY OneOperation
  <2>2. PICK n \in Read : call.argv[n].opt = c
    BY <1>1
  <2> QED
    BY <2>1, <2>2 DEF ParmsSoFar
<1>12. Strings
  BY <1>6, <1>7, <1>10 DEF Strings
<1>13. BeforeLoad /\ Noted
  BY <1>10 DEF BeforeLoad, Noted, ParmsSoFar
<1>14. specified \cap DOMAIN Operation = {} => parms.image_op = "OPUNKNOWN"
  BY DEF ParmsSoFar
<1> QED
  BY <1>10, <1>11, <1>12, <1>13, <1>14 DEF ParmsAsTold

(***************************************************************************)
(* The checks: with the code 0 there is no objection.                      *)
(***************************************************************************)
LEMMA NoneRaised ==
  ASSUME NEW o, NEW m \in Nat, DOMAIN o = 1..m, \A n \in 1..m : o[n][2] # "0",
         FirstObjection(o) = "0" \/ LastObjection(o) = "0"
  PROVE  \A n \in 1..m : ~o[n][1]
<1> DEFINE raised == {n \in DOMAIN o : o[n][1]}
<1>1. \A k \in raised : k \in 1..m /\ o[k][2] # "0"
  OBVIOUS
<1>2. raised # {} => Min(raised) \in raised
  <2> HIDE DEF raised
  <2> SUFFICES ASSUME raised # {} PROVE \E x \in raised : \A y \in raised : x <= y
    BY DEF Min
  <2>1. raised \subseteq Nat
    BY <1>1
  <2> QED
    BY <2>1, LeastNatural
<1>3. raised # {} => Max(raised) \in raised
  <2> DEFINE left == {m - k : k \in raised}
  <2> HIDE DEF raised
  <2> SUFFICES ASSUME raised # {} PROVE \E x \in raised : \A y \in raised : x >= y
    BY DEF Max
  <2>1. left \subseteq Nat /\ left # {}
    BY <1>1
  <2>2. PICK i \in left : \A k \in left : i <= k
    <3> HIDE DEF left
    <3> QED
      BY <2>1, LeastNatural
  <2>3. PICK x \in raised : i = m - x
    BY <2>2
  <2>4. ASSUME NEW y \in raised
        PROVE  x >= y
    <3>1. m - x <= m - y
      BY <2>2, <2>3
    <3> QED
      BY <1>1, <3>1
  <2> QED
    BY <2>4
<1>4. raised = {}
  <2>1. FirstObjection(o) = IF raised = {} THEN "0" ELSE o[Min(raised)][2]
    BY DEF FirstObjection
  <2>2. LastObjection(o) = IF raised = {} THEN "0" ELSE o[Max(raised)][2]
    BY DEF LastObjection
  <2> HIDE DEF raised
  <2> QED
    BY <1>1, <1>2, <1>3, <2>1, <2>2
<1> QED
  BY <1>4

LEMMA VmAgreed ==
  ASSUME NEW p, NEW user, NEW password, FirstObjection(VmObjections(p, user, password)) = "0"
  PROVE  /\ p.profile = NotGiven /\ p.load_address = NotGiven /\ p.load_parms = NotGiven
         /\ p.clear = Undefined /\ p.store_stat = Undefined /\ p.load_timeout = Undefined /\ p.msg_timeout = Undefined
         /\ p.scsiload_wwpn = NotGiven /\ p.scsiload_lun = NotGiven /\ p.scsiload_bps = Undefined
         /\ p.scsiload_ossparms = NotGiven /\ p.scsiload_bootrec = NotGiven
         /\ p.image_op \notin {"STOP", "LOAD", "DIALOG", "LIST", "SCSILOAD", "SCSIDUMP"}
<1> DEFINE o == VmObjections(p, user, password)
<1>1. DOMAIN o = 1..16 /\ \A n \in 1..16 : o[n][2] # "0"
  BY DEF VmObjections
<1>2. /\ o[4][1] <=> p.profile # NotGiven
      /\ o[5][1] <=> p.load_address # NotGiven
      /\ o[6][1] <=> p.load_parms # NotGiven
      /\ o[7][1] <=> p.clear # Undefined
      /\ o[8][1] <=> p.store_stat # Undefined
      /\ o[9][1] <=> p.load_timeout # Undefined
      /\ o[10][1] <=> p.msg_timeout # Undefined
      /\ o[11][1] <=> p.scsiload_wwpn # NotGiven
      /\ o[12][1] <=> p.scsiload_lun # NotGiven
      /\ o[13][1] <=> p.scsiload_bps # Undefined
      /\ o[14][1] <=> p.scsiload_ossparms # NotGiven
      /\ o[15][1] <=> p.scsiload_bootrec # NotGiven
      /\ o[16][1] <=> p.image_op \in {"STOP", "LOAD", "DIALOG", "LIST", "SCSILOAD", "SCSIDUMP"}
  BY DEF VmObjections
<1> HIDE DEF o
<1>3. \A n \in 1..16 : ~o[n][1]
  BY <1>1, NoneRaised DEF o
<1> QED
  BY <1>2, <1>3

LEMMA LparShape ==
  ASSUME NEW p, NEW user, NEW password, NEW port, NEW encryption, NEW several, NEW longName
  PROVE  DOMAIN LparObjections(p, user, password, port, encryption, several, longName) = 1..18
  BY DEF LparObjections

LEMMA LparAgreed ==
  ASSUME NEW p, NEW user, NEW password, NEW port, NEW encryption, NEW several, NEW longName,
         LastObjection(LparObjections(p, user, password, port, encryption, several, longName)) = "0"
  PROVE  ~port
<1> DEFINE o == LparObjections(p, user, password, port, encryption, several, longName)
<1>1. DOMAIN o = 1..18
  BY LparShape
<1>2. /\ o[1][2] # "0" /\ o[2][2] # "0" /\ o[3][2] # "0" /\ o[4][2] # "0" /\ o[5][2] # "0" /\ o[6][2] # "0"
      /\ o[7][2] # "0" /\ o[8][2] # "0" /\ o[9][2] # "0" /\ o[10][2] # "0" /\ o[11][2] # "0" /\ o[12][2] # "0"
      /\ o[13][2] # "0" /\ o[14][2] # "0" /\ o[15][2] # "0" /\ o[16][2] # "0" /\ o[17][2] # "0" /\ o[18][2] # "0"
  BY DEF LparObjections
<1>3. o[3][1] <=> port
  BY DEF LparObjections
<1> HIDE DEF o
<1>4. \A n \in 1..18 : o[n][2] # "0"
  BY <1>2
<1>5. \A n \in 1..18 : ~o[n][1]
  BY <1>1, <1>4, NoneRaised DEF o
<1> QED
  BY <1>3, <1>5

LEMMA PermittedAtCheck ==
  ASSUME CallInv2, CommandInv, pc = "check", Objection = "0"
  PROVE  Permitted
<1>1. /\ MainType /\ Once /\ option = Len(call.argv) + 1 /\ ~ConflictIn(specified)
      /\ ParmsAsTold /\ specified \cap DOMAIN Operation # {}
      /\ server.attr["type"] \in {"VM", "LPAR"}
      /\ \A k \in Attribute : server.attr[k] = Finally(k)
  BY DEF CallInv2, CallInv1, Options, CommandInv, Operating, Chosen
<1>2. Cardinality(specified \cap DOMAIN Operation) = 1
  <2>1. PICK c \in specified \cap DOMAIN Operation : TRUE
    BY <1>1
  <2>2. specified \cap DOMAIN Operation = {c}
    BY <1>1, OneOperation
  <2> QED
    BY <2>2, FS_Singleton
<1>3. \A c \in WithArgument : c \in specified => Said(c) # None
  BY <1>1, SaidSomething
<1>4. CASE server.attr["type"] = "LPAR"
  <2>1. ~(server.attr["port"] # None)
    <3>1. PICK user, password, port, encryption, several, longName :
            /\ user = (server.attr["user"] # None) /\ password = (server.attr["password"] # None)
            /\ port = (server.attr["port"] # None) /\ encryption = (server.attr["encryption"] = "yes")
            /\ several = (Len(server.images) > 1)
            /\ longName = (\E n \in DOMAIN server.images : server.images[n].stem = "too long")
      OBVIOUS
    <3>2. LastObjection(LparObjections(parms, user, password, port, encryption, several, longName)) = "0"
      BY <1>4, <3>1, Zenon DEF Objection
    <3>3. ~port
      BY <3>2, LparAgreed, Zenon
    <3> QED
      BY <3>1, <3>3
  <2>2. "z" \in specified => server.attr["port"] = Said("z") /\ Said("z") # None
    BY <1>1, <1>3 DEF WithArgument, Attribute, Finally, FromBoth, SaidOf
  <2>3. Excluded["L"] \ {"X"} = {"z"}
    BY DEF Excluded
  <2> QED
    BY <1>2, <1>4, <2>1, <2>2, <2>3 DEF Permitted
<1>5. CASE server.attr["type"] = "VM"
  <2>1. FirstObjection(VmObjections(parms, server.attr["user"] # None, server.attr["password"] # None)) = "0"
    BY <1>5 DEF Objection
  <2>2. /\ parms.profile = NotGiven /\ parms.load_address = NotGiven /\ parms.load_parms = NotGiven
        /\ parms.clear = Undefined /\ parms.store_stat = Undefined /\ parms.load_timeout = Undefined
        /\ parms.msg_timeout = Undefined
        /\ parms.scsiload_wwpn = NotGiven /\ parms.scsiload_lun = NotGiven /\ parms.scsiload_bps = Undefined
        /\ parms.scsiload_ossparms = NotGiven /\ parms.scsiload_bootrec = NotGiven
        /\ parms.image_op \notin {"STOP", "LOAD", "DIALOG", "LIST", "SCSILOAD", "SCSIDUMP"}
    BY <2>1, VmAgreed
  <2>3. "L" \notin specified
    <3>1. SUFFICES ASSUME "L" \in specified PROVE FALSE
      OBVIOUS
    <3>2. "V" \notin specified /\ Said("L") # None
      BY <1>1, <1>3, <3>1, BesideEachOther DEF WithArgument
    <3>3. Said("V") = None
      BY <1>1, <3>2, SaidFacts
    <3>4. SaidOf("type") = "LPAR"
      BY <3>2, <3>3 DEF SaidOf
    <3>5. server.attr["type"] = "LPAR"
      BY <1>1, <3>4 DEF Finally, FromBoth, Attribute, None
    <3> QED
      BY <1>5, <3>5
  <2>4. {"o", "l", "s", "D", "i"} \cap specified = {}
    <3>1. /\ Operation["o"] = "STOP" /\ Operation["l"] = "LOAD" /\ Operation["s"] = "SCSILOAD"
          /\ Operation["D"] = "SCSIDUMP" /\ Operation["i"] = "DIALOG"
          /\ {"o", "l", "s", "D", "i"} \subseteq DOMAIN Operation
      BY DEF Operation
    <3>2. \A c \in specified \cap DOMAIN Operation : parms.image_op = Operation[c]
      BY <1>1 DEF ParmsAsTold
    <3> QED
      BY <2>2, <3>1, <3>2
  <2>5. {"m", "C", "T", "S", "B"} \cap specified = {}
    <3>1. 0 # Undefined /\ 1 # Undefined
      BY DEF Undefined
    <3> QED
      BY <1>1, <2>2, <3>1 DEF ParmsAsTold, BeforeLoad, Noted
  <2>6. {"N", "A", "R", "O"} \cap specified = {}
    <3>1. Said("N") = None /\ Said("A") = None /\ Said("R") = None /\ Said("O") = None
      BY <1>1, <2>2 DEF ParmsAsTold, Strings, NotGiven, None
    <3> QED
      BY <1>3, <3>1 DEF WithArgument
  <2>7. {"W", "I", "E"} \cap specified = {}
    <3>1. \A v : Padded(v) = NotGiven => v = None
      BY DEF Padded, NotGiven, None
    <3>2. Said("W") = None /\ Said("I") = None /\ Said("E") = None
      BY <1>1, <2>2, <3>1 DEF ParmsAsTold, Strings
    <3> QED
      BY <1>3, <3>2 DEF WithArgument
  <2>8. Excluded["V"] = {"L", "o", "l", "s", "D", "i", "m", "N", "A", "R", "C", "T", "S", "W", "I", "B", "O", "E"}
    BY DEF Excluded
  <2>9. specified \cap Excluded["V"] = {}
    BY <2>3, <2>4, <2>5, <2>6, <2>7, <2>8
  <2> QED
    BY <1>2, <1>5, <2>9 DEF Permitted
<1> QED
  BY <1>1, <1>4, <1>5


(***************************************************************************)
(* The commands.                                                           *)
(***************************************************************************)
LEMMA NumbersStay ==
  ASSUME UNCHANGED <<call, specified>>
  PROVE  \A c, d : SaidNumber(c, d)' = SaidNumber(c, d)
  BY Zenon DEF SaidNumber

LEMMA ToldStays ==
  ASSUME UNCHANGED <<call, specified, parms>>
  PROVE  /\ ParmsAsTold' <=> ParmsAsTold
         /\ Strings' <=> Strings
         /\ BeforeLoad' <=> BeforeLoad
         /\ AfterLoad' <=> AfterLoad
         /\ Noted' <=> Noted
<1>1. /\ \A c : Said(c)' = Said(c)
      /\ \A c, d : SaidNumber(c, d)' = SaidNumber(c, d)
  BY SaidStays, NumbersStay
<1>2. (Strings' <=> Strings) /\ (BeforeLoad' <=> BeforeLoad) /\ (AfterLoad' <=> AfterLoad) /\ (Noted' <=> Noted)
  BY <1>1 DEF Strings, BeforeLoad, AfterLoad, Noted
<1> QED
  BY <1>1, <1>2 DEF ParmsAsTold

LEMMA CommandsStay ==
  ASSUME UNCHANGED <<call, specified, commands>>
  PROVE  OperandsAsGiven' <=> OperandsAsGiven
<1>1. /\ \A c : Said(c)' = Said(c)
      /\ \A c, d : SaidNumber(c, d)' = SaidNumber(c, d)
  BY SaidStays, NumbersStay
<1> QED
  BY <1>1, Zenon DEF OperandsAsGiven

LEMMA PermissionStays ==
  ASSUME Permitted, UNCHANGED specified, server'.attr["type"] = "LPAR" <=> server.attr["type"] = "LPAR"
  PROVE  Permitted'
  BY DEF Permitted

LEMMA HeldStays ==
  ASSUME Held(call.argv), UNCHANGED call
  PROVE  Held(call.argv)'
  BY DEF Held

\* Before the commands there is none.
LEMMA OptionsCommand ==
  ASSUME CallInv2, CommandInv, Option \/ OptionEnds \/ OptionsRead
  PROVE  CommandInv'
<1>1. pc = "options" /\ UNCHANGED <<call, commands>> /\ pc' \in {"options", "config", "done"}
  BY DEF Option, OptionEnds, OptionsRead, Exit
<1>2. commands' = <<>> /\ Held(call.argv)'
  BY <1>1, HeldStays DEF CallInv2, Operating, CommandInv
<1>3. OperandsAsGiven'
  BY <1>2 DEF OperandsAsGiven
<1>4. MainType /\ Options
  BY DEF CallInv2, CallInv1
<1>5. CASE Option
  <2>1. parms' \in Parms /\ (code' = "0" => ParmsSoFar')
    BY <1>4, <1>5, ParmsOptionStep DEF CommandInv
  <2>2. pc' = "options"
    BY <1>1, <1>5 DEF Option
  <2> QED
    BY <1>2, <1>3, <2>1, <2>2 DEF CommandInv
<1>6. CASE OptionEnds
  <2>1. pc' = "done" /\ parms' = parms
    BY <1>6 DEF OptionEnds, Exit
  <2> QED
    BY <1>2, <1>3, <2>1 DEF CommandInv
<1>7. CASE OptionsRead
  <2>1. parms' = parms /\ specified' = specified /\ pc' \in {"config", "done"} /\ option = Len(call.argv) + 1
    BY <1>4, <1>7, CallFacts DEF OptionsRead, Exit, MainType
  <2>2. pc' = "config" => code = "0" /\ ~ConflictIn(specified)
    BY <1>7 DEF OptionsRead, Exit
  <2>3. pc' = "config" => ParmsAsTold
    BY <1>1, <1>4, <2>1, <2>2, ParmsRead DEF Options, CommandInv
  <2>4. pc' = "config" => ParmsAsTold'
    BY <1>1, <2>1, <2>3, ToldStays
  <2> QED
    BY <1>2, <1>3, <2>1, <2>4 DEF CommandInv
<1> QED
  BY <1>5, <1>6, <1>7

LEMMA ConfigCommand ==
  ASSUME CallInv2, CommandInv, ConfigFile \/ Configured
  PROVE  CommandInv'
<1>1. pc = "config" /\ UNCHANGED <<call, commands, specified, parms>> /\ pc' \in {"config", "main"}
  BY DEF ConfigFile, Configured, mainVars
<1>2. commands' = <<>> /\ ParmsAsTold /\ parms \in Parms
  BY <1>1 DEF CallInv2, Operating, CommandInv
<1>3. OperandsAsGiven' /\ ParmsAsTold' /\ Held(call.argv)'
  BY <1>1, <1>2, ToldStays, HeldStays DEF OperandsAsGiven, CommandInv
<1> QED
  BY <1>1, <1>2, <1>3 DEF CommandInv

\* What comes to its end leaves the commands as they are.
LEMMA EndCommand ==
  ASSUME CallInv2, CommandInv, Crash \/ ListVm \/ ListLpar \/ Ends
  PROVE  CommandInv'
<1>1. pc' = "done" /\ UNCHANGED <<call, commands, specified, parms, server>>
  BY DEF Crash, ListVm, ListLpar, Ends, Exit
<1>2. OperandsAsGiven' /\ Held(call.argv)'
  BY <1>1, CommandsStay, HeldStays DEF CommandInv
<1>3. Permitted => Permitted'
  BY <1>1, PermissionStays
<1> QED
  BY <1>1, <1>2, <1>3 DEF CommandInv

LEMMA MainCommand ==
  ASSUME CallInv2, CommandInv, Main
  PROVE  CommandInv'
<1>1. /\ pc = "main" /\ UNCHANGED <<call, commands, specified, parms>> /\ pc' \in {"check", "done"}
      /\ pc' = "check" => FirstObjection(MainObjections) = "0"
  BY DEF Main, Exit
<1>2. commands' = <<>> /\ ParmsAsTold /\ parms \in Parms
  BY <1>1 DEF CallInv2, Operating, CommandInv
<1>3. OperandsAsGiven' /\ ParmsAsTold' /\ Held(call.argv)'
  BY <1>1, <1>2, ToldStays, HeldStays DEF OperandsAsGiven, CommandInv
<1>4. pc' = "check" => specified \cap DOMAIN Operation # {}
  <2> DEFINE o == MainObjections
  <2>1. DOMAIN o = 1..3 /\ \A n \in 1..3 : o[n][2] # "0"
    BY DEF MainObjections
  <2>2. o[2][1] <=> parms.image_op = "OPUNKNOWN"
    BY DEF MainObjections
  <2>3. ASSUME FirstObjection(o) = "0"
        PROVE  ~o[2][1]
    <3> HIDE DEF o
    <3>1. \A n \in 1..3 : ~o[n][1]
      BY <2>1, <2>3, NoneRaised
    <3> QED
      BY <3>1
  <2> QED
    BY <1>1, <1>2, <2>2, <2>3 DEF ParmsAsTold
<1> QED
  BY <1>1, <1>2, <1>3, <1>4 DEF CommandInv

LEMMA DefaultFacts ==
  ASSUME parms \in Parms, parms' = Default(parms)
  PROVE  /\ parms' \in Parms
         /\ parms'.profile = parms.profile /\ parms'.load_address = parms.load_address
         /\ parms'.load_parms = parms.load_parms /\ parms'.scsiload_wwpn = parms.scsiload_wwpn
         /\ parms'.scsiload_lun = parms.scsiload_lun /\ parms'.scsiload_bootrec = parms.scsiload_bootrec
         /\ parms'.scsiload_ossparms = parms.scsiload_ossparms /\ parms'.scsiload_bps = parms.scsiload_bps
         /\ parms'.clear = parms.clear /\ parms'.store_stat = parms.store_stat
         /\ parms'.load_timeout = parms.load_timeout /\ parms'.image_op = parms.image_op
<1> DEFINE b == IF parms.timeout = 0 THEN 60000 ELSE parms.timeout
<1>1. \/ parms' = [parms EXCEPT !.shutdown_time = 300, !.timeout = b]
      \/ parms' = [parms EXCEPT !.timeout = b]
  <2>1. CASE server.attr["type"] = "VM" /\ parms.force = Undefined /\ parms.shutdown_time = 0
    BY <2>1 DEF Default
  <2>2. CASE ~(server.attr["type"] = "VM" /\ parms.force = Undefined /\ parms.shutdown_time = 0)
    BY <2>2 DEF Default
  <2> QED
    BY <2>1, <2>2
<1>2. b \in Int
  BY DEF Parms
<1> HIDE DEF b
<1>3. CASE parms' = [parms EXCEPT !.shutdown_time = 300, !.timeout = b]
  <2>1. PICK p : p = [parms EXCEPT !.shutdown_time = 300]
    OBVIOUS
  <2>2. parms' = [p EXCEPT !.timeout = b]
    BY <1>3, <2>1, Zenon
  <2>3. p \in Parms
    BY <2>1 DEF Parms
  <2>4. /\ p.profile = parms.profile /\ p.load_address = parms.load_address
        /\ p.load_parms = parms.load_parms /\ p.scsiload_wwpn = parms.scsiload_wwpn
        /\ p.scsiload_lun = parms.scsiload_lun /\ p.scsiload_bootrec = parms.scsiload_bootrec
        /\ p.scsiload_ossparms = parms.scsiload_ossparms /\ p.scsiload_bps = parms.scsiload_bps
        /\ p.clear = parms.clear /\ p.store_stat = parms.store_stat
        /\ p.load_timeout = parms.load_timeout /\ p.image_op = parms.image_op
    BY <2>1 DEF Parms
  <2>5. parms' \in Parms
    BY <1>2, <2>2, <2>3 DEF Parms
  <2> QED
    BY <2>2, <2>3, <2>4, <2>5 DEF Parms
<1>4. CASE parms' = [parms EXCEPT !.timeout = b]
  <2>1. parms' \in Parms
    BY <1>2, <1>4 DEF Parms
  <2> QED
    BY <1>4, <2>1 DEF Parms
<1> QED
  BY <1>1, <1>3, <1>4

LEMMA CheckCommand ==
  ASSUME CallInv2, CommandInv, PrepareCheck
  PROVE  CommandInv'
<1>1. pc = "check" /\ UNCHANGED <<call, commands, specified, server>> /\ pc' \in {"login", "done"}
  BY DEF PrepareCheck, Exit
<1>2. commands' = <<>> /\ ParmsAsTold /\ parms \in Parms /\ Held(call.argv)'
  BY <1>1, HeldStays DEF CallInv2, Operating, CommandInv
<1>3. OperandsAsGiven'
  BY <1>2 DEF OperandsAsGiven
<1>4. CASE pc' = "done"
  <2>1. parms' = parms
    BY <1>1, <1>4 DEF PrepareCheck
  <2> QED
    BY <1>2, <1>3, <1>4, <2>1 DEF CommandInv
<1>5. CASE pc' = "login"
  <2>1. Objection = "0" /\ parms' = Default(parms)
    BY <1>1, <1>5 DEF PrepareCheck, Exit
  <2>2. Permitted'
    BY <1>1, <2>1, PermittedAtCheck, PermissionStays
  <2>3. /\ \A c : Said(c)' = Said(c)
        /\ \A c, d : SaidNumber(c, d)' = SaidNumber(c, d)
    BY <1>1, SaidStays, NumbersStay
  <2>4. Strings' /\ BeforeLoad' /\ Noted'
    BY <1>1, <1>2, <2>1, <2>3, DefaultFacts DEF ParmsAsTold, Strings, BeforeLoad, Noted
  <2> QED
    BY <1>2, <1>3, <1>5, <2>1, <2>2, <2>4, DefaultFacts DEF CommandInv
<1> QED
  BY <1>1, <1>4, <1>5

LEMMA LoginCommand ==
  ASSUME CallInv2, CommandInv, Login
  PROVE  CommandInv'
<1>1. /\ pc = "login" /\ pc' = "operate" /\ UNCHANGED <<call, commands, specified, parms>>
      /\ Permitted /\ Strings /\ Noted /\ (BeforeLoad \/ AfterLoad) /\ server.attr["type"] \in {"VM", "LPAR"}
  BY DEF Login, CommandInv, CallInv2, Operating
<1>2. PICK S : server \in [address : Text, attr : [Attribute -> Text], images : Seq(S)]
  BY DEF CallInv2, CallInv1, MainType, IsServer
<1>3. server'.attr["type"] = "LPAR" <=> server.attr["type"] = "LPAR"
  <2>1. PICK type, g :
          /\ type \in IF server.attr["type"] = "VM" THEN {"VM", "VM5"} ELSE {"LPAR"}
          /\ server' = [server EXCEPT !.attr["type"] = type, !.images = g]
    BY DEF Login
  <2>2. "type" \in Attribute
    BY DEF Attribute
  <2>3. server'.attr["type"] = type
    BY <1>2, <2>1, <2>2
  <2> QED
    BY <1>1, <2>1, <2>3
<1>4. /\ Permitted' /\ Strings' /\ Noted' /\ (BeforeLoad' \/ AfterLoad')
      /\ OperandsAsGiven' /\ Held(call.argv)' /\ parms' \in Parms
  BY <1>1, <1>3, PermissionStays, ToldStays, CommandsStay, HeldStays DEF CommandInv
<1> QED
  BY <1>1, <1>4 DEF CommandInv

\* What an operation leaves in the parameters: a load writes its defaults there.
LEMMA OperatedFacts ==
  ASSUME NEW p \in Parms, NEW q, q = Operated(p)
  PROVE  /\ q \in Parms
         /\ q.profile = p.profile /\ q.load_address = p.load_address /\ q.load_parms = p.load_parms
         /\ q.scsiload_wwpn = p.scsiload_wwpn /\ q.scsiload_lun = p.scsiload_lun
         /\ q.scsiload_bootrec = p.scsiload_bootrec /\ q.scsiload_ossparms = p.scsiload_ossparms
         /\ q.scsiload_bps = p.scsiload_bps /\ q.image_op = p.image_op
         /\ p.image_op # "LOAD" => q = p
         /\ p.image_op = "LOAD" =>
              /\ q.clear = (IF p.clear # Undefined THEN p.clear ELSE IF p.store_stat = 1 THEN 0 ELSE 1)
              /\ q.load_timeout = (IF p.load_timeout = Undefined THEN 60 ELSE p.load_timeout)
              /\ q.store_stat = (IF p.store_stat = Undefined THEN 0 ELSE p.store_stat)
<1>1. CASE p.image_op # "LOAD"
  BY <1>1 DEF Operated
<1>2. CASE p.image_op = "LOAD"
  <2> DEFINE c == IF p.clear # Undefined THEN p.clear ELSE IF p.store_stat = 1 THEN 0 ELSE 1
             t == IF p.load_timeout = Undefined THEN 60 ELSE p.load_timeout
             s == IF p.store_stat = Undefined THEN 0 ELSE p.store_stat
  <2>1. q = [p EXCEPT !.clear = c, !.load_timeout = t, !.store_stat = s]
    BY <1>2 DEF Operated
  <2>2. c \in Int /\ t \in Int /\ s \in Int
    BY DEF Parms
  <2> HIDE DEF c, t, s
  <2>3. PICK a : a = [p EXCEPT !.clear = c]
    OBVIOUS
  <2>4. PICK b : b = [a EXCEPT !.load_timeout = t]
    OBVIOUS
  <2>5. q = [b EXCEPT !.store_stat = s]
    BY <2>1, <2>3, <2>4, Zenon
  <2>6. /\ a \in Parms /\ a.clear = c /\ a.load_timeout = p.load_timeout /\ a.store_stat = p.store_stat
        /\ a.profile = p.profile /\ a.load_address = p.load_address /\ a.load_parms = p.load_parms
        /\ a.scsiload_wwpn = p.scsiload_wwpn /\ a.scsiload_lun = p.scsiload_lun
        /\ a.scsiload_bootrec = p.scsiload_bootrec /\ a.scsiload_ossparms = p.scsiload_ossparms
        /\ a.scsiload_bps = p.scsiload_bps /\ a.image_op = p.image_op
    <3>1. a \in Parms
      BY <2>2, <2>3 DEF Parms
    <3> QED
      BY <2>3, <3>1 DEF Parms
  <2>7. /\ b \in Parms /\ b.clear = c /\ b.load_timeout = t /\ b.store_stat = p.store_stat
        /\ b.profile = p.profile /\ b.load_address = p.load_address /\ b.load_parms = p.load_parms
        /\ b.scsiload_wwpn = p.scsiload_wwpn /\ b.scsiload_lun = p.scsiload_lun
        /\ b.scsiload_bootrec = p.scsiload_bootrec /\ b.scsiload_ossparms = p.scsiload_ossparms
        /\ b.scsiload_bps = p.scsiload_bps /\ b.image_op = p.image_op
    <3>1. b \in Parms
      BY <2>2, <2>4, <2>6 DEF Parms
    <3> QED
      BY <2>4, <2>6, <3>1 DEF Parms
  <2>8. /\ q \in Parms /\ q.clear = c /\ q.load_timeout = t /\ q.store_stat = s
        /\ q.profile = p.profile /\ q.load_address = p.load_address /\ q.load_parms = p.load_parms
        /\ q.scsiload_wwpn = p.scsiload_wwpn /\ q.scsiload_lun = p.scsiload_lun
        /\ q.scsiload_bootrec = p.scsiload_bootrec /\ q.scsiload_ossparms = p.scsiload_ossparms
        /\ q.scsiload_bps = p.scsiload_bps /\ q.image_op = p.image_op
    <3>1. q \in Parms
      BY <2>2, <2>5, <2>7 DEF Parms
    <3> QED
      BY <2>5, <2>7, <3>1 DEF Parms
  <2> QED
    BY <1>2, <2>8 DEF c, t, s
<1> QED
  BY <1>1, <1>2

\* A load leaves the time-out of the command line, or its own where there was none.
LEMMA LoadFacts ==
  ASSUME MainType, Once, option = Len(call.argv) + 1, Noted
  PROVE  /\ "T" \in specified => \A d : SaidNumber("T", d) = SaidNumber("T", Undefined)
         /\ SaidNumber("T", 60) # Undefined
         /\ SaidNumber("T", 60) = IF SaidNumber("T", Undefined) = Undefined THEN 60 ELSE SaidNumber("T", Undefined)
<1>1. ASSUME "T" \in specified, NEW d
      PROVE  SaidNumber("T", d) = SaidNumber("T", Undefined)
  <2>1. PICK n \in DOMAIN call.argv : call.argv[n].opt = "T"
    BY <1>1, SaidFacts DEF MainType
  <2>2. \A e : SaidNumber(call.argv[n].opt, e) = call.argv[n].number
    BY SaidNumberFacts
  <2>3. \A e : SaidNumber("T", e) = call.argv[n].number
    BY <2>1, <2>2
  <2> QED
    BY <2>3
<1>2. "T" \notin specified => \A d : SaidNumber("T", d) = d
  BY SaidNumberFacts
<1>3. 60 # Undefined
  BY DEF Undefined
<1> QED
  BY <1>1, <1>2, <1>3 DEF Noted

LEMMA OperateCommand ==
  ASSUME CallInv2, CommandInv, Operate
  PROVE  CommandInv'
<1>1. /\ pc = "operate" /\ pc' = "operate" /\ UNCHANGED <<call, specified, server>> /\ parms' = Operated(parms)
      /\ commands' = Append(commands, [image |-> server.images[Len(commands) + 1], image_op |-> parms.image_op,
                                       operands |-> Operands(parms')])
  BY DEF Operate
<1>2. /\ Permitted /\ Strings /\ Noted /\ (BeforeLoad \/ AfterLoad) /\ parms \in Parms /\ OperandsAsGiven
  BY <1>1 DEF CommandInv
<1>3. MainType /\ Once /\ option = Len(call.argv) + 1
  BY <1>1 DEF CallInv2, CallInv1, Options
<1>4. PICK q : q = parms'
  OBVIOUS
<1>5. /\ q \in Parms
      /\ q.profile = parms.profile /\ q.load_address = parms.load_address /\ q.load_parms = parms.load_parms
      /\ q.scsiload_wwpn = parms.scsiload_wwpn /\ q.scsiload_lun = parms.scsiload_lun
      /\ q.scsiload_bootrec = parms.scsiload_bootrec /\ q.scsiload_ossparms = parms.scsiload_ossparms
      /\ q.scsiload_bps = parms.scsiload_bps /\ q.image_op = parms.image_op
      /\ parms.image_op # "LOAD" => q = parms
      /\ parms.image_op = "LOAD" =>
           /\ q.clear = (IF parms.clear # Undefined THEN parms.clear ELSE IF parms.store_stat = 1 THEN 0 ELSE 1)
           /\ q.load_timeout = (IF parms.load_timeout = Undefined THEN 60 ELSE parms.load_timeout)
           /\ q.store_stat = (IF parms.store_stat = Undefined THEN 0 ELSE parms.store_stat)
  BY <1>1, <1>2, <1>4, OperatedFacts
<1>6. /\ \A c : Said(c)' = Said(c)
      /\ \A c, d : SaidNumber(c, d)' = SaidNumber(c, d)
  BY <1>1, SaidStays, NumbersStay
<1>7. Strings' /\ Noted' /\ Permitted' /\ Held(call.argv)'
  BY <1>1, <1>2, <1>4, <1>5, <1>6, PermissionStays, HeldStays DEF Strings, Noted, CommandInv
<1>8. ASSUME parms.image_op = "LOAD"
      PROVE  /\ q.clear = (IF {"C", "S"} \cap specified # {} THEN 0 ELSE 1)
             /\ q.store_stat = (IF "S" \in specified THEN 1 ELSE 0)
             /\ q.load_timeout = SaidNumber("T", 60)
  <2>1. /\ SaidNumber("T", 60) # Undefined
        /\ SaidNumber("T", 60) = IF SaidNumber("T", Undefined) = Undefined THEN 60 ELSE SaidNumber("T", Undefined)
    BY <1>2, <1>3, LoadFacts
  <2>2. CASE BeforeLoad
    BY <1>5, <1>8, <2>1, <2>2 DEF BeforeLoad, Undefined
  <2>3. CASE AfterLoad
    BY <1>5, <1>8, <2>1, <2>3 DEF AfterLoad, Undefined
  <2> QED
    BY <1>2, <2>2, <2>3
<1>9. BeforeLoad' \/ AfterLoad'
  <2>1. CASE parms.image_op = "LOAD"
    BY <1>1, <1>4, <1>6, <1>8, <2>1 DEF AfterLoad
  <2>2. CASE parms.image_op # "LOAD"
    BY <1>1, <1>2, <1>4, <1>5, <2>2, ToldStays
  <2> QED
    BY <2>1, <2>2
<1>10. Operands(q) =
         CASE q.image_op = "ACTIVATE" -> <<Said("N")>>
           [] q.image_op = "LOAD" ->
                <<Said("A"), Said("R"), IF {"C", "S"} \cap specified # {} THEN 0 ELSE 1,
                  SaidNumber("T", 60), IF "S" \in specified THEN 1 ELSE 0>>
           [] q.image_op \in Scsi ->
                <<Said("A"), Said("R"), Padded(Said("W")), Padded(Said("I")), SaidNumber("B", Undefined),
                  Said("O"), Padded(Said("E"))>>
           [] OTHER -> <<>>
  BY <1>2, <1>5, <1>8 DEF Operands, Strings, Scsi
<1>11. OperandsAsGiven'
  <2>1. PICK S : commands \in Seq(S)
    BY DEF CallInv2, Operating
  <2>2. PICK e : /\ commands' = Append(commands, e) /\ e.image_op = q.image_op /\ e.operands = Operands(q)
    BY <1>1, <1>4, <1>5
  <2>3. /\ DOMAIN commands' = DOMAIN commands \cup {Len(commands) + 1}
        /\ \A n \in DOMAIN commands : commands'[n] = commands[n]
        /\ commands'[Len(commands) + 1] = e
    BY <2>1, <2>2
  <2> DEFINE Right(c) ==
        c.operands =
          CASE c.image_op = "ACTIVATE" -> <<Said("N")>>
            [] c.image_op = "LOAD" ->
                 <<Said("A"), Said("R"), IF {"C", "S"} \cap specified # {} THEN 0 ELSE 1,
                   SaidNumber("T", 60), IF "S" \in specified THEN 1 ELSE 0>>
            [] c.image_op \in Scsi ->
                 <<Said("A"), Said("R"), Padded(Said("W")), Padded(Said("I")), SaidNumber("B", Undefined),
                   Said("O"), Padded(Said("E"))>>
            [] OTHER -> <<>>
  <2>4. Right(e)
    BY <1>10, <2>2
  <2>5. \A n \in DOMAIN commands : Right(commands[n])
    BY <1>2, Zenon DEF OperandsAsGiven
  <2>6. (\A n \in DOMAIN commands' : Right(commands'[n])) => OperandsAsGiven'
    BY <1>1, <1>6, Zenon DEF OperandsAsGiven
  <2> HIDE DEF Right
  <2> QED
    BY <2>3, <2>4, <2>5, <2>6
<1> QED
  BY <1>1, <1>4, <1>5, <1>7, <1>9, <1>11 DEF CommandInv

LEMMA CommandStep ==
  ASSUME CallInv2, CommandInv, [Next]_vars
  PROVE  CommandInv'
<1>1. CASE UNCHANGED vars
  <2>1. UNCHANGED <<pc, code, option, call, specified, parms, server, commands>>
    BY <1>1 DEF vars, mainVars
  <2>2. /\ Held(call.argv)' /\ parms' \in Parms /\ OperandsAsGiven' /\ (Permitted => Permitted')
        /\ (ParmsAsTold' <=> ParmsAsTold) /\ (Strings' <=> Strings) /\ (Noted' <=> Noted)
        /\ (BeforeLoad' <=> BeforeLoad) /\ (AfterLoad' <=> AfterLoad)
    BY <2>1, HeldStays, CommandsStay, PermissionStays, ToldStays DEF CommandInv
  <2>3. ParmsSoFar => ParmsSoFar'
    BY <2>1 DEF ParmsSoFar, Read
  <2> QED
    BY <2>1, <2>2, <2>3 DEF CommandInv
<1> QED
  BY <1>1, OptionsCommand, ConfigCommand, EndCommand, MainCommand, CheckCommand, LoginCommand, OperateCommand
     DEF Next, Snipl, Done

LEMMA ParmsInit ==
  ASSUME Init
  PROVE  parms \in Parms
<1>1. {NotGiven, "OPUNKNOWN"} \subseteq Word /\ {0, Undefined} \subseteq Int
  BY DEF Word, Text, NotGiven, None, Undefined
<1> QED
  BY <1>1 DEF Init, NoParms, Parms

LEMMA CommandInit ==
  ASSUME NumbersFit, Init
  PROVE  CommandInv
<1>1. PICK i \in Input : call = i[1]
  BY DEF Init
<1>2. Held(call.argv)
  BY <1>1 DEF NumbersFit
<1>3. pc = "options" /\ option = 1 /\ specified = {} /\ parms = NoParms /\ commands = <<>>
  BY DEF Init
<1>4. parms \in Parms
  BY ParmsInit
<1>5. ParmsSoFar
  <2>1. Read = {}
    BY <1>3 DEF Read
  <2> QED
    BY <1>3, <2>1 DEF ParmsSoFar, NoParms, NotGiven, None
<1>6. OperandsAsGiven
  BY <1>3 DEF OperandsAsGiven
<1> QED
  BY <1>2, <1>3, <1>4, <1>5, <1>6 DEF CommandInv

LEMMA CommandAlways ==
  ASSUME NumbersFit
  PROVE  Spec => []CommandInv
<1>1. Init => CommandInv
  BY CommandInit
<1>2. CallInv2 /\ CommandInv /\ [Next]_vars => CommandInv'
  BY CommandStep
<1> QED
  BY <1>1, <1>2, CallAlways, PTL DEF Spec

\* Whatever options were given, in whatever order, and however many images were named: when the
\* time-outs fit their C types, every command is one its type of server allows, and carries what
\* the command line said or the default.
THEOREM CommandsAreAsTold == NumbersFit /\ Spec => []CommandsAsTold
<1> SUFFICES ASSUME NumbersFit PROVE Spec => []CommandsAsTold
  OBVIOUS
<1>1. Spec => []CommandInv
  BY CommandAlways
<1>2. CommandInv => CommandsAsTold
  BY DEF CommandInv, Permitted, CommandsAsTold, OperatedMeansAllowed
<1> QED
  BY <1>1, <1>2, PTL

(***************************************************************************)
(* The names of the images.                                                *)
(***************************************************************************)
\* alias_handling: what a name has become behind the n-th image.
Behind(f, name, images, m) ==
  f = [n \in 0 .. m |-> IF n = 0 THEN name
                        ELSE IF f[n - 1] = images[n].alias THEN images[n].name ELSE f[n - 1]]

LEMMA BehindEach ==
  ASSUME NEW name, NEW images, NEW m \in Nat
  PROVE  \E f : Behind(f, name, images, m)
<1> DEFINE none == {k \in Nat : ~\E f : Behind(f, name, images, k)}
<1>1. ASSUME none # {}
      PROVE  FALSE
  <2>1. none \subseteq Nat
    OBVIOUS
  <2>2. PICK i \in none : \A k \in none : i <= k
    <3> HIDE DEF none
    <3> QED
      BY <1>1, <2>1, LeastNatural
  <2>3. i # 0
    <3>1. Behind([n \in 0 .. 0 |-> name], name, images, 0)
      BY DEF Behind
    <3> QED
      BY <3>1
  <2>4. i - 1 \in Nat /\ i - 1 \notin none
    BY <2>2, <2>3
  <2>5. PICK g : Behind(g, name, images, i - 1)
    BY <2>4
  <2> DEFINE last == IF g[i - 1] = images[i].alias THEN images[i].name ELSE g[i - 1]
             h == [n \in 0 .. i |-> IF n = i THEN last ELSE g[n]]
  <2>6. g = [n \in 0 .. i - 1 |-> IF n = 0 THEN name
                                  ELSE IF g[n - 1] = images[n].alias THEN images[n].name ELSE g[n - 1]]
    BY <2>5 DEF Behind
  <2>7. ASSUME NEW n \in 0 .. i
        PROVE  h[n] = IF n = 0 THEN name
                      ELSE IF h[n - 1] = images[n].alias THEN images[n].name ELSE h[n - 1]
    <3>1. CASE n = i
      BY <2>3, <2>4, <3>1
    <3>2. CASE n = 0
      BY <2>3, <2>4, <2>6, <3>2
    <3>3. CASE n # i /\ n # 0
      <4>1. n \in 0 .. i - 1 /\ n - 1 \in 0 .. i - 1
        BY <2>4, <3>3
      <4>2. h[n] = g[n] /\ h[n - 1] = g[n - 1]
        BY <3>3, <4>1
      <4> QED
        BY <2>6, <3>3, <4>1, <4>2
    <3> QED
      BY <3>1, <3>2, <3>3
  <2>8. Behind(h, name, images, i)
    <3> HIDE DEF last
    <3>1. h = [n \in 0 .. i |-> h[n]]
      OBVIOUS
    <3> HIDE DEF h
    <3> QED
      BY <2>7, <3>1 DEF Behind
  <2> QED
    BY <2>2, <2>8
<1> QED
  BY <1>1

LEMMA ResolvedSteps ==
  ASSUME NEW name, NEW images, Len(images) \in Nat
  PROVE  \E f : Behind(f, name, images, Len(images)) /\ Resolved(name, images) = f[Len(images)]
<1> DEFINE found == CHOOSE f : Behind(f, name, images, Len(images))
<1>1. Behind(found, name, images, Len(images))
  BY BehindEach
<1>2. Resolved(name, images) = found[Len(images)]
  BY DEF Resolved, Behind
<1> QED
  BY <1>1, <1>2

\* When no alias of a section means two images, an alias becomes the name it stands for and stays
\* it, and a name that is no alias stays as it is.
LEMMA AliasFound ==
  ASSUME NEW s \in Section, AliasesApart(s), NEW name, NEW m \in DOMAIN s.images, s.images[m].alias = name
  PROVE  Resolved(name, s.images) = s.images[m].name
<1>1. Len(s.images) \in Nat /\ DOMAIN s.images = 1 .. Len(s.images)
  BY DEF Section
<1>2. PICK f : Behind(f, name, s.images, Len(s.images)) /\ Resolved(name, s.images) = f[Len(s.images)]
  BY <1>1, ResolvedSteps
<1>3. \A n \in 0 .. Len(s.images) :
        f[n] = IF n = 0 THEN name
               ELSE IF f[n - 1] = s.images[n].alias THEN s.images[n].name ELSE f[n - 1]
  BY <1>2 DEF Behind
<1>4. \A n \in DOMAIN s.images : n # m => /\ s.images[n].alias # name
                                          /\ s.images[n].alias # s.images[m].name
  BY DEF AliasesApart
<1> DEFINE wrong == {n \in Nat : n <= Len(s.images) /\ f[n] # IF n < m THEN name ELSE s.images[m].name}
<1>5. ASSUME wrong # {}
      PROVE  FALSE
  <2>1. wrong \subseteq Nat
    OBVIOUS
  <2>2. PICK i \in wrong : \A k \in wrong : i <= k
    <3> HIDE DEF wrong
    <3> QED
      BY <1>5, <2>1, LeastNatural
  <2>3. i \in 0 .. Len(s.images) /\ f[i] # IF i < m THEN name ELSE s.images[m].name
    BY <1>1, <2>2
  <2>4. m \in 1 .. Len(s.images)
    BY <1>1
  <2>5. i # 0
    BY <1>3, <2>3, <2>4
  <2>6. i - 1 \in Nat /\ i - 1 <= Len(s.images) /\ i - 1 \notin wrong
    BY <1>1, <2>2, <2>3, <2>5
  <2>7. f[i - 1] = IF i - 1 < m THEN name ELSE s.images[m].name
    BY <2>6
  <2>8. f[i] = IF f[i - 1] = s.images[i].alias THEN s.images[i].name ELSE f[i - 1]
    BY <1>3, <2>3, <2>5
  <2>9. i \in DOMAIN s.images
    BY <1>1, <2>3, <2>5
  <2>10. CASE i < m
    BY <1>4, <2>3, <2>4, <2>7, <2>8, <2>9, <2>10
  <2>11. CASE i = m
    BY <2>3, <2>4, <2>7, <2>8, <2>11
  <2>12. CASE i > m
    BY <1>4, <2>3, <2>4, <2>7, <2>8, <2>9, <2>12
  <2> QED
    BY <2>3, <2>4, <2>10, <2>11, <2>12
<1>6. Len(s.images) \notin wrong
  BY <1>5
<1>7. ~(Len(s.images) < m)
  BY <1>1
<1> QED
  BY <1>1, <1>2, <1>6, <1>7

LEMMA NameKept ==
  ASSUME NEW s \in Section, NEW name, \A n \in DOMAIN s.images : s.images[n].alias # name
  PROVE  Resolved(name, s.images) = name
<1>1. Len(s.images) \in Nat /\ DOMAIN s.images = 1 .. Len(s.images)
  BY DEF Section
<1>2. PICK f : Behind(f, name, s.images, Len(s.images)) /\ Resolved(name, s.images) = f[Len(s.images)]
  BY <1>1, ResolvedSteps
<1>3. \A n \in 0 .. Len(s.images) :
        f[n] = IF n = 0 THEN name
               ELSE IF f[n - 1] = s.images[n].alias THEN s.images[n].name ELSE f[n - 1]
  BY <1>2 DEF Behind
<1> DEFINE wrong == {n \in Nat : n <= Len(s.images) /\ f[n] # name}
<1>4. ASSUME wrong # {}
      PROVE  FALSE
  <2>1. wrong \subseteq Nat
    OBVIOUS
  <2>2. PICK i \in wrong : \A k \in wrong : i <= k
    <3> HIDE DEF wrong
    <3> QED
      BY <1>4, <2>1, LeastNatural
  <2>3. i \in 0 .. Len(s.images) /\ f[i] # name
    BY <1>1, <2>2
  <2>4. i # 0
    BY <1>3, <2>3
  <2>5. i - 1 \in Nat /\ i - 1 <= Len(s.images) /\ i - 1 \notin wrong
    BY <1>1, <2>2, <2>3, <2>4
  <2>6. f[i - 1] = name
    BY <2>5
  <2>7. i \in DOMAIN s.images
    BY <1>1, <2>3, <2>4
  <2> QED
    BY <1>3, <2>3, <2>4, <2>6, <2>7
<1>5. Len(s.images) \notin wrong
  BY <1>4
<1> QED
  BY <1>1, <1>2, <1>5

(***************************************************************************)
(* The parameters keep their types, whatever numbers were given.           *)
(***************************************************************************)
LEMMA ParmsStep ==
  ASSUME CallInv2, parms \in Parms, [Next]_vars
  PROVE  parms' \in Parms
<1>1. CASE Option
  <2>1. PICK g : g = Given /\ g.value \in Word /\ g.number \in Int
    <3>1. option \in DOMAIN call.argv
      BY <1>1, CallFacts DEF Option, CallInv2, CallInv1, MainType
    <3> QED
      BY <3>1, CallFacts DEF Given, Word, CallInv2, CallInv1
  <2>2. PICK q, w, h : /\ q = Set(parms, g.opt, g.value, g.number)
                       /\ w = Padded(g.value) /\ h = Short(g.number)
    OBVIOUS
  <2>3. q \in Parms
    BY <2>1, <2>2, SetFacts, Zenon
  <2> QED
    BY <1>1, <2>1, <2>2, <2>3 DEF Option
<1>2. CASE PrepareCheck
  BY <1>2, DefaultFacts DEF PrepareCheck
<1>3. CASE Operate
  <2>1. PICK q : q = parms' /\ q = Operated(parms)
    BY <1>3 DEF Operate
  <2> QED
    BY <2>1, OperatedFacts
<1>4. CASE UNCHANGED parms
  BY <1>4
<1> QED
  BY <1>1, <1>2, <1>3, <1>4 DEF Next, Snipl, Done, OptionEnds, OptionsRead, ConfigFile, Configured, Crash, Main,
    ListVm, Login, ListLpar, Ends, mainVars, vars

LEMMA ParmsAlways == Spec => [](parms \in Parms)
<1>1. CallInv2 /\ parms \in Parms /\ [Next]_vars => (parms \in Parms)'
  BY ParmsStep
<1> QED
  BY <1>1, ParmsInit, CallAlways, PTL DEF Spec

\* No name on the command line has the newline that stands for the hyphen.
NoNewline(names) == \A n \in DOMAIN names : names[n].sep # "newline"

NamesTyped == \A i \in Input : NoNewline(i[1].names)

Listing == server.attr["type"] = "VM" /\ parms.image_op = "LIST"

\* The n-th image after the file was read.
ImageOf(n) ==
  IF section = 0 THEN Pushed(call.names)[n] ELSE Resolved(Pushed(call.names)[n], servers[section].images)

NamesInv ==
  /\ NoNewline(call.names)
  /\ pc \in {"main", "check", "login"} /\ ~Listing =>
       server.images = [n \in 1 .. Len(call.names) |-> ImageOf(n)]
  /\ pc \in {"login", "operate"} => ~Listing
  /\ pc = "operate" /\ server.attr["type"] = "VM" =>
       server.images = [n \in 1 .. Len(call.names) |-> Unreplaced(ImageOf(n))]
  /\ NamedAsGiven

LEMMA ImageStays ==
  ASSUME UNCHANGED <<call, section, servers>>
  PROVE  \A n : ImageOf(n)' = ImageOf(n)
  BY DEF ImageOf

LEMMA TypedStays ==
  ASSUME NoNewline(call.names), UNCHANGED call
  PROVE  NoNewline(call.names)'
  BY DEF NoNewline

LEMMA NamedStays ==
  ASSUME NamedAsGiven, UNCHANGED <<call, section, server, commands>>
  PROVE  NamedAsGiven'
  BY Zenon DEF NamedAsGiven

\* A hyphen is made a newline and back again.
LEMMA BackAgain ==
  ASSUME CallInv2, NoNewline(call.names), NEW n \in 1 .. Len(call.names)
  PROVE  Unreplaced(Pushed(call.names)[n]) = call.names[Len(call.names) + 1 - n]
<1>1. call.names \in Seq(Name)
  BY DEF CallInv2, CallInv1, MainType, Call
<1>2. PICK m : m = Len(call.names) + 1 - n
  OBVIOUS
<1>3. m \in DOMAIN call.names /\ call.names[m] \in Name /\ call.names[m].sep # "newline"
  BY <1>1, <1>2 DEF NoNewline
<1>4. Pushed(call.names)[n] = Replaced(call.names[m])
  BY <1>2 DEF Pushed
<1>5. \A x \in Name : x.sep # "newline" => Unreplaced(Replaced(x)) = x
  BY DEF Name, Replaced, Unreplaced
<1> QED
  BY <1>2, <1>3, <1>4, <1>5

LEMMA ConfiguredNames ==
  ASSUME CallInv2, NamesInv, Configured
  PROVE  NamesInv'
<1>1. /\ pc = "config" /\ pc' = "main" /\ UNCHANGED <<call, servers, parms, commands>> /\ commands = <<>>
      /\ section = 0 /\ server.images = Pushed(call.names)
  BY DEF Configured, confVars, CallInv2, CallInv1, Chosen, AsTold, Operating
<1>2. Pushed(call.names) = [n \in 1 .. Len(call.names) |-> Pushed(call.names)[n]]
  BY DEF Pushed
<1>3. NamedAsGiven'
  BY <1>1 DEF NamedAsGiven
<1>4. NoNewline(call.names)'
  BY <1>1, TypedStays DEF NamesInv
<1>5. ASSUME ~Listing'
      PROVE  server'.images = [n \in 1 .. Len(call.names) |-> ImageOf(n)']
  <2>1. CASE section' = 0
    <3>1. \A n : ImageOf(n)' = Pushed(call.names)[n]
      BY <1>1, <2>1, Zenon DEF ImageOf, Pushed
    <3>2. server' \in {server, NoSection}
      BY <1>1, <2>1 DEF Configured
    <3>3. NoSection.attr = server.attr
      BY NoSectionFacts DEF CallInv2, CallInv1, MainType
    <3>4. server'.attr["type"] = server.attr["type"]
      BY <3>2, <3>3
    <3>5. server'.images = server.images
      BY <1>1, <1>5, <3>2, <3>4 DEF NoSection, Listing
    <3> QED
      BY <1>1, <1>2, <3>1, <3>5
  <2>2. CASE section' # 0
    <3>1. server' = Used(servers[section'])
      BY <1>1, <2>2 DEF Configured
    <3>2. \A n : ImageOf(n)' = Resolved(Pushed(call.names)[n], servers[section'].images)
      BY <1>1, <2>2, Zenon DEF ImageOf, Pushed
    <3>3. server'.attr = Merged(servers[section'])
      BY <3>1 DEF Used
    <3>4. ~(Merged(servers[section'])["type"] = "VM" /\ parms.image_op = "LIST")
      BY <1>1, <1>5, <3>3 DEF Listing
    <3>5. server'.images = [n \in DOMAIN server.images |-> Resolved(server.images[n], servers[section'].images)]
      BY <3>1, <3>4 DEF Used
    <3>6. DOMAIN server.images = 1 .. Len(call.names)
      BY <1>1, <1>2
    <3> QED
      BY <1>1, <3>2, <3>5, <3>6
  <2> QED
    BY <2>1, <2>2
<1> QED
  BY <1>1, <1>3, <1>4, <1>5 DEF NamesInv

\* Up to the commands nothing is given, and what is looked at does not change.
LEMMA BeforeNames ==
  ASSUME CallInv2, parms \in Parms, NamesInv, Option \/ OptionEnds \/ OptionsRead \/ ConfigFile \/ Main \/ PrepareCheck
  PROVE  NamesInv'
<1>1. UNCHANGED <<call, section, commands>> /\ pc \in {"options", "config", "main", "check"} /\ commands = <<>>
  BY DEF Option, OptionEnds, OptionsRead, ConfigFile, Main, PrepareCheck, mainVars, CallInv2, Operating
<1>2. NamedAsGiven' /\ NoNewline(call.names)'
  BY <1>1, TypedStays DEF NamedAsGiven, NamesInv
<1>3. CASE Option \/ OptionEnds \/ OptionsRead \/ ConfigFile
  <2>1. pc' \in {"options", "config", "done"}
    BY <1>3 DEF Option, OptionEnds, OptionsRead, ConfigFile, mainVars, Exit
  <2> QED
    BY <1>2, <2>1 DEF NamesInv
<1>4. CASE Main \/ PrepareCheck
  <2>1. /\ pc \in {"main", "check"} /\ pc' \in {"check", "login", "done"} /\ UNCHANGED servers
        /\ pc' = "login" => ~Listing
        /\ Later /\ ~Login
    BY <1>4 DEF Main, PrepareCheck, Exit, confVars, Listing, Later, Login
  <2>2. /\ server'.images = server.images
        /\ \A k \in Attribute : server'.attr[k] = IF Main /\ k = "encryption" /\ server.attr[k] = None THEN "yes"
                                                  ELSE server.attr[k]
    BY <2>1, LaterServer
  <2>3. server'.attr["type"] = server.attr["type"]
    BY <2>2 DEF Attribute
  <2>4. CASE pc' = "done"
    BY <1>2, <2>4 DEF NamesInv
  <2>5. CASE pc' # "done"
    <3>1. parms'.image_op = parms.image_op
      <4>1. CASE Main
        BY <4>1 DEF Main
      <4>2. CASE PrepareCheck
        <5>1. parms' = Default(parms)
          BY <2>5, <4>2 DEF PrepareCheck, Exit
        <5> QED
          BY <5>1, DefaultFacts
      <4> QED
        BY <1>4, <4>1, <4>2
    <3>2. Listing' <=> Listing
      BY <2>3, <3>1 DEF Listing
    <3>3. \A n : ImageOf(n)' = ImageOf(n)
      BY <1>1, <2>1, ImageStays
    <3>4. ~Listing => server.images = [n \in 1 .. Len(call.names) |-> ImageOf(n)]
      BY <2>1 DEF NamesInv
    <3>5. ~Listing' => server'.images = [n \in 1 .. Len(call.names)' |-> ImageOf(n)']
      BY <1>1, <2>2, <3>2, <3>3, <3>4
    <3>6. pc' # "operate" /\ (pc' = "login" => ~Listing')
      BY <2>1, <3>2
    <3> QED
      BY <1>2, <3>5, <3>6 DEF NamesInv
  <2> QED
    BY <2>4, <2>5
<1> QED
  BY <1>3, <1>4

LEMMA LoginNames ==
  ASSUME CallInv2, NamesInv, Login
  PROVE  NamesInv'
<1>1. /\ pc = "login" /\ pc' = "operate" /\ UNCHANGED <<call, section, commands, servers, parms>> /\ commands = <<>>
      /\ server.attr["type"] \in {"VM", "LPAR"}
  BY DEF Login, confVars, CallInv2, Operating
<1>2. ~Listing /\ server.images = [n \in 1 .. Len(call.names) |-> ImageOf(n)]
  BY <1>1 DEF NamesInv
<1>3. PICK S : server \in [address : Text, attr : [Attribute -> Text], images : Seq(S)]
  BY DEF CallInv2, CallInv1, MainType, IsServer
<1>4. PICK type \in IF server.attr["type"] = "VM" THEN {"VM", "VM5"} ELSE {"LPAR"} :
        server' = [server EXCEPT !.attr["type"] = type,
                                 !.images = IF type = "VM" THEN [n \in DOMAIN @ |-> Unreplaced(@[n])] ELSE @]
  BY DEF Login
<1>5. PICK f, g : /\ f = [n \in DOMAIN server.images |-> Unreplaced(server.images[n])]
                  /\ g = IF type = "VM" THEN f ELSE server.images
  OBVIOUS
<1>6. server' = [server EXCEPT !.attr["type"] = type, !.images = g]
  BY <1>4, <1>5
<1>7. server'.attr["type"] = type /\ server'.images = g
  BY <1>3, <1>6 DEF Attribute
<1>8. ~Listing'
  BY <1>1, <1>2, <1>4, <1>7 DEF Listing
<1>9. type = "VM" => server'.images = [n \in 1 .. Len(call.names) |-> Unreplaced(ImageOf(n))]
  BY <1>2, <1>5, <1>7
<1>10. \A n : ImageOf(n)' = ImageOf(n)
  BY <1>1, ImageStays
<1>11. NamedAsGiven' /\ NoNewline(call.names)'
  BY <1>1, TypedStays DEF NamedAsGiven, NamesInv
<1>12. type = "VM" => server'.images = [n \in 1 .. Len(call.names)' |-> Unreplaced(ImageOf(n))']
  BY <1>1, <1>9, <1>10 DEF Unreplaced
<1> QED
  BY <1>1, <1>7, <1>8, <1>11, <1>12 DEF NamesInv

LEMMA OperateNames ==
  ASSUME CallInv2, parms \in Parms, NamesInv, Operate
  PROVE  NamesInv'
<1>1. /\ pc = "operate" /\ pc' = "operate" /\ UNCHANGED <<call, section, server, servers>> /\ parms.image_op # "LIST"
      /\ Len(commands) < Len(server.images) /\ parms' = Operated(parms)
  BY DEF Operate, confVars
<1>2. PICK e : commands' = Append(commands, e) /\ e.image = server.images[Len(commands) + 1]
  BY DEF Operate
<1>3. PICK S : commands \in Seq(S)
  BY DEF CallInv2, Operating
<1>4. ~Listing'
  <2>1. parms'.image_op = parms.image_op
    <3>1. PICK q : q = parms'
      OBVIOUS
    <3> QED
      BY <1>1, <3>1, OperatedFacts
  <2> QED
    BY <1>1, <2>1 DEF Listing
<1>5. \A n : ImageOf(n)' = ImageOf(n)
  BY <1>1, ImageStays
<1>6. server.attr["type"] = "VM" => server.images = [n \in 1 .. Len(call.names) |-> Unreplaced(ImageOf(n))]
  BY <1>1 DEF NamesInv
<1>7. server'.attr["type"] = "VM" => server'.images = [n \in 1 .. Len(call.names)' |-> Unreplaced(ImageOf(n))']
  BY <1>1, <1>5, <1>6 DEF Unreplaced
<1>8. NamedAsGiven'
  <2> SUFFICES ASSUME server.attr["type"] = "VM", section = 0, NEW n \in DOMAIN commands'
               PROVE  commands'[n].image = call.names[Len(call.names) + 1 - n]
    BY <1>1 DEF NamedAsGiven
  <2>1. CASE n \in DOMAIN commands
    BY <1>2, <1>3, <2>1 DEF NamesInv, NamedAsGiven
  <2>2. CASE n \notin DOMAIN commands
    <3>1. n = Len(commands) + 1 /\ commands'[n] = e /\ Len(commands) \in Nat
      BY <1>2, <1>3, <2>2
    <3>2. call.names \in Seq(Name) /\ Len(call.names) \in Nat
      BY DEF CallInv2, CallInv1, MainType, Call
    <3>3. server.images = [k \in 1 .. Len(call.names) |-> Unreplaced(ImageOf(k))]
      BY <1>6
    <3>4. Len(server.images) = Len(call.names)
      BY <3>2, <3>3
    <3>5. n \in 1 .. Len(call.names)
      BY <1>1, <3>1, <3>2, <3>4
    <3>6. ImageOf(n) = Pushed(call.names)[n]
      BY DEF ImageOf
    <3> QED
      BY <1>2, <3>1, <3>3, <3>5, <3>6, BackAgain DEF NamesInv
  <2> QED
    BY <2>1, <2>2
<1>9. NoNewline(call.names)'
  BY <1>1, TypedStays DEF NamesInv
<1> QED
  BY <1>1, <1>4, <1>7, <1>8, <1>9 DEF NamesInv

LEMMA EndNames ==
  ASSUME NamesInv, Crash \/ ListVm \/ ListLpar \/ Ends
  PROVE  NamesInv'
<1>1. pc' = "done" /\ UNCHANGED <<call, section, server, commands>>
  BY DEF Crash, ListVm, ListLpar, Ends, Exit
<1> QED
  BY <1>1, NamedStays, TypedStays DEF NamesInv

LEMMA NamesStep ==
  ASSUME CallInv2, parms \in Parms, NamesInv, [Next]_vars
  PROVE  NamesInv'
<1>1. CASE UNCHANGED vars
  <2>1. UNCHANGED <<pc, call, section, server, servers, parms, commands>>
    BY <1>1 DEF vars, mainVars, confVars
  <2>2. \A n : ImageOf(n)' = ImageOf(n)
    BY <2>1, ImageStays
  <2>3. NamedAsGiven' /\ NoNewline(call.names)' /\ (Listing' <=> Listing)
    BY <2>1, NamedStays, TypedStays DEF NamesInv, Listing
  <2>4. pc \in {"main", "check", "login"} /\ ~Listing =>
          server'.images = [n \in 1 .. Len(call.names)' |-> ImageOf(n)']
    BY <2>1, <2>2 DEF NamesInv
  <2>5. pc = "operate" /\ server.attr["type"] = "VM" =>
          server'.images = [n \in 1 .. Len(call.names)' |-> Unreplaced(ImageOf(n))']
    BY <2>1, <2>2 DEF NamesInv, Unreplaced
  <2> QED
    BY <2>1, <2>3, <2>4, <2>5 DEF NamesInv
<1> QED
  BY <1>1, ConfiguredNames, BeforeNames, LoginNames, OperateNames, EndNames DEF Next, Snipl, Done

\* Whatever the file and the names: an alias becomes the name it stands for, a name stays, and a
\* z/VM system that answers on its socket gets the names as they were typed, when none of them
\* has the newline that stands for a hyphen.
THEOREM NamesGoThrough == NamesTyped /\ Spec => []NamesAreKept
<1> SUFFICES ASSUME NamesTyped PROVE Spec => []NamesAreKept
  OBVIOUS
<1>1. Init => NamesInv
  <2> SUFFICES ASSUME Init PROVE NamesInv
    OBVIOUS
  <2>1. NoNewline(call.names)
    BY DEF Init, NamesTyped
  <2>2. pc = "options" /\ commands = <<>>
    BY DEF Init
  <2> QED
    BY <2>1, <2>2 DEF NamesInv, NamedAsGiven
<1>2. CallInv2 /\ parms \in Parms /\ NamesInv /\ [Next]_vars => NamesInv'
  BY NamesStep
<1>3. CallInv2 /\ NamesInv => NamesAreKept
  <2> SUFFICES ASSUME CallInv2, NamesInv, pc = "login", section # 0, AliasesApart(servers[section]),
                      NEW n \in DOMAIN server.images
               PROVE  LET s == servers[section]
                          given == Replaced(call.names[Len(call.names) + 1 - n])
                      IN  IF \E m \in DOMAIN s.images : s.images[m].alias = given
                          THEN \E m \in DOMAIN s.images : s.images[m].alias = given /\ s.images[m].name = server.images[n]
                          ELSE server.images[n] = given
    BY DEF NamesAreKept, AliasMeansImage, NamesInv
  <2>1. PICK s : s = servers[section] /\ s \in Section
    BY DEF CallInv2, CallInv1, Chosen, ConfType
  <2>2. PICK given : given = Replaced(call.names[Len(call.names) + 1 - n])
    OBVIOUS
  <2>3. server.images = [k \in 1 .. Len(call.names) |-> ImageOf(k)]
    BY DEF NamesInv
  <2>4. n \in 1 .. Len(call.names)
    BY <2>3
  <2>5. server.images[n] = Resolved(given, s.images)
    BY <2>1, <2>2, <2>3, <2>4 DEF ImageOf, Pushed
  <2>6. ASSUME NEW m \in DOMAIN s.images, s.images[m].alias = given
        PROVE  s.images[m].name = server.images[n]
    BY <2>1, <2>5, <2>6, AliasFound
  <2>7. (\A m \in DOMAIN s.images : s.images[m].alias # given) => server.images[n] = given
    BY <2>1, <2>5, NameKept
  <2> QED
    BY <2>1, <2>2, <2>6, <2>7
<1> QED
  BY <1>1, <1>2, <1>3, CallAlways, ParmsAlways, PTL DEF Spec
(***************************************************************************)
(* The file is understood as it is written.                                *)
(***************************************************************************)
\* The lines with a key that belong to a section and were read before line b.
SoFar(i, key, b) == {n \in LinesOf(i, key) : n < b}

SectionSoFar(i, b) ==
  /\ \E n \in SoFar(i, "server", b) : file[n].value = servers[i].address
  /\ \A k \in Attribute : \/ SoFar(i, k, b) = {} /\ servers[i].attr[k] = None
                          \/ \E n \in SoFar(i, k, b) : SoFar(i, k, b) = {n} /\ servers[i].attr[k] = file[n].value
  /\ Len(servers[i].images) = Cardinality(SoFar(i, "image", b))
  /\ \A n \in SoFar(i, "image", b) : Defines(servers[i], Replaced(file[n].value.name))

WrittenSoFar(b) ==
  /\ Len(servers) = SectionOf(b - 1)
  /\ \A i \in DOMAIN servers : SectionSoFar(i, b)

ParsedInv ==
  /\ phase = "unique" => lineno = Len(file) + 1
  /\ Loaded /\ problem_class # "FATAL" => lineno = Len(file) + 1
  /\ problem_class = "OK" => ret = "OK" /\ WrittenSoFar(lineno)

LEMMA FileStays ==
  ASSUME file' = file
  PROVE  \A i, key, b : /\ SoFar(i, key, b)' = SoFar(i, key, b)
                        /\ SectionOf(b)' = SectionOf(b)
  BY Zenon DEF SoFar, LinesOf, SectionOf, Before, ServerLines

LEMMA SectionFacts ==
  ASSUME file \in File
  PROVE  /\ Len(file) \in Nat /\ DOMAIN file = 1 .. Len(file)
         /\ \A b \in Int : SectionOf(b) \in Nat
         /\ \A b, c \in Int : b <= c => SectionOf(b) <= SectionOf(c)
         /\ \A b \in 1 .. Len(file) :
              SectionOf(b) = SectionOf(b - 1) + (IF file[b].key = "server" THEN 1 ELSE 0)
         /\ SectionOf(0) = 0
         /\ SectionOf(Len(file)) = Cardinality(ServerLines)
<1>1. Len(file) \in Nat /\ DOMAIN file = 1 .. Len(file)
  BY DEF File
<1>2. IsFiniteSet(1 .. Len(file))
  BY <1>1, FS_Interval
<1>3. \A b : Before(b) \subseteq 1 .. Len(file)
  BY <1>1 DEF Before, ServerLines
<1>4. \A b : IsFiniteSet(Before(b))
  BY <1>2, <1>3, FS_Subset
<1>5. \A b \in Int : SectionOf(b) \in Nat
  BY <1>4, FS_CardinalityType DEF SectionOf
<1>6. ASSUME NEW b \in Int, NEW c \in Int, b <= c
      PROVE  SectionOf(b) <= SectionOf(c)
  <2>1. Before(b) \subseteq Before(c)
    BY <1>1, <1>6 DEF Before, ServerLines
  <2> QED
    BY <1>4, <2>1, FS_Subset DEF SectionOf
<1>7. ASSUME NEW b \in 1 .. Len(file)
      PROVE  SectionOf(b) = SectionOf(b - 1) + (IF file[b].key = "server" THEN 1 ELSE 0)
  <2>1. b \notin Before(b - 1)
    BY <1>1 DEF Before
  <2>2. CASE file[b].key = "server"
    <3>1. Before(b) = Before(b - 1) \cup {b}
      BY <1>1, <2>2 DEF Before, ServerLines
    <3>2. Cardinality(Before(b - 1) \cup {b}) = Cardinality(Before(b - 1)) + 1
      BY <1>4, <2>1, FS_AddElement
    <3> QED
      BY <2>2, <3>1, <3>2 DEF SectionOf
  <2>3. CASE file[b].key # "server"
    <3>1. Before(b) = Before(b - 1)
      BY <1>1, <2>3 DEF Before, ServerLines
    <3>2. SectionOf(b) = SectionOf(b - 1) /\ SectionOf(b - 1) \in Nat
      BY <1>1, <1>5, <3>1 DEF SectionOf
    <3> QED
      BY <2>3, <3>2
  <2> QED
    BY <2>2, <2>3
<1>8. SectionOf(0) = 0
  <2>1. Before(0) = {}
    BY <1>1 DEF Before, ServerLines
  <2> QED
    BY <2>1, FS_EmptySet DEF SectionOf
<1>9. SectionOf(Len(file)) = Cardinality(ServerLines)
  <2>1. Before(Len(file)) = ServerLines
    BY <1>1 DEF Before, ServerLines
  <2> QED
    BY <2>1 DEF SectionOf
<1> QED
  BY <1>1, <1>5, <1>6, <1>7, <1>8, <1>9

\* One line more is one element more in the section it belongs to, and none elsewhere.
LEMMA OneLineMore ==
  ASSUME file \in File, NEW b \in 1 .. Len(file)
  PROVE  /\ \A i, key : IsFiniteSet(SoFar(i, key, b)) /\ b \notin SoFar(i, key, b)
         /\ \A i, key : i = SectionOf(b) /\ key = file[b].key => SoFar(i, key, b + 1) = SoFar(i, key, b) \cup {b}
         /\ \A i, key : i # SectionOf(b) \/ key # file[b].key => SoFar(i, key, b + 1) = SoFar(i, key, b)
         /\ \A i \in Int : \A key : i > SectionOf(b - 1) => SoFar(i, key, b) = {}
<1>1. /\ Len(file) \in Nat /\ DOMAIN file = 1 .. Len(file)
      /\ \A c, d \in Int : c <= d => SectionOf(c) <= SectionOf(d)
      /\ \A c \in Int : SectionOf(c) \in Nat
  BY SectionFacts
<1>2. \A i, key : SoFar(i, key, b) \subseteq 1 .. Len(file) /\ b \notin SoFar(i, key, b)
  BY <1>1 DEF SoFar, LinesOf
<1>3. \A i, key : IsFiniteSet(SoFar(i, key, b))
  <2>1. IsFiniteSet(1 .. Len(file))
    BY <1>1, FS_Interval
  <2> QED
    BY <1>2, <2>1, FS_Subset
<1>4. \A n \in DOMAIN file : n < b + 1 <=> n < b \/ n = b
  <2>1. b \in Int /\ \A n \in Int : n < b + 1 <=> n < b \/ n = b
    BY <1>1
  <2>2. DOMAIN file \subseteq Int
    BY <1>1
  <2> QED
    BY <2>1, <2>2
<1>5. \A i, key : i = SectionOf(b) /\ key = file[b].key => SoFar(i, key, b + 1) = SoFar(i, key, b) \cup {b}
  BY <1>1, <1>4 DEF SoFar, LinesOf
<1>6. \A i, key : i # SectionOf(b) \/ key # file[b].key => SoFar(i, key, b + 1) = SoFar(i, key, b)
  BY <1>1, <1>4 DEF SoFar, LinesOf
<1>7. ASSUME NEW i \in Int, NEW key, i > SectionOf(b - 1)
      PROVE  SoFar(i, key, b) = {}
  <2>1. \A n \in DOMAIN file : n < b => SectionOf(n) <= SectionOf(b - 1)
    BY <1>1
  <2>2. \A n \in DOMAIN file : n < b => SectionOf(n) # i
    BY <1>1, <1>7, <2>1
  <2> QED
    BY <2>2 DEF SoFar, LinesOf
<1> QED
  BY <1>2, <1>3, <1>5, <1>6, <1>7

LEMMA SectionStays ==
  ASSUME NEW b, NEW c, NEW i, file' = file, servers'[i] = servers[i], SectionSoFar(i, b),
         \A key : SoFar(i, key, c) = SoFar(i, key, b)
  PROVE  SectionSoFar(i, c)'
  BY FileStays DEF SectionSoFar, Defines

LEMMA ServerRead ==
  ASSUME ConfType, WrittenSoFar(lineno), ParseServer
  PROVE  WrittenSoFar(lineno)'
<1>1. PICK b \in 1 .. Len(file) : b = lineno
  BY DEF ConfType, ParseServer, Parsing, File
<1>2. /\ file \in File /\ file' = file /\ lineno' = b + 1 /\ file[b].key = "server"
      /\ servers' = Append(servers, NewServer(file[b].value))
  BY <1>1 DEF ConfType, ParseServer, Report, Here
<1>3. Len(servers) \in Nat /\ DOMAIN servers = 1 .. Len(servers) /\ Len(servers) = SectionOf(b - 1)
  BY <1>1 DEF ConfType, WrittenSoFar
<1>4. SectionOf(b) = Len(servers) + 1
  BY <1>1, <1>2, <1>3, SectionFacts
<1>5. /\ Len(servers') = Len(servers) + 1 /\ DOMAIN servers' = 1 .. Len(servers) + 1
      /\ \A i \in 1 .. Len(servers) : servers'[i] = servers[i]
      /\ servers'[Len(servers) + 1] = NewServer(file[b].value)
  BY <1>2, <1>3 DEF ConfType
<1>6. ASSUME NEW i \in 1 .. Len(servers)
      PROVE  SectionSoFar(i, b + 1)'
  <2>1. \A key : SoFar(i, key, b + 1) = SoFar(i, key, b)
    BY <1>2, <1>3, <1>4, OneLineMore
  <2>2. SectionSoFar(i, b)
    BY <1>1, <1>3 DEF WrittenSoFar
  <2> QED
    BY <1>2, <1>5, <2>1, <2>2, SectionStays
<1>7. ASSUME NEW i, i = Len(servers) + 1
      PROVE  SectionSoFar(i, b + 1)'
  <2>1. \A key : SoFar(i, key, b) = {}
    <3>1. i \in Int /\ i > SectionOf(b - 1)
      BY <1>3, <1>7
    <3> QED
      BY <1>2, <3>1, OneLineMore
  <2>2. SoFar(i, "server", b + 1) = {b}
    <3>1. SoFar(i, "server", b + 1) = SoFar(i, "server", b) \cup {b}
      BY <1>2, <1>4, <1>7, OneLineMore, Zenon
    <3> QED
      BY <2>1, <3>1
  <2>3. \A key : key # "server" => SoFar(i, key, b + 1) = {}
    <3>1. \A key : key # "server" => SoFar(i, key, b + 1) = SoFar(i, key, b)
      BY <1>2, OneLineMore, Zenon
    <3> QED
      BY <2>1, <3>1
  <2>4. /\ servers'[i].address = file[b].value /\ servers'[i].images = <<>>
        /\ \A k \in Attribute : servers'[i].attr[k] = None
    BY <1>5, <1>7 DEF NewServer
  <2>5. "server" \notin Attribute /\ Len(<<>>) = 0
    BY DEF Attribute
  <2>6. \A key : SoFar(i, key, b + 1)' = SoFar(i, key, b + 1)
    BY <1>2, FileStays
  <2>7. \E n \in SoFar(i, "server", b + 1)' : file'[n].value = servers'[i].address
    BY <1>2, <2>2, <2>4, <2>6
  <2>8. \A k \in Attribute : SoFar(i, k, b + 1)' = {} /\ servers'[i].attr[k] = None
    BY <2>3, <2>4, <2>5, <2>6
  <2>9. SoFar(i, "image", b + 1)' = {} /\ Len(servers'[i].images) = Cardinality(SoFar(i, "image", b + 1)')
    BY <2>3, <2>4, <2>5, <2>6, FS_EmptySet
  <2> QED
    BY <2>7, <2>8, <2>9 DEF SectionSoFar
<1>8. SectionOf(b)' = Len(servers')
  BY <1>2, <1>4, <1>5, FileStays
<1>9. lineno' - 1 = b
  BY <1>2
<1>10. DOMAIN servers' = (1 .. Len(servers)) \cup {Len(servers) + 1}
  BY <1>3, <1>5
<1> QED
  BY <1>2, <1>6, <1>7, <1>8, <1>9, <1>10 DEF WrittenSoFar

\* What is common to the lines within a section.
LEMMA WithinSection ==
  ASSUME ConfType, WrittenSoFar(lineno), Parsing, Here.key # "server", file' = file, lineno' = lineno + 1,
         Len(servers') = Len(servers), DOMAIN servers' = 1 .. Len(servers),
         \A i \in 1 .. Len(servers) : i # Latest => servers'[i] = servers[i],
         \A i \in 1 .. Len(servers) : \A b : i = Latest /\ b = lineno => SectionSoFar(i, b + 1)'
  PROVE  WrittenSoFar(lineno)'
<1>1. PICK b \in 1 .. Len(file) : b = lineno
  BY DEF ConfType, Parsing, File
<1>2. file \in File /\ lineno' = b + 1 /\ file[b].key # "server"
  BY <1>1 DEF ConfType, Here
<1>3. Len(servers) \in Nat /\ DOMAIN servers = 1 .. Len(servers) /\ Len(servers) = SectionOf(b - 1)
  BY <1>1 DEF ConfType, WrittenSoFar
<1>4. SectionOf(b) = Len(servers)
  <2>1. SectionOf(b) = SectionOf(b - 1) + (IF file[b].key = "server" THEN 1 ELSE 0)
    BY <1>2, SectionFacts, Zenon
  <2> QED
    BY <1>2, <1>3, <2>1
<1>5. ASSUME NEW i \in 1 .. Len(servers), i # Len(servers)
      PROVE  SectionSoFar(i, b + 1)'
  <2>1. \A key : SoFar(i, key, b + 1) = SoFar(i, key, b)
    BY <1>2, <1>4, <1>5, OneLineMore
  <2>2. SectionSoFar(i, b)
    BY <1>1, <1>3 DEF WrittenSoFar
  <2> QED
    BY <1>2, <1>5, <2>1, <2>2, SectionStays DEF Latest
<1>6. ASSUME NEW i \in 1 .. Len(servers), i = Len(servers)
      PROVE  SectionSoFar(i, b + 1)'
  BY <1>1, <1>6 DEF Latest
<1>7. SectionOf(b)' = Len(servers')
  BY <1>4, FileStays
<1>8. lineno' - 1 = b
  BY <1>2
<1> QED
  BY <1>2, <1>5, <1>6, <1>7, <1>8 DEF WrittenSoFar
\* What the section that is read consists of, before a line and after it.
LEMMA LatestFacts ==
  ASSUME ConfType, WrittenSoFar(lineno), Parsing, servers # <<>>, Here.key # "server",
         NEW b, b = lineno, NEW i, i = Latest
  PROVE  /\ file \in File /\ b \in 1 .. Len(file) /\ Here \in Line /\ Here = file[b]
         /\ i \in 1 .. Len(servers) /\ servers[i] \in Section /\ SectionSoFar(i, b)
         /\ \A key : IsFiniteSet(SoFar(i, key, b)) /\ b \notin SoFar(i, key, b)
         /\ SoFar(i, Here.key, b + 1) = SoFar(i, Here.key, b) \cup {b}
         /\ \A key : key # Here.key => SoFar(i, key, b + 1) = SoFar(i, key, b)
<1>1. file \in File /\ b \in 1 .. Len(file) /\ Here = file[b]
  BY DEF ConfType, Parsing, File, Here
<1>2. Here \in Line
  <2>1. file \in Seq(Line)
    BY <1>1 DEF File
  <2>2. \A n \in 1 .. Len(file) : file[n] \in Line
    BY <2>1
  <2> QED
    BY <1>1, <2>2
<1>3. /\ Len(servers) \in Nat /\ DOMAIN servers = 1 .. Len(servers) /\ Len(servers) = SectionOf(b - 1)
      /\ \A n \in 1 .. Len(servers) : servers[n] \in Section
  BY DEF ConfType, WrittenSoFar
<1>4. i \in 1 .. Len(servers) /\ i = Len(servers)
  <2>1. Len(servers) # 0
    BY DEF ConfType
  <2> QED
    BY <1>3, <2>1 DEF Latest
<1>5. SectionOf(b) = i
  <2>1. SectionOf(b) = SectionOf(b - 1) + (IF file[b].key = "server" THEN 1 ELSE 0)
    BY <1>1, SectionFacts, Zenon
  <2> QED
    BY <1>1, <1>3, <1>4, <2>1
<1>6. /\ \A key : IsFiniteSet(SoFar(i, key, b)) /\ b \notin SoFar(i, key, b)
      /\ SoFar(i, Here.key, b + 1) = SoFar(i, Here.key, b) \cup {b}
      /\ \A key : key # Here.key => SoFar(i, key, b + 1) = SoFar(i, key, b)
  <2>1. \A key : IsFiniteSet(SoFar(i, key, b)) /\ b \notin SoFar(i, key, b)
    BY <1>1, OneLineMore, Zenon
  <2>2. \A key : key = file[b].key => SoFar(i, key, b + 1) = SoFar(i, key, b) \cup {b}
    BY <1>1, <1>5, OneLineMore
  <2>3. \A key : key # file[b].key => SoFar(i, key, b + 1) = SoFar(i, key, b)
    BY <1>1, OneLineMore
  <2> QED
    BY <1>1, <2>1, <2>2, <2>3
<1>7. SectionSoFar(i, b)
  BY <1>3, <1>4 DEF WrittenSoFar
<1> QED
  BY <1>1, <1>2, <1>3, <1>4, <1>6, <1>7

LEMMA ImageRead ==
  ASSUME ConfType, WrittenSoFar(lineno), ParseImage, servers # <<>>
  PROVE  WrittenSoFar(lineno)'
<1>1. PICK b, i : b = lineno /\ i = Latest
  OBVIOUS
<1>2. PICK s, v : s = servers[i] /\ v = Here.value
  OBVIOUS
<1>3. PICK e : e = [s EXCEPT !.images = <<NewImage(v)>> \o s.images]
  OBVIOUS
<1>4. /\ servers' = [servers EXCEPT ![i] = e] /\ file' = file /\ lineno' = lineno + 1
      /\ Parsing /\ Here.key = "image"
  BY <1>1, <1>2, <1>3 DEF ParseImage, Report
<1>5. /\ i \in 1 .. Len(servers) /\ s \in Section /\ SectionSoFar(i, b) /\ v \in ImageValue /\ v = file[b].value
      /\ \A key : IsFiniteSet(SoFar(i, key, b)) /\ b \notin SoFar(i, key, b)
      /\ SoFar(i, "image", b + 1) = SoFar(i, "image", b) \cup {b}
      /\ \A key : key # "image" => SoFar(i, key, b + 1) = SoFar(i, key, b)
  BY <1>1, <1>2, <1>4, LatestFacts, LineFacts
<1>6. /\ Len(servers') = Len(servers) /\ DOMAIN servers' = 1 .. Len(servers)
      /\ \A n \in 1 .. Len(servers) : n # i => servers'[n] = servers[n]
      /\ servers'[i] = e
  BY <1>4, <1>5 DEF ConfType
<1>7. s.images \in Seq([name : Name, alias : Name]) /\ NewImage(v) \in [name : Name, alias : Name]
  BY <1>5, ImageFacts DEF Section
<1>8. /\ e.images = <<NewImage(v)>> \o s.images /\ e.address = s.address /\ e.attr = s.attr
  BY <1>3, <1>5 DEF Section
<1>9. /\ Len(e.images) = Len(s.images) + 1 /\ e.images[1] = NewImage(v) /\ 1 \in DOMAIN e.images
      /\ \A n \in DOMAIN s.images : n + 1 \in DOMAIN e.images /\ e.images[n + 1] = s.images[n]
  BY <1>7, <1>8
<1>10. Defines(e, Replaced(v.name))
  BY <1>9 DEF Defines, NewImage
<1>11. \A name : Defines(s, name) => Defines(e, name)
  BY <1>9 DEF Defines
<1>12. \A key : SoFar(i, key, b + 1)' = SoFar(i, key, b + 1)
  BY <1>4, FileStays
<1>13. SectionSoFar(i, b + 1)'
  <2>1. Len(servers'[i].images) = Cardinality(SoFar(i, "image", b + 1)')
    <3>1. Cardinality(SoFar(i, "image", b + 1)) = Cardinality(SoFar(i, "image", b)) + 1
      BY <1>5, FS_AddElement
    <3> QED
      BY <1>2, <1>5, <1>6, <1>9, <1>12, <3>1 DEF SectionSoFar
  <2>2. \A n \in SoFar(i, "image", b + 1)' : Defines(servers'[i], Replaced(file'[n].value.name))
    BY <1>2, <1>4, <1>5, <1>6, <1>10, <1>11, <1>12 DEF SectionSoFar
  <2>3. \A key : key # "image" => SoFar(i, key, b + 1)' = SoFar(i, key, b)
    BY <1>5, <1>12
  <2>4. "image" \notin Attribute
    BY DEF Attribute
  <2>5. \E n \in SoFar(i, "server", b + 1)' : file'[n].value = servers'[i].address
    BY <1>2, <1>4, <1>5, <1>6, <1>8, <2>3 DEF SectionSoFar
  <2>6. \A k \in Attribute :
          \/ SoFar(i, k, b + 1)' = {} /\ servers'[i].attr[k] = None
          \/ \E n \in SoFar(i, k, b + 1)' : SoFar(i, k, b + 1)' = {n} /\ servers'[i].attr[k] = file'[n].value
    BY <1>2, <1>4, <1>5, <1>6, <1>8, <2>3, <2>4 DEF SectionSoFar
  <2> QED
    BY <2>1, <2>2, <2>5, <2>6 DEF SectionSoFar, Defines
<1>14. \A n \in 1 .. Len(servers) : \A c : n = Latest /\ c = lineno => SectionSoFar(n, c + 1)'
  BY <1>1, <1>13
<1>15. Here.key # "server"
  BY <1>4
<1> QED
  BY <1>1, <1>4, <1>6, <1>14, <1>15, WithinSection

LEMMA AttributeRead ==
  ASSUME ConfType, WrittenSoFar(lineno), ParseAttribute, servers # <<>>,
         Here.key \in Checked => Here.value # Improper, servers[Latest].attr[Here.key] = None
  PROVE  WrittenSoFar(lineno)'
<1>1. PICK b, i : b = lineno /\ i = Latest
  OBVIOUS
<1>2. PICK s, v, a : s = servers[i] /\ v = Here.value /\ a = Here.key
  OBVIOUS
<1>3. PICK e : e = [s EXCEPT !.attr = [s.attr EXCEPT ![a] = v]]
  OBVIOUS
<1>4. /\ servers' = [servers EXCEPT ![i] = e] /\ file' = file /\ lineno' = lineno + 1
      /\ Parsing /\ a \in Attribute /\ s.attr[a] = None
  BY <1>1, <1>2, <1>3 DEF ParseAttribute, Report
<1>5. a \notin {"server", "image"} /\ "server" \notin Attribute /\ "image" \notin Attribute
  BY <1>4 DEF Attribute
<1>6. /\ i \in 1 .. Len(servers) /\ s \in Section /\ SectionSoFar(i, b) /\ v = file[b].value /\ Here \in Line
      /\ SoFar(i, a, b + 1) = SoFar(i, a, b) \cup {b}
      /\ \A key : key # a => SoFar(i, key, b + 1) = SoFar(i, key, b)
  BY <1>1, <1>2, <1>4, <1>5, LatestFacts
<1>7. /\ Len(servers') = Len(servers) /\ DOMAIN servers' = 1 .. Len(servers)
      /\ \A n \in 1 .. Len(servers) : n # i => servers'[n] = servers[n]
      /\ servers'[i] = e
  BY <1>4, <1>6 DEF ConfType
<1>8. /\ e.images = s.images /\ e.address = s.address /\ e.attr[a] = v
      /\ \A k \in Attribute : k # a => e.attr[k] = s.attr[k]
  BY <1>3, <1>4, <1>6 DEF Section
<1>9. \A key : SoFar(i, key, b + 1)' = SoFar(i, key, b + 1)
  BY <1>4, FileStays
<1>10. SoFar(i, a, b) = {}
  <2>1. \A n \in SoFar(i, a, b) : file[n].key = a /\ n \in DOMAIN file
    BY DEF SoFar, LinesOf
  <2>2. \A n \in DOMAIN file : file[n] \in Line
    BY DEF ConfType, File
  <2>3. \A l \in Line : l.key \in Attribute => l.value # None
    BY DEF Line, Attribute
  <2>4. \A n \in SoFar(i, a, b) : file[n].value # s.attr[a]
    BY <1>4, <2>1, <2>2, <2>3
  <2> QED
    BY <1>2, <1>4, <1>6, <2>4 DEF SectionSoFar
<1>11. SectionSoFar(i, b + 1)'
  <2>1. \A key : key # a => SoFar(i, key, b + 1)' = SoFar(i, key, b)
    BY <1>6, <1>9
  <2>2. SoFar(i, a, b + 1)' = {b}
    BY <1>6, <1>9, <1>10
  <2>3. \E n \in SoFar(i, "server", b + 1)' : file'[n].value = servers'[i].address
    BY <1>2, <1>4, <1>5, <1>6, <1>7, <1>8, <2>1 DEF SectionSoFar
  <2>4. \A k \in Attribute :
          \/ SoFar(i, k, b + 1)' = {} /\ servers'[i].attr[k] = None
          \/ \E n \in SoFar(i, k, b + 1)' : SoFar(i, k, b + 1)' = {n} /\ servers'[i].attr[k] = file'[n].value
    BY <1>2, <1>4, <1>6, <1>7, <1>8, <2>1, <2>2 DEF SectionSoFar
  <2>5. Len(servers'[i].images) = Cardinality(SoFar(i, "image", b + 1)')
    BY <1>2, <1>5, <1>6, <1>7, <1>8, <2>1 DEF SectionSoFar
  <2>6. \A n \in SoFar(i, "image", b + 1)' : Defines(servers'[i], Replaced(file'[n].value.name))
    BY <1>2, <1>4, <1>5, <1>6, <1>7, <1>8, <2>1 DEF SectionSoFar, Defines
  <2> QED
    BY <2>3, <2>4, <2>5, <2>6 DEF SectionSoFar, Defines
<1>12. \A n \in 1 .. Len(servers) : \A c : n = Latest /\ c = lineno => SectionSoFar(n, c + 1)'
  BY <1>1, <1>11
<1>13. Here.key # "server"
  BY <1>2, <1>5
<1> QED
  BY <1>1, <1>4, <1>7, <1>12, <1>13, WithinSection

\* A line that says nothing of a section.
LEMMA OtherRead ==
  ASSUME ConfType, WrittenSoFar(lineno), Parsing, Here.key \in {"cpcid", "unknown", "syntax", "blank"},
         UNCHANGED <<servers, file>>, lineno' = lineno + 1
  PROVE  WrittenSoFar(lineno)'
<1>1. PICK b, i : b = lineno /\ i = Latest
  OBVIOUS
<1>2. Here.key # "server" /\ Here.key # "image" /\ Here.key \notin Attribute
  BY DEF Attribute
<1>3. ASSUME i \in 1 .. Len(servers)
      PROVE  SectionSoFar(i, b + 1)'
  <2>1. servers # <<>>
    BY <1>3
  <2>2. /\ SectionSoFar(i, b)
        /\ \A key : key # Here.key => SoFar(i, key, b + 1) = SoFar(i, key, b)
    BY <1>1, <1>2, <2>1, LatestFacts
  <2>3. \A key : key # Here.key => SoFar(i, key, b + 1)' = SoFar(i, key, b)
    BY <2>2, FileStays
  <2>4. SoFar(i, "server", b + 1)' = SoFar(i, "server", b) /\ SoFar(i, "image", b + 1)' = SoFar(i, "image", b)
    BY <1>2, <2>3
  <2>5. \A k \in Attribute : SoFar(i, k, b + 1)' = SoFar(i, k, b)
    BY <1>2, <2>3
  <2> QED
    BY <2>2, <2>4, <2>5 DEF SectionSoFar, Defines
<1>4. \A n \in 1 .. Len(servers) : \A c : n = Latest /\ c = lineno => SectionSoFar(n, c + 1)'
  BY <1>1, <1>3
<1>5. Len(servers') = Len(servers) /\ DOMAIN servers' = 1 .. Len(servers)
  BY DEF ConfType
<1> QED
  BY <1>2, <1>4, <1>5, WithinSection

LEMMA LineRead ==
  ASSUME ConfType, ParsedInv, Parse
  PROVE  ParsedInv'
<1>1. PICK r : Report(r) /\ (r = "OK" \/ problem_class' # "OK")
  BY Zenon DEF Parse, ParseServer, ParseImage, ParseAttribute, ParseOther, SkipLine, Report
<1>2. /\ phase' # "unique" /\ ~(Loaded' /\ problem_class' # "FATAL")
      /\ problem_class' = "OK" => problem_class = "OK" /\ ret' = "OK" /\ r = "OK"
      /\ file' = file /\ lineno' = lineno + 1
  BY <1>1 DEF Report, Loaded
<1>3. ASSUME problem_class' = "OK"
      PROVE  WrittenSoFar(lineno)'
  <2>1. WrittenSoFar(lineno) /\ ret = "OK" /\ ret' = "OK" /\ Parsing
    BY <1>2, <1>3 DEF ParsedInv, Parse, ParseServer, ParseImage, ParseAttribute, ParseOther, SkipLine
  <2>2. CASE ParseServer
    BY <2>1, <2>2, ServerRead
  <2>3. CASE ParseImage
    <3>1. servers # <<>>
      BY <1>3, <2>1, <2>3 DEF ParseImage, Report
    <3> QED
      BY <2>1, <2>3, <3>1, ImageRead
  <2>4. CASE ParseAttribute
    <3>1. /\ servers # <<>>
          /\ Here.key \in Checked => Here.value # Improper
          /\ servers[Latest].attr[Here.key] = None
      BY <1>3, <2>1, <2>4 DEF ParseAttribute, Report
    <3> QED
      BY <2>1, <2>4, <3>1, AttributeRead
  <2>5. CASE ParseOther \/ SkipLine
    <3>1. Here.key \in {"cpcid", "unknown", "syntax", "blank"} /\ UNCHANGED servers
      BY <2>5 DEF ParseOther, SkipLine
    <3> QED
      BY <1>2, <2>1, <3>1, OtherRead
  <2> QED
    BY <2>2, <2>3, <2>4, <2>5 DEF Parse
<1> QED
  BY <1>2, <1>3 DEF ParsedInv

LEMMA WrittenStays ==
  ASSUME UNCHANGED <<file, servers, lineno>>
  PROVE  WrittenSoFar(lineno)' <=> WrittenSoFar(lineno)
<1>1. \A i, key, b : SoFar(i, key, b)' = SoFar(i, key, b) /\ SectionOf(b)' = SectionOf(b)
  BY FileStays
<1>2. \A i, b : SectionSoFar(i, b)' <=> SectionSoFar(i, b)
  BY <1>1 DEF SectionSoFar, Defines
<1>3. PICK b : b = lineno
  OBVIOUS
<1>4. WrittenSoFar(b)' <=> WrittenSoFar(b)
  BY <1>1, <1>2 DEF WrittenSoFar
<1> QED
  BY <1>3, <1>4 DEF WrittenSoFar

LEMMA ParsedStep ==
  ASSUME ConfType, ParsedInv, [Next]_vars
  PROVE  ParsedInv'
<1>1. CASE Parse
  BY <1>1, LineRead
<1>2. CASE UNCHANGED confVars
  BY <1>2, WrittenStays DEF confVars, ParsedInv, Loaded
<1>3. CASE EndOfFile
  <2>1. lineno = Len(file) + 1
    BY <1>3 DEF EndOfFile, ConfType, File
  <2> QED
    BY <1>3, <2>1, WrittenStays DEF EndOfFile, ParsedInv, Loaded
<1>4. CASE MissingType \/ Duplicate
  BY <1>4 DEF MissingType, Duplicate, Refuse, ParsedInv
<1>5. CASE NextPair \/ NextServer \/ UniqueEnds
  BY <1>5, WrittenStays DEF NextPair, NextServer, UniqueEnds, Comparing, ParsedInv, Loaded
<1>6. CASE \E named, readable, home : FindFile(named, readable, home)
  BY <1>6, WrittenStays DEF FindFile, ParsedInv, Loaded
<1>7. Next => ConfigFile \/ UNCHANGED confVars
  BY DEF Next, Snipl, Done, vars, Option, OptionEnds, OptionsRead, Configured, Crash, Main, ListVm, PrepareCheck,
         Login, ListLpar, Operate, Ends
<1>8. CASE ConfigFile
  BY <1>1, <1>3, <1>4, <1>5, <1>6, <1>8 DEF ConfigFile, Load, Parse
<1> QED
  BY <1>2, <1>7, <1>8 DEF vars

LEMMA ParsedInit ==
  ASSUME Init, ConfType
  PROVE  ParsedInv
<1>1. phase = "find" /\ lineno = 1 /\ servers = <<>> /\ ret = "OK"
  BY DEF Init, ConfInit
<1>2. SectionOf(lineno - 1) = 0 /\ Len(servers) = 0 /\ DOMAIN servers = {}
  <2>1. SectionOf(0) = 0
    BY SectionFacts DEF ConfType
  <2>2. lineno - 1 = 0
    BY <1>1
  <2> QED
    BY <1>1, <2>1, <2>2
<1> QED
  BY <1>1, <1>2 DEF ParsedInv, Loaded, WrittenSoFar

\* However long the file is: one without a problem is understood line by line as it is written,
\* every line in the section it stands in, and no value in place of another.
THEOREM FileIsUnderstood == Spec => []ParsedAsWritten
<1>1. CallInv2 => ConfType
  BY DEF CallInv2, CallInv1
<1>2. ConfType /\ ParsedInv => ParsedAsWritten
  <2> SUFFICES ASSUME ConfType, ParsedInv, Loaded, problem_class = "OK"
               PROVE  ParsedAsWritten
    BY DEF ParsedAsWritten
  <2>1. PICK b : b = Len(file) + 1
    OBVIOUS
  <2>2. WrittenSoFar(b) /\ file \in File
    BY <2>1 DEF ParsedInv, ConfType
  <2>3. /\ Len(file) \in Nat /\ DOMAIN file = 1 .. Len(file) /\ SectionOf(Len(file)) = Cardinality(ServerLines)
    BY <2>2, SectionFacts
  <2>4. b - 1 = Len(file)
    BY <2>1, <2>3
  <2>5. \A n \in DOMAIN file : n < b
    BY <2>1, <2>3
  <2>6. \A i, key : SoFar(i, key, b) = LinesOf(i, key)
    BY <2>5 DEF SoFar, LinesOf
  <2>7. Len(servers) = Cardinality(ServerLines)
    BY <2>2, <2>3, <2>4 DEF WrittenSoFar
  <2>8. \A i \in DOMAIN servers : SectionSoFar(i, b)
    BY <2>2 DEF WrittenSoFar
  <2> QED
    BY <2>6, <2>7, <2>8 DEF SectionSoFar, ParsedAsWritten
<1>3. Spec => []ParsedInv
  BY <1>1, UInit, UStep, CallInit, CallStep, ParsedInit, ParsedStep, PTL DEF Spec
<1> QED
  BY <1>1, <1>2, <1>3, CallAlways, PTL
=============================================================================
