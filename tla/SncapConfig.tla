---------------------------- MODULE SncapConfig ----------------------------
(***************************************************************************)
(* The configuration file of sncap (sncapconf.c): which file is read, what *)
(* its lines become, the check of the result, and the searches in it.      *)
(* Keywords and values are compared without regard to case in the code:    *)
(* equal here means equal in that sense.                                   *)
(***************************************************************************)
EXTENDS Integers, Sequences, SequencesExt

CONSTANTS
  Proper,  \* the texts that is_id accepts: letters and digits only, and not empty
  Begins   \* pairs <<p, t>> of texts where t begins with p

NULL == "NULL"

\* A line.  alias is what stands behind the last slash of a CPC identifier, NULL without one.  The
\* expression for a line wants a value of at least one character, which may be that slash.
Line ==
  [key : {"server", "type", "password", "user", "encryption", "other"}, value : STRING \ {NULL, ""}, alias : STRING]
    \cup [key : {"cpcid"}, value : STRING \ {NULL}, alias : STRING]
    \cup [key : {"blank", "malformed"}, value : {NULL}, alias : {NULL}]

ASSUME SncapConfigAssumption ==
  /\ Proper \subseteq STRING \ {NULL, ""}
  /\ Begins \subseteq STRING \X STRING /\ \A t \in Proper : <<t, t>> \in Begins

\* config_get_file_name: strlen(getenv("HOME")) is reached when the named file cannot be read.
FileFound(named, readable, home) ==
  CASE named /\ "named" \in readable -> "named"
    [] ~home -> "crash"
    [] "home" \in readable -> "home"
    [] "etc" \in readable -> "etc"
    [] OTHER -> "nowhere"

(***************************************************************************)
(* config_parse_line: the section or the property it adds.                 *)
(***************************************************************************)
NoConfig == [sections |-> <<>>, ok |-> TRUE]

\* A property in front of the first section gets lost: nobody looks at what
\* config_add_property returns.
ParseLine(c, l) ==
  CASE ~c.ok \/ l.key = "blank" -> c
    [] c.ok /\ l.key = "malformed" -> [c EXCEPT !.ok = FALSE]
    [] c.ok /\ l.key = "server" -> [c EXCEPT !.sections = Append(@, [address |-> l.value, properties |-> <<>>])]
    [] OTHER -> IF c.sections = <<>> THEN c
                ELSE [c EXCEPT !.sections[Len(c.sections)].properties = Append(@, l)]

Parsed(lines) ==
  LET config[n \in 0 .. Len(lines)] == IF n = 0 THEN NoConfig ELSE ParseLine(config[n - 1], lines[n])
  IN  config[Len(lines)]

\* config_section_find_property: the value of the first property with that key.
ValueOf(section, key) ==
  LET k == SelectInSeq(section.properties, LAMBDA p : p.key = key)
  IN  IF k = 0 THEN NULL ELSE section.properties[k].value

CpcIds(section) == {p \in {section.properties[k] : k \in DOMAIN section.properties} : p.key = "cpcid"}

\* is_cpcid_valid.
ValidCpcId(p) == p.value \in Proper /\ p.alias \in Proper \cup {NULL}

\* verify_config: what is FATAL to it.
VerifyConfig(sections) ==
  \A n \in DOMAIN sections :
    LET s == sections[n]
    IN  /\ CpcIds(s) # {} => ValueOf(s, "type") \in {NULL, "LPAR"}
        /\ \A p \in CpcIds(s) : ValidCpcId(p)

(***************************************************************************)
(* config_find_section, and find_CPC_id_property of sncapjob.c.  They do   *)
(* not agree on what it is to have an identifier: beside an alias,         *)
(* value_is_equal compares no more characters than the identifier has.     *)
(***************************************************************************)
\* Mutated form: the alias is not looked at.
BugValueIsEqual(p, id) == IF p.alias = NULL THEN p.value = id ELSE <<p.value, id>> \in Begins

ValueIsEqual(p, id) ==
  IF p.alias = NULL THEN p.value = id ELSE <<p.value, id>> \in Begins \/ p.alias = id

FindByCpc(sections, id) ==
  SelectInSeq(sections, LAMBDA s : \E p \in CpcIds(s) : ValueIsEqual(p, id))

FindByAddress(sections, address) == SelectInSeq(sections, LAMBDA s : s.address = address)

Names(p, id) == p.key = "cpcid" /\ (p.value = id \/ p.alias = id)

\* The index of the property, 0 if there is none.
FindCpcProperty(section, id) == SelectInSeq(section.properties, LAMBDA p : Names(p, id))
=============================================================================
