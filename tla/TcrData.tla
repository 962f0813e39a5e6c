------------------------------ MODULE TcrData ------------------------------
(***************************************************************************)
(* What sncap takes from the document of a record: sncap_tcr_get_data of   *)
(* sncaptcr.c, field by field, on the tree of DsmParser.                   *)
(***************************************************************************)
EXTENDS DsmParser, Functions

CONSTANT Sent   \* what the SE sends: a document, and the record it was written from

VARIABLES
  written,  \* the elements of that record, each a name with its text and its own elements; if
            \* the document is damaged, NoRecord
  pc,       \* "parse", "get", "adjust", "done", or "crash"
  next,     \* the field that is looked for next
  code,     \* what sncap_tcr_get_data returns
  tcr       \* the fields that were found, by name

vars == <<parserVars, written, pc, next, code, tcr>>

(***************************************************************************)
(* The fields of a record in the order they are looked for: text, a        *)
(* number, a number that may be missing, a date, or an array of elements   *)
(* with fields of their own.                                               *)
(***************************************************************************)
Field(name, kind) == [name |-> name, kind |-> kind]

Fields ==
  << Field("recordid", "string"), Field("recordtype", "string"), Field("status", "string"),
     Field("remainingrealactivations", "int"), Field("remainingtestactivations", "int"),
     Field("recordexpiration", "date"), Field("activationstart", "date"),
     Field("processorinfo", "array"), Field("target", "array"),
     Field("remainingrealdays", "int"), Field("remainingtestdays", "int") >>

ArrayFields ==
  [processorinfo |-> << Field("type", "string"), Field("procstep", "optional"), Field("speedstep", "optional"),
                        Field("max", "int"), Field("remainingprocdays", "int"),
                        Field("remainingmsudays", "optional") >>,
   target |-> << Field("procstep", "int"), Field("speedstep", "int"), Field("softwaremodel", "string"),
                 Field("billablemsucost", "int"), Field("billablemsudelta", "int") >>]

\* What stands for an optional number that is missing.
Default(name) == IF name = "remainingmsudays" THEN <<"-1">> ELSE <<"0">>

\* sscanf takes the number a text begins with, sncap_convert_date a time stamp or what is too
\* short for one.  The days of a record that are too many for its expiration are one number.
Number == {"-1", "0", "1", "2", "30000"}
IsNumber(text) == text # <<>> /\ text[1] \in Number
NoDate == <<"fourteen letters">>

Init ==
  /\ \E s \in Sent : doc = s.doc /\ written = s.record
  /\ ParserInit
  /\ pc = "parse" /\ next = 1 /\ code = "OK" /\ tcr = <<>>

Parsing == pc = "parse" /\ Parse /\ UNCHANGED <<written, pc, next, code, tcr>>

Exit(r) == pc' = "done" /\ code' = r

\* What a document without an error was good for: without a root the first lookup fails.
Parsed ==
  /\ pc = "parse" /\ ~Reading
  /\ IF ret # "OK" THEN Exit("PROGRAM_ERROR")
     ELSE pc' = (IF root = 0 THEN "crash" ELSE "get") /\ UNCHANGED code
  /\ UNCHANGED <<parserVars, written, next, tcr>>

(***************************************************************************)
(* dsm_get_value_string and dsm_get_value_int: one field below node n.     *)
(***************************************************************************)
Has(n, name) == Find(n, name) # 0 /\ nodes[Find(n, name)].value # <<>>
TextOf(n, name) == Text(Find(n, name))

Works(n, f) ==
  CASE f.kind = "string" -> Has(n, f.name)
    [] f.kind = "int" -> Has(n, f.name) /\ IsNumber(TextOf(n, f.name))
    [] f.kind = "date" -> Has(n, f.name) /\ TextOf(n, f.name) # NoDate
    [] f.kind = "optional" -> TRUE

Value(n, f) ==
  CASE f.kind = "int" -> <<TextOf(n, f.name)[1]>>
    [] f.kind = "optional" -> IF Has(n, f.name) /\ IsNumber(TextOf(n, f.name)) THEN <<TextOf(n, f.name)[1]>>
                              ELSE Default(f.name)
    [] f.name = "status" -> IF TextOf(n, f.name) \in {<<"none">>, <<"Available">>} THEN <<"Installed">>
                            ELSE TextOf(n, f.name)
    [] OTHER -> TextOf(n, f.name)

(***************************************************************************)
(* sncap_tcr_get_data: field by field.                                     *)
(***************************************************************************)
Wanted == Fields[next]
Record == Find(root, "record")
Active(t) == t["status"] \in {<<"Real">>, <<"Test">>}

Getting == pc = "get" /\ next <= Len(Fields)
Skipped == Wanted.name = "activationstart" /\ ~Active(tcr)

Store(v) ==
  /\ tcr' = [name \in DOMAIN tcr \cup {Wanted.name} |-> IF name = Wanted.name THEN v ELSE tcr[name]]
  /\ next' = next + 1
  /\ UNCHANGED <<parserVars, written, pc, code>>

Fails == Exit("PROGRAM_ERROR") /\ UNCHANGED <<parserVars, written, next, tcr>>

GetField ==
  /\ Getting /\ Wanted.kind # "array" /\ ~Skipped
  /\ IF Record # 0 /\ Works(Record, Wanted) THEN Store(Value(Record, Wanted)) ELSE Fails

SkipField ==
  /\ Getting /\ Skipped
  /\ next' = next + 1 /\ UNCHANGED <<parserVars, written, pc, code, tcr>>

\* The numbers up to max that are in S, in their order.
Ascending(S, max) ==
  LET found[n \in 0 .. max] ==
        IF n = 0 THEN <<>> ELSE IF n \in S THEN Append(found[n - 1], n) ELSE found[n - 1]
  IN  found[max]

\* dsm_get_all: every element of that name, in its order.
All(name) == Ascending(Children(Record, name), Len(nodes))

\* Mutated form: the fields are always looked for in the first element.
BugFieldsOf(n) ==
  [name \in {f.name : f \in Range(ArrayFields[Wanted.name])} |->
     Value(All(Wanted.name)[1], CHOOSE f \in Range(ArrayFields[Wanted.name]) : f.name = name)]

FieldsOf(n) ==
  [name \in {f.name : f \in Range(ArrayFields[Wanted.name])} |->
     Value(n, CHOOSE f \in Range(ArrayFields[Wanted.name]) : f.name = name)]

GetArray ==
  /\ Getting /\ Wanted.kind = "array"
  /\ IF Record # 0 /\ \A n \in Children(Record, Wanted.name) : \A f \in Range(ArrayFields[Wanted.name]) : Works(n, f)
     THEN Store([k \in DOMAIN All(Wanted.name) |-> FieldsOf(All(Wanted.name)[k])])
     ELSE Fails

GotAll ==
  /\ pc = "get" /\ next > Len(Fields)
  /\ pc' = "adjust" /\ UNCHANGED <<parserVars, written, next, code, tcr>>

\* An active record that cannot be activated again expires when its days are used up; the days
\* are multiplied with 86400 as a C int.
Days == IF tcr["status"] = <<"Real">> THEN tcr["remainingrealdays"] ELSE tcr["remainingtestdays"]

Adjust ==
  /\ pc = "adjust"
  /\ tcr' = IF /\ Active(tcr) /\ Days \notin {<<"-1">>, <<"30000">>}
               /\ tcr["remainingrealactivations"] = <<"0">> /\ tcr["remainingtestactivations"] = <<"0">>
            THEN [tcr EXCEPT !["recordexpiration"] = <<"in days:">> \o Days] ELSE tcr
  /\ Exit("OK")
  /\ UNCHANGED <<parserVars, written, next>>

Stopped == pc \in {"done", "crash"} /\ UNCHANGED vars

Next == Parsing \/ Parsed \/ GetField \/ SkipField \/ GetArray \/ GotAll \/ Adjust \/ Stopped

Spec == Init /\ [][Next]_vars

(***************************************************************************)
(* Properties.                                                             *)
(***************************************************************************)
\* Type invariant; the fields come in their order, and none twice.
TypeOK ==
  /\ ParserTypeOK
  /\ pc \in {"parse", "get", "adjust", "done", "crash"} /\ next \in 1 .. Len(Fields) + 1
  /\ code \in {"OK", "PROGRAM_ERROR"}
  /\ DOMAIN tcr \subseteq {Fields[n].name : n \in 1 .. next - 1}

NoRecord == <<"damaged">>
Undamaged == written # NoRecord

\* What was written: the first element with a name, its text, and all of that name.
Places(E, name) == Ascending({k \in DOMAIN E : E[k].name = name}, Len(E))
Elements(E, name) == [i \in DOMAIN Places(E, name) |-> E[Places(E, name)[i]]]
Wrote(E, name) == Elements(E, name) # <<>>
Said(E, name) == Elements(E, name)[1].text

\* A number ends where something else begins.
Meant(E, f) == IF f.kind \in {"int", "optional"} THEN <<Said(E, f.name)[1]>> ELSE Said(E, f.name)

Complete(E, fields, active) ==
  \A f \in Range(fields) :
    CASE f.kind = "string" -> Wrote(E, f.name)
      [] f.kind = "int" -> Wrote(E, f.name) /\ IsNumber(Said(E, f.name))
      [] f.kind = "date" -> \/ f.name = "activationstart" /\ ~active
                            \/ Wrote(E, f.name) /\ Said(E, f.name) # NoDate
      [] f.kind = "optional" -> TRUE
      [] f.kind = "array" -> TRUE

WroteActive == Wrote(written, "status") /\ Said(written, "status") \in {<<"Real">>, <<"Test">>}

\* A record the SE wrote is understood if nothing it must have is missing, and only then.
CompleteIsAccepted ==
  pc \in {"done", "crash"} /\ Undamaged =>
    (code = "OK" /\ pc = "done" <=>
       /\ Complete(written, Fields, WroteActive)
       /\ \A a \in DOMAIN ArrayFields : \A e \in Range(Elements(written, a)) : Complete(e.elements, ArrayFields[a], FALSE))

\* Every text of an array is the one of its own element: the k-th processor has the type, the
\* steps and the days that were written for it, the k-th target its own model and costs.
ArraysAsWritten ==
  pc = "done" /\ code = "OK" /\ Undamaged =>
    \A a \in DOMAIN ArrayFields :
      /\ Len(tcr[a]) = Len(Elements(written, a))
      /\ \A k \in DOMAIN tcr[a] : \A f \in Range(ArrayFields[a]) :
           LET E == Elements(written, a)[k].elements
           IN  tcr[a][k][f.name] = IF Wrote(E, f.name) /\ (f.kind = "string" \/ IsNumber(Said(E, f.name)))
                                   THEN Meant(E, f) ELSE Default(f.name)

\* The fields of the record are the ones that were written for it, never those of a processor or
\* a target of the same name, and the first of several.
FieldsAsWritten ==
  pc \in {"adjust", "done"} /\ code = "OK" /\ Undamaged =>
    \A n \in DOMAIN Fields :
      LET f == Fields[n]
      IN  f.kind # "array" /\ f.name \notin {"status", "recordexpiration"} /\ f.name \in DOMAIN tcr
          => tcr[f.name] = Meant(written, f)

\* The record is the one that was written, as far as it has been read, with the type invariant,
\* which says that fields are filled in their order (sncap_tcr_get_data).
RecordAsWritten == TypeOK /\ FieldsAsWritten /\ ArraysAsWritten

(***************************************************************************)
(* What it means that a document was written from the elements E of a      *)
(* record; the theorems need it.  The elements of the document are listed  *)
(* in the order in which they begin: the report, the record, and each      *)
(* element of the record with its own behind it.                           *)
(***************************************************************************)
Leaf == [name : STRING, text : Seq(STRING), elements : {<<>>}]
Element == [name : STRING, text : Seq(STRING), elements : Seq(Leaf)]

\* A name is no character with a meaning, and a text has none and does not begin with a blank.
Plain(e) ==
  /\ e.name \notin Special \cup {Blank}
  /\ \A i \in DOMAIN e.text : e.text[i] \notin Special /\ e.text[1] # Blank

PlainRecord(E) ==
  /\ E \in Seq(Element)
  /\ \A k \in DOMAIN E : Plain(E[k]) /\ \A j \in DOMAIN E[k].elements : Plain(E[k].elements[j])

\* Where the elements of the record stand in the list.
Homes(E, home) ==
  /\ home \in [1 .. Len(E) + 1 -> Nat] /\ home[1] = 3
  /\ \A k \in DOMAIN E : home[k + 1] = home[k] + Len(E[k].elements) + 1

\* An entry of the list: parent is the element around it, last the last one in it.
Entry(e, parent, last) == [name |-> e.name, text |-> e.text, parent |-> parent, last |-> last]

Listed(E, home, N) ==
  LET end == home[Len(E) + 1] - 1 IN
  /\ DOMAIN N = 1 .. end
  /\ N[1] = Entry([name |-> "report", text |-> <<>>], 0, end)
  /\ N[2] = Entry([name |-> "record", text |-> <<>>], 1, end)
  /\ \A k \in DOMAIN E :
       /\ N[home[k]] = Entry(E[k], 2, home[k + 1] - 1)
       /\ \A j \in DOMAIN E[k].elements : N[home[k] + j] = Entry(E[k].elements[j], home[k], home[k] + j)

\* Entry n has its start tag at open[n], the text behind it, and its end tag at close[n].
TextEnd(N, open, n) == open[n] + 2 + Len(N[n].text)

Placed(d, N, open, close) ==
  /\ open[1] = 1
  /\ \A n \in DOMAIN N :
       /\ open[n] \in Nat /\ close[n] \in Nat
       /\ TextEnd(N, open, n) < close[n] /\ close[n] + 3 <= Len(d)
       /\ d[open[n]] = "<" /\ d[open[n] + 1] = N[n].name /\ d[open[n] + 2] = ">"
       /\ \A i \in DOMAIN N[n].text : d[open[n] + 2 + i] = N[n].text[i] /\ d[TextEnd(N, open, n) + 1] = "<"
       /\ d[close[n]] = "<" /\ d[close[n] + 1] = "/" /\ d[close[n] + 2] = N[n].name /\ d[close[n] + 3] = ">"
  /\ \A m, n \in DOMAIN N : m < n =>
       /\ TextEnd(N, open, m) < open[n]
       /\ IF n <= N[m].last THEN close[n] + 3 < close[m] ELSE close[m] + 3 < open[n]
  /\ \A i \in DOMAIN d :
       d[i] = Blank \/ \E n \in DOMAIN N : i \in open[n] .. TextEnd(N, open, n) \/ i \in close[n] .. close[n] + 3

WrittenFrom(d, E) == \E home, N, open, close : Homes(E, home) /\ Listed(E, home, N) /\ Placed(d, N, open, close)

(***************************************************************************)
(* Expectations that do not hold: see the README.                          *)
(***************************************************************************)
\* A document that breaks off is refused.
NeverCrashes == pc # "crash"

\* The outermost element is a report (sncapdsm.c:140 compares its name with itself).
RootIsReport == pc = "done" /\ code = "OK" => nodes[1].name = <<"report">>
=============================================================================
