----------------------------- MODULE MCSncapJob -----------------------------
(***************************************************************************)
(* Calls for SncapJob: few options with many files, many options with few  *)
(* files, and every place a file can be in.                                *)
(***************************************************************************)
EXTENDS SncapJob

\* CPC10 begins with CPC1; C1 is an alias.
Ids == {"CPC1", "CPC10", "C1", "R1"}
Beginnings == {<<t, t>> : t \in Ids} \cup {<<"CPC1", "CPC10">>, <<"CPC1", "CPC1/C1">>, <<"C1", "C1">>}

O(c) == [opt |-> c, arg |-> NULL, number |-> 0]
OV(c, v) == [opt |-> c, arg |-> v, number |-> 0]
ON(c, n) == [opt |-> c, arg |-> NULL, number |-> n]

L(k, v) == [key |-> k, value |-> v, alias |-> NULL]
CpcLine(id, alias) == [key |-> "cpcid", value |-> id, alias |-> alias]

Upto(n, S) == UNION {[1..k -> S] : k \in 0..n}

\* Files of a few lines, and files of two sections.
AnyLine ==
  { L("server", "A"), CpcLine("CPC1", NULL), CpcLine("CPC1", "C1"), CpcLine("CPC-1", NULL), L("type", "LPAR"),
    L("type", "VM"), L("password", "pw"), L("user", "U"), L("encryption", "no"), L("encryption", "maybe"),
    L("other", "x"), L("blank", NULL), L("malformed", NULL) }

ShortFiles == Upto(3, AnyLine)

IdLines ==
  { <<>>, <<CpcLine("CPC1", NULL)>>, <<CpcLine("CPC1", "C1")>>, <<CpcLine("CPC10", NULL)>>,
    <<CpcLine("CPC1", "C1"), CpcLine("CPC10", NULL)>>, <<CpcLine("CPC10", "CPC1")>> }

Access(p, u) ==
  { <<L("password", p)>>, <<L("password", p), L("user", u)>>, <<L("password", p), L("encryption", "no")>>,
    <<L("encryption", "yes"), L("user", u)>> }

Sections(a, p, u) == {<<L("server", a)>> \o i \o x : i \in IdLines, x \in Access(p, u)}
TwoSections == {f \o g : f \in Sections("A", "pw1", "U"), g \in Sections("A", "pw2", "V") \cup Sections("B", "pw2", "V")}

CpcCalls ==
  { <<OV("CPC", id), O("l")>> \o x :
      id \in {"CPC1", "CPC10", "C1"}, x \in {<<>>, <<OV("S", "A")>>, <<O("e")>>, <<OV("p", "pw"), OV("u", "W")>>} }

Home(f) == [home |-> f]
Calls(A, F, h) == {[argv |-> a, files |-> f, home |-> h] : a \in A, f \in F}

FileInput ==
  Calls(CpcCalls, {Home(f) : f \in TwoSections}, TRUE)
    \cup Calls({<<OV("CPC", "CPC1"), O("c")>>, <<OV("CPC", "C1"), OV("S", "A"), O("l")>>}, {Home(f) : f \in ShortFiles}, TRUE)

\* Options in every order.
AnyOption ==
  { OV("CPC", "CPC1"), OV("CPC", "CPC1/C1"), OV("CPC", ""), OV("a", "R1"), OV("a", "-t"), OV("d", "R1"), OV("q", "R1"),
    OV("q", "-l"), O("c"), O("l"), O("x"), O("h"), O("v"), O("t"), O("n"), O("V"), O("P"), O("e"),
    OV("S", "A"), OV("S", ""), OV("p", "pw"), OV("u", "W"), OV("f", "file"), OV("m", "M"), OV("m", "-a"),
    ON("C", 1), ON("F", 0), ON("F", -1), ON("T", -1), ON("T", -2), ON("T", 5), ON("T", NotANumber), ON("z", NotANumber), O("?"), O(":") }

GoodFile ==
  <<L("server", "A"), CpcLine("CPC1", "C1"), L("password", "pw1"), L("user", "U")>>

Base == {<<OV("CPC", "CPC1")>>, <<OV("CPC", "CPC1"), OV("a", "R1"), OV("m", "M")>>, <<OV("S", "A"), OV("p", "pw")>>,
         <<OV("S", "A"), OV("p", "pw"), OV("u", "W"), OV("CPC", "CPC1"), OV("d", "R1")>>,
         <<OV("CPC", "CPC1"), OV("q", "R1"), OV("S", "A"), O("e"), OV("p", "pw")>>}

OptionInput ==
  Calls(Upto(2, AnyOption) \cup {<<x>> \o b \o <<y>> : x \in AnyOption, y \in AnyOption, b \in Base}, {Home(GoodFile)}, TRUE)

PlaceInput ==
  Calls({<<OV("CPC", "CPC1"), O("l")>> \o x : x \in {<<>>, <<OV("f", "file")>>, <<OV("f", "file"), OV("S", "A"), OV("u", "W"), O("P")>>}},
        {[g \in f |-> <<L("server", g)>> \o Tail(GoodFile)] : f \in SUBSET {"named", "home", "etc"}}, TRUE)
    \cup Calls({<<OV("CPC", "CPC1"), O("l")>> \o x : x \in {<<>>, <<OV("f", "file")>>}},
        {[g \in f |-> GoodFile] : f \in SUBSET {"named", "etc"}}, FALSE)

AllInput == FileInput \cup OptionInput \cup PlaceInput
=============================================================================
