---------------------------- MODULE MCSniplMain ----------------------------
(***************************************************************************)
(* Instances of SniplMain.  FileInput: many files, a few calls that search *)
(* them.  OptionInput: many command lines, a few files.                    *)
(***************************************************************************)
EXTENDS SniplMain

Plain(s) == [stem |-> s, sep |-> "none"]
Hyphen(s) == [stem |-> s, sep |-> "hyphen"]
L(k, v) == [key |-> k, value |-> v]
Image(n) == L("image", [name |-> n, alias |-> n, split |-> FALSE])
Aliased(n, a) == L("image", [name |-> n, alias |-> a, split |-> TRUE])
Blank == [key |-> "blank"]

\* Any few lines.
AnyLine ==
  { L("server", "A"), L("user", "U"), L("user", "V"), L("user", Improper), L("type", "VM"), L("type", "LPAR"),
    L("password", "pw"), L("encryption", "no"), Image(Hyphen("P")), Aliased(Plain("Q"), Hyphen("P")),
    [key |-> "cpcid"], [key |-> "unknown"], [key |-> "syntax"], Blank }

Upto(n, S) == UNION {[1..k -> S] : k \in 0..n}
ShortFiles == {<<L("server", "A"), L("type", "VM")>> \o f : f \in Upto(2, AnyLine)} \cup Upto(2, AnyLine)

\* Two sections at one address or two.
Kind ==
  { <<>>, <<L("type", "LPAR")>>, <<L("type", "LPAR"), L("user", "U")>>, <<L("type", "VM")>>,
    <<L("type", "VM"), L("user", "U")>>, <<L("user", "V"), L("type", "VM")>>, <<L("type", "other")>> }

ImageLines ==
  { <<>>, <<Image(Hyphen("P"))>>, <<Aliased(Plain("Q"), Hyphen("P"))>>,
    <<Aliased(Plain("Q"), Plain("R")), Image(Hyphen("P"))>> }

Sections(a) == {<<L("server", a)>> \o k \o i : k \in Kind, i \in ImageLines}
TwoSections ==
  {f \o g : f \in Sections("A"), g \in Sections("A") \cup Sections("B")}

\* Three servers of which the last two are alike: the comparison must not stop early.
ThreeServers ==
  { <<L("server", "A"), L("type", "VM"), L("user", "U"), L("server", a), L("type", t), L("user", u),
      L("server", "A"), L("type", t), L("user", u), Image(Plain("R"))>> :
      a \in {"A", "B"}, t \in {"VM", "LPAR"}, u \in {"U", "V"} }

O(c) == [opt |-> c, value |-> None, number |-> 0]
OV(c, v) == [opt |-> c, value |-> v, number |-> 0]
ON(c, n) == [opt |-> c, value |-> None, number |-> n]
CallOf(argv, names) == [argv |-> argv, names |-> names, readable |-> {"home"}, home |-> TRUE]

SearchCalls ==
  { CallOf(<<O("g"), OV("u", "U"), OV("p", "pw")>> \o where, names) :
      where \in {<<>>, <<OV("V", "A")>>, <<OV("L", "A"), O("e")>>}, names \in {<<Hyphen("P")>>, <<Hyphen("P"), Plain("R")>>} }
  \cup { CallOf(<<O("g"), OV("p", "pw")>> \o where, <<Plain("S"), Plain("R")>>) : where \in {<<>>, <<OV("V", "A")>>} }
  \cup { CallOf(<<O("x")>> \o where, <<>>) : where \in {<<OV("V", "A")>>, <<OV("L", "A"), OV("u", "V")>>} }

FileInput ==
  (SearchCalls \X TwoSections)
    \cup ({CallOf(<<O("g"), OV("V", "A"), OV("u", "U"), OV("p", "pw")>>, <<Hyphen("P")>>)} \X (ShortFiles \cup ThreeServers))

\* The options beside operation and server, with values on both sides of their limits.
OtherOptions ==
  {O("F"), O("C"), O("S"), O("e"), O("P")}
    \cup {ON("T", v) : v \in {59, 60, 600, 601}} \cup {ON("B", v) : v \in {0, 30, 31}}
    \cup {ON("m", v) : v \in {0, 1, NotANumber}} \cup {ON("X", v) : v \in {0, 1, 32768}} \cup {ON("t", v) : v \in {0, 1}}
    \cup {OV("A", v) : v \in {"1000", "subchannel set 4"}} \cup {OV("R", "r"), OV("N", "n"), OV("N", "too long")}
    \cup {OV(c, v) : c \in {"W", "I", "E"}, v \in {"short", "zeros"}} \cup {OV("O", "o"), OV("M", "m")}
    \cup {[opt |-> "z", value |-> "44444", number |-> 44444], OV("u", "V"), OV("p", "pw2"), OV("f", "file")}

LparFile == <<L("server", "A"), L("type", "LPAR"), L("user", "U"), L("password", "pw"), Image(Plain("R")), Image(Hyphen("P"))>>
BadFile == <<L("server", "A"), [key |-> "syntax"]>>
VmFile == <<L("server", "A"), L("type", "VM"), L("user", "U"), L("password", "pw"), L("port", "44444"), Image(Plain("R"))>>

\* Up to two of them, before and behind the operation.
OptionCalls(where) ==
  { CallOf(where \o x \o <<O(c)>> \o y, <<Plain("R")>>) :
      c \in DOMAIN Operation, x \in Upto(1, OtherOptions), y \in Upto(1, OtherOptions) }
  \cup { CallOf(where \o <<O(c)>> \o y, <<Hyphen("P"), Plain("R")>>) :
           c \in DOMAIN Operation, y \in Upto(1, OtherOptions) }

OddCalls ==
  { CallOf(<<O("a"), O(c)>>, n) : c \in DOMAIN Operation \cup {"h", "v", "?"}, n \in {<<>>, <<Plain("R")>>} }
  \cup { [argv |-> <<O("x"), OV("V", "A"), OV("f", "file")>>, names |-> n, readable |-> r, home |-> h] :
           n \in {<<>>, <<Plain("R")>>}, r \in SUBSET {"named", "home", "etc"}, h \in BOOLEAN }

OptionInput ==
  (OptionCalls(<<>>) \X {LparFile, VmFile}) \cup (OddCalls \X {LparFile, VmFile, BadFile})
    \cup (OptionCalls(<<OV("L", "A")>>) \X {LparFile}) \cup (OptionCalls(<<OV("V", "A")>>) \X {VmFile})

AllInput == FileInput \cup OptionInput

WideInput == {CallOf(<<O("l"), ON("T", v)>>, <<Plain("R")>>) : v \in {65536 + 60, 65535}} \X {LparFile}
=============================================================================
