----------------------------- MODULE MCTcrData -----------------------------
(***************************************************************************)
(* Documents for TcrData: records with fields missing, doubled, in another *)
(* order or with other texts; one of them damaged at every place; every    *)
(* short sequence of characters, and every sequence of a few tags.         *)
(***************************************************************************)
EXTENDS TcrData, SequencesExt

LeafOf(name, text) == [name |-> name, text |-> text, elements |-> <<>>]
Node1(name, elements) == [name |-> name, text |-> <<>>, elements |-> elements]

Concat(seqs) == FoldLeft(LAMBDA a, b : a \o b, <<>>, seqs)
Open(name) == <<"<", name, ">">>
Shut(name) == <<"<", "/", name, ">">>
PrintLeafOf(e) == Open(e.name) \o e.text \o Shut(e.name)
PrintElement(e) == Open(e.name) \o e.text \o Concat([k \in DOMAIN e.elements |-> PrintLeafOf(e.elements[k])]) \o Shut(e.name)
PrintRecord(E, space) ==
  Open("report") \o space \o Open("record") \o space \o Concat([k \in DOMAIN E |-> PrintElement(E[k]) \o space])
    \o Shut("record") \o space \o Shut("report") \o space

Whole(E, space) == [doc |-> PrintRecord(E, space), record |-> E]
Damaged(d) == [doc |-> d, record |-> NoRecord]

Processor(t) ==
  Node1("processorinfo", << LeafOf("type", <<t>>), LeafOf("procstep", <<"1">>), LeafOf("max", <<"2">>),
                            LeafOf("remainingprocdays", <<"-1">>), LeafOf("remainingmsudays", <<"0">>) >>)

Target(model, cost) ==
  Node1("target", << LeafOf("procstep", <<"-1">>), LeafOf("speedstep", <<"0">>), LeafOf("softwaremodel", <<model>>),
                     LeafOf("billablemsucost", <<cost>>), LeafOf("billablemsudelta", <<"2">>) >>)

RecordOf(status, real, test, days, more) ==
  << LeafOf("recordid", <<"CR1">>), LeafOf("recordtype", <<"CBU">>), LeafOf("status", <<status>>),
     LeafOf("remainingrealactivations", <<real>>), LeafOf("remainingtestactivations", <<test>>),
     LeafOf("recordexpiration", <<"a time stamp">>), LeafOf("activationstart", <<"another">>),
     LeafOf("remainingrealdays", <<days>>), LeafOf("remainingtestdays", <<"1">>) >> \o more

Base == RecordOf("Real", "0", "0", "2", <<Processor("icf"), Target("600", "1")>>)

States ==
  { RecordOf(s, r, t, d, <<>>) :
      s \in {"Real", "Test", "none", "Expired"}, r \in {"0", "1"}, t \in {"0", "1"}, d \in {"-1", "2", "30000"} }

Texts == {<<>>, <<"x", " ", "1">>, <<"1", "x">>, NoDate, <<"-1">>}

\* One element without, doubled, or with another text, of the record or of an element of it.
Dropped(E) == {RemoveAt(E, k) : k \in DOMAIN E}
Doubled(E) == {E \o <<[E[k] EXCEPT !.text = t]>> : k \in DOMAIN E, t \in {<<"1">>, <<"x">>}}
Retold(E) == {[E EXCEPT ![k].text = t] : k \in DOMAIN E, t \in Texts}
Changed(E) == Dropped(E) \cup Doubled(E) \cup Retold(E)

Inner(E, k) == {[E EXCEPT ![k].elements = e] : e \in Changed(E[k].elements)}

\* A field of the record inside an element of it, before and behind its own.
Foreign ==
  { [Base EXCEPT ![k].elements = <<LeafOf(n, <<"x">>)>> \o @] : k \in {10, 11}, n \in {"recordid", "procstep", "target"} }

Records ==
  States \cup Changed(Base) \cup Inner(Base, 10) \cup Inner(Base, 11) \cup Foreign
    \cup { RecordOf("none", "1", "1", "2", m) :
             m \in { <<>>, <<Processor("icf"), Processor("ifl"), Target("600", "1"), Target("700", "2")>>,
                     <<Target("700", "2"), Processor("ifl"), Target("600", "1"), Processor("icf")>> } }
    \cup { Reverse(Base), <<>> }

\* One character lost, one too many, or the end of the transmission.
Edited(d) ==
  {RemoveAt(d, k) : k \in DOMAIN d} \cup {SubSeq(d, 1, k) : k \in DOMAIN d}
    \cup {InsertAt(d, k, c) : k \in DOMAIN d, c \in {"<", ">", "/", Blank, "x"}}

Small == RecordOf("none", "1", "1", "2", <<Target("600", "1")>>)

Character == {"<", ">", "/", Blank, "x"}
Tag == {Open("x"), Open("y"), Shut("x"), Shut("y"), <<"x">>}

AllSent ==
  {Whole(E, <<>>) : E \in Records} \cup {Whole(Base, <<Blank>>)}
    \cup {Damaged(d) : d \in Edited(PrintRecord(Small, <<>>))}
    \cup {Damaged([PrintRecord(Base, <<>>) EXCEPT ![2] = "x", ![Len(PrintRecord(Base, <<>>)) - 1] = "x"])}
    \cup {Damaged(d) : d \in UNION {[1 .. n -> Character] : n \in 0 .. 6}}
    \cup {Damaged(Concat(t)) : t \in UNION {[1 .. n -> Tag] : n \in 0 .. 5}}

\* The documents of the records are written from them.
HomesOf(E) == FoldLeft(LAMBDA h, e : Append(h, h[Len(h)] + Len(e.elements) + 1), <<3>>, E)

ListOf(E) ==
  LET h == HomesOf(E)
      end == h[Len(E) + 1] - 1
  IN  <<Entry(LeafOf("report", <<>>), 0, end), Entry(LeafOf("record", <<>>), 1, end)>>
        \o Concat([k \in DOMAIN E |->
             <<Entry(E[k], 2, h[k + 1] - 1)>>
               \o [j \in DOMAIN E[k].elements |-> Entry(E[k].elements[j], h[k], h[k] + j)]])

Tags(d, end) == Ascending({i \in DOMAIN d : d[i] = "<" /\ (d[i + 1] = "/") = end}, Len(d))

\* Entry n is closed behind those in it and those that end before it.
ClosesOf(N, d) ==
  LET t == Tags(d, TRUE)
      Before(n) == N[n].last - n + Cardinality({m \in 1 .. n - 1 : N[m].last < n})
  IN  FoldLeft(LAMBDA c, e : Append(c, t[Before(Len(c) + 1) + 1]), <<>>, N)

ASSUME WrittenAssumption ==
  \A s \in AllSent : s.record # NoRecord =>
    /\ PlainRecord(s.record)
    /\ Homes(s.record, HomesOf(s.record)) /\ Listed(s.record, HomesOf(s.record), ListOf(s.record))
    /\ Placed(s.doc, ListOf(s.record), Tags(s.doc, FALSE), ClosesOf(ListOf(s.record), s.doc))
=============================================================================
