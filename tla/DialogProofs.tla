---------------------------- MODULE DialogProofs ----------------------------
(***************************************************************************)
(* The dialog with an LPAR.  LineEditor implements TextLine, for every     *)
(* width of the line and every set of characters, if nobody presses Delete *)
(* behind the end of the line.  The child of LparDialog prints messages in *)
(* their order and none twice, for every number of LPARs, messages and     *)
(* sessions and every size of the event buffer.                            *)
(***************************************************************************)
EXTENDS LineEditor, LparDialog, FiniteSetTheorems, SequenceTheorems, TLAPS

NotBehindTheEnd == "delete_at_end" \notin Keys

\* The line as it is sent: the buffer with an end of string set behind the last column.
Closed == [command_string EXCEPT ![last] = Nul]

\* strlen finds the end of string that was set, never one left by an earlier line.
LEMMA LengthIsLast ==
  ASSUME LineTypeOK
  PROVE  Length(Closed) = last
<1> DEFINE P(n) == (n = Width + 1 \/ Closed[n] = Nul) /\ \A i \in 0..n - 1 : Closed[i] # Nul
<1>1. Width \in Nat /\ last \in 0..Width /\ command_string \in [0..Width -> Char \cup {Blank, Nul}]
  BY LineEditorAssumption DEF LineTypeOK
<1>2. Closed[last] = Nul /\ \A i \in 0..last - 1 : Closed[i] # Nul
  BY <1>1 DEF Closed, LineTypeOK
<1>3. P(last) /\ last \in 0..Width + 1
  BY <1>1, <1>2
<1>4. ASSUME NEW n \in 0..Width + 1, P(n) PROVE n = last
  <2>1. CASE n < last
    <3>1. n \in 0..last - 1 /\ n # Width + 1
      BY <1>1, <2>1
    <3> QED
      BY <1>2, <1>4, <3>1
  <2>2. CASE n > last
    <3>1. last \in 0..n - 1
      BY <1>1, <2>2
    <3> QED
      BY <1>2, <1>4, <3>1
  <2> QED
    BY <1>1, <2>1, <2>2
<1>5. Length(Closed) = CHOOSE n \in 0..Width + 1 : P(n)
  BY DEF Length
<1> HIDE DEF P
<1> QED
  BY <1>3, <1>4, <1>5

\* What is sent is what stands on the line.
LEMMA SentIsTape ==
  ASSUME LineTypeOK
  PROVE  Padded(Closed) = Tape /\ Tape \in [Column -> Char \cup {Blank}]
<1>1. Width \in Nat /\ last \in 0..Width /\ command_string \in [0..Width -> Char \cup {Blank, Nul}]
  BY LineEditorAssumption DEF LineTypeOK
<1>2. ASSUME NEW i \in Column PROVE (IF i < last THEN Closed[i] ELSE Blank) = (IF i < last THEN command_string[i] ELSE Blank)
  BY <1>1 DEF Closed, Column
<1>3. Padded(Closed) = Tape
  BY <1>2, LengthIsLast DEF Padded, Tape
<1>4. ASSUME NEW i \in Column, i < last PROVE command_string[i] \in Char \cup {Blank}
  <2>1. i \in 0..last - 1 /\ i \in 0..Width
    BY <1>1, <1>4 DEF Column
  <2> QED
    BY <1>1, <2>1 DEF LineTypeOK
<1> QED
  BY <1>3, <1>4 DEF Tape

\* The columns of the buffer that are in use, after one of them has gone.
LEMMA ShiftedIsWithout ==
  ASSUME LineTypeOK, NEW k \in 0..last - 1
  PROVE  /\ Shifted(k) \in [0..Width -> Char \cup {Blank, Nul}]
         /\ \A i \in 0..last - 1 : Shifted(k)[i] # Nul
         /\ [i \in Column |-> IF i < last THEN Shifted(k)[i] ELSE Blank] = Promise!Without(k)
<1>1. /\ Width \in Nat \ {0} /\ last \in 0..Width /\ k \in Nat /\ k < last
      /\ command_string \in [0..Width -> Char \cup {Blank, Nul}]
      /\ Nul # Blank
      /\ \A i \in 0..last - 1 : command_string[i] # Nul
  BY LineEditorAssumption DEF LineTypeOK
<1>2. ASSUME NEW j \in 0..Width
      PROVE  /\ Shifted(k)[j] \in Char \cup {Blank, Nul}
             /\ j < k => Shifted(k)[j] = command_string[j]
             /\ k <= j /\ j < last - 1 => Shifted(k)[j] = command_string[j + 1]
             /\ j = last - 1 => Shifted(k)[j] = Blank
  <2>1. j \in k..last - 2 => j + 1 \in 0..Width
    BY <1>1
  <2> QED
    BY <1>1, <2>1 DEF Shifted
<1>3. Shifted(k) \in [0..Width -> Char \cup {Blank, Nul}]
  BY <1>2 DEF Shifted
<1>4. ASSUME NEW i \in 0..last - 1 PROVE Shifted(k)[i] # Nul
  <2>1. i \in 0..Width /\ (i < k \/ (k <= i /\ i < last - 1) \/ i = last - 1)
    BY <1>1
  <2>2. k <= i /\ i < last - 1 => i + 1 \in 0..last - 1
    BY <1>1
  <2> QED
    BY <1>1, <1>2, <2>1, <2>2
<1>5. ASSUME NEW j \in Column
      PROVE  (IF j < last THEN Shifted(k)[j] ELSE Blank)
               = (IF j < k THEN Tape[j] ELSE IF j < Width - 1 THEN Tape[j + 1] ELSE Blank)
  <2>1. j \in 0..Width /\ j \in Nat /\ j < Width
    BY <1>1 DEF Column
  <2>2. \A i \in Column : Tape[i] = IF i < last THEN command_string[i] ELSE Blank
    BY DEF Tape
  <2>3. j < Width - 1 => j + 1 \in Column
    BY <1>1, <2>1 DEF Column
  <2>4. CASE j < k
    BY <1>1, <1>2, <2>1, <2>2, <2>4
  <2>5. CASE k <= j /\ j < last - 1
    <3>1. j < Width - 1 /\ j + 1 < last
      BY <1>1, <2>1, <2>5
    <3> QED
      BY <1>1, <1>2, <2>1, <2>2, <2>3, <2>5, <3>1
  <2>6. CASE j = last - 1
    <3>1. j < Width - 1 => Tape[j + 1] = Blank
      BY <1>1, <2>1, <2>2, <2>3, <2>6
    <3> QED
      BY <1>1, <1>2, <2>1, <2>6, <3>1
  <2>7. CASE last <= j
    <3>1. j < Width - 1 => Tape[j + 1] = Blank
      BY <1>1, <2>1, <2>2, <2>3, <2>7
    <3> QED
      BY <1>1, <2>1, <2>7, <3>1
  <2> QED
    BY <1>1, <2>1, <2>4, <2>5, <2>6, <2>7
<1>6. Promise!Without(k) = [j \in Column |-> IF j < k THEN Tape[j] ELSE IF j < Width - 1 THEN Tape[j + 1] ELSE Blank]
  BY DEF Promise!Without, Promise!Column, Column
<1>7. [i \in Column |-> IF i < last THEN Shifted(k)[i] ELSE Blank] = Promise!Without(k)
  BY <1>5, <1>6
<1> QED
  BY <1>3, <1>4, <1>7

(***************************************************************************)
(* Every key.                                                              *)
(***************************************************************************)
line == <<Tape, current, sent>>

LEMMA LineInitRefines ==
  ASSUME LineInit PROVE LineTypeOK /\ Promise!Init
<1>1. Width \in Nat \ {0} /\ MaxSent \in Nat
  BY LineEditorAssumption
<1>2. \A i \in 0..last - 1 : command_string[i] # Nul
  BY <1>1 DEF LineInit
<1>3. LineTypeOK
  BY <1>1, <1>2 DEF LineInit, LineTypeOK, Empty
<1>4. \A i \in Column : ~(i < last)
  BY <1>1 DEF LineInit, Column
<1>5. Tape = Empty
  BY <1>4 DEF Tape, Empty
<1>6. Promise!Empty = Empty
  BY DEF Promise!Empty, Empty, Promise!Column, Column
<1> QED
  BY <1>3, <1>5, <1>6 DEF LineInit, Promise!Init

LEMMA BelowLast ==
  ASSUME NEW m \in Nat, NEW w \in Nat, m <= w, NEW i \in 0..m - 1
  PROVE  i \in 0..w /\ i < m /\ i \in Nat
  OBVIOUS

LEMMA TypeStep ==
  ASSUME LineTypeOK, NEW c \in Char \cup {Blank}, Type(c)
  PROVE  LineTypeOK' /\ Promise!Put(c)
<1>1. /\ Width \in Nat \ {0} /\ last \in 0..Width /\ current \in 0..last /\ current < Width
      /\ command_string \in [0..Width -> Char \cup {Blank, Nul}]
      /\ c # Nul
      /\ \A i \in 0..last - 1 : command_string[i] # Nul
  BY LineEditorAssumption DEF LineTypeOK, Type
<1>2. /\ current \in Column /\ current \in 0..Width
      /\ last' \in 0..Width /\ last <= last' /\ current < last'
      /\ \A i \in Int : i < last' <=> i < last \/ i = current
      /\ current' = current + 1 /\ current' \in 0..last'
  BY <1>1 DEF Type, Column
<1>3. /\ command_string' = [command_string EXCEPT ![current] = c]
      /\ command_string' \in [0..Width -> Char \cup {Blank, Nul}]
      /\ \A i \in 0..Width : command_string'[i] = IF i = current THEN c ELSE command_string[i]
  BY <1>1, <1>2 DEF Type
<1>4. ASSUME NEW i \in 0..last' - 1 PROVE command_string'[i] # Nul
  <2>1. last' \in Nat /\ last' <= Width /\ Width \in Nat
    BY ONLY <1>1, <1>2
  <2>2. i \in 0..Width /\ i < last' /\ i \in Nat
    BY <2>1, BelowLast
  <2>3. i < last \/ i = current
    BY <1>2, <2>2
  <2>4. i = current \/ i \in 0..last - 1
    BY <1>1, <2>2, <2>3
  <2> QED
    BY <1>1, <1>3, <2>2, <2>4
<1>5. LineTypeOK'
  BY <1>2, <1>3, <1>4 DEF LineTypeOK, Type
<1>6. ASSUME NEW i \in Column
      PROVE  (IF i < last' THEN command_string'[i] ELSE Blank) = IF i = current THEN c ELSE Tape[i]
  <2>1. i \in 0..Width /\ i \in Int
    BY <1>1 DEF Column
  <2>2. Tape[i] = IF i < last THEN command_string[i] ELSE Blank
    BY DEF Tape
  <2> QED
    BY <1>2, <1>3, <2>1, <2>2
<1>7. Tape' = [i \in Column |-> IF i < last' THEN command_string'[i] ELSE Blank]
  BY DEF Tape, Column
<1>8. [Tape EXCEPT ![current] = c] = [i \in Column |-> IF i = current THEN c ELSE Tape[i]]
  BY DEF Tape
<1>9. Tape' = [Tape EXCEPT ![current] = c]
  BY <1>6, <1>7, <1>8
<1> QED
  BY <1>1, <1>2, <1>5, <1>9 DEF Promise!Put, Type

LEMMA RightStep ==
  ASSUME LineTypeOK, ArrowRight
  PROVE  LineTypeOK' /\ Promise!Right
<1>1. /\ Width \in Nat \ {0} /\ last \in 0..Width /\ current \in 0..last /\ current < Width
      /\ command_string \in [0..Width -> Char \cup {Blank, Nul}]
      /\ Blank # Nul
      /\ \A i \in 0..last - 1 : command_string[i] # Nul
  BY LineEditorAssumption DEF LineTypeOK, ArrowRight
<1>2. Tape' = [i \in Column |-> IF i < last' THEN command_string'[i] ELSE Blank]
  BY DEF Tape, Column
<1>3. CASE current # last
  <2>1. UNCHANGED <<command_string, last, sent, lines>> /\ current' \in 0..last'
    BY <1>1, <1>3 DEF ArrowRight
  <2>2. LineTypeOK'
    BY <2>1 DEF LineTypeOK
  <2>3. Tape' = Tape
    BY <2>1 DEF Tape
  <2> QED
    BY <1>1, <2>1, <2>2, <2>3 DEF ArrowRight, Promise!Right
<1>4. CASE current = last
  <2>1. /\ last' = last + 1 /\ current' = last + 1 /\ last' \in 0..Width /\ current' \in 0..last'
        /\ command_string' = [command_string EXCEPT ![last] = Blank]
    BY <1>1, <1>4 DEF ArrowRight
  <2>2. /\ command_string' \in [0..Width -> Char \cup {Blank, Nul}]
        /\ \A i \in 0..Width : command_string'[i] = IF i = last THEN Blank ELSE command_string[i]
    BY <1>1, <2>1
  <2>3. ASSUME NEW i \in 0..last' - 1 PROVE command_string'[i] # Nul
    <3>1. i \in 0..Width /\ (i = last \/ i \in 0..last - 1)
      BY <1>1, <2>1
    <3> QED
      BY <1>1, <2>2, <3>1
  <2>4. LineTypeOK'
    BY <2>1, <2>2, <2>3 DEF LineTypeOK, ArrowRight
  <2>5. ASSUME NEW i \in Column
        PROVE  (IF i < last' THEN command_string'[i] ELSE Blank) = IF i < last THEN command_string[i] ELSE Blank
    <3>1. i \in 0..Width
      BY <1>1 DEF Column
    <3>2. i < last' <=> i < last \/ i = last
      BY <1>1, <2>1, <3>1
    <3>3. i = last => ~(i < last)
      BY <1>1
    <3> QED
      BY <2>2, <3>1, <3>2, <3>3
  <2>6. Tape' = Tape
    BY <1>2, <2>5 DEF Tape
  <2> QED
    BY <1>1, <2>1, <2>4, <2>6 DEF ArrowRight, Promise!Right
<1> QED
  BY <1>3, <1>4

LEMMA LeftStep ==
  ASSUME LineTypeOK, ArrowLeft
  PROVE  LineTypeOK' /\ (Promise!Left \/ UNCHANGED line)
<1>1. last \in Nat /\ current \in 0..last /\ current' \in 0..last
  BY LineEditorAssumption DEF LineTypeOK, ArrowLeft
<1>2. LineTypeOK'
  BY <1>1 DEF LineTypeOK, ArrowLeft
<1>3. Tape' = Tape
  BY DEF Tape, ArrowLeft
<1> QED
  BY <1>1, <1>2, <1>3 DEF ArrowLeft, Promise!Left, line

\* A column goes: the rest of the line moves up.
LEMMA ColumnGoes ==
  ASSUME LineTypeOK, NEW k \in 0..last - 1, command_string' = Shifted(k),
         current' \in 0..last, UNCHANGED <<last, sent, lines>>
  PROVE  LineTypeOK' /\ Tape' = Promise!Without(k)
<1>1. LineTypeOK'
  BY ShiftedIsWithout DEF LineTypeOK
<1>2. Tape' = [i \in Column |-> IF i < last THEN Shifted(k)[i] ELSE Blank]
  BY DEF Tape, Column
<1> QED
  BY <1>1, <1>2, ShiftedIsWithout

LEMMA BackspaceStep ==
  ASSUME LineTypeOK, Backspace
  PROVE  LineTypeOK' /\ (Promise!Backspace \/ UNCHANGED line)
<1>1. last \in Nat /\ current \in 0..last
  BY LineEditorAssumption DEF LineTypeOK
<1>2. CASE current > 0
  <2>1. /\ current - 1 \in 0..last - 1 /\ current' = current - 1 /\ current' \in 0..last
        /\ command_string' = Shifted(current - 1) /\ UNCHANGED <<last, sent, lines>>
    BY <1>1, <1>2 DEF Backspace
  <2>2. LineTypeOK' /\ Tape' = Promise!Without(current - 1)
    BY <2>1, ColumnGoes
  <2> QED
    BY <1>2, <2>1, <2>2 DEF Promise!Backspace
<1>3. CASE ~(current > 0)
  <2>1. UNCHANGED lineVars
    BY <1>3 DEF Backspace, lineVars
  <2> QED
    BY <2>1 DEF lineVars, LineTypeOK, line, Tape
<1> QED
  BY <1>2, <1>3

LEMMA DeleteStep ==
  ASSUME NotBehindTheEnd, LineTypeOK, Delete
  PROVE  LineTypeOK' /\ Promise!Delete
<1>1. last \in Nat /\ current \in 0..last /\ current < last
  BY LineEditorAssumption DEF LineTypeOK, Delete, NotBehindTheEnd
<1>2. current \in 0..last - 1 /\ current' \in 0..last
  BY <1>1 DEF Delete
<1>3. LineTypeOK' /\ Tape' = Promise!Without(current)
  BY <1>2, ColumnGoes DEF Delete
<1> QED
  BY <1>3 DEF Delete, Promise!Delete

LEMMA EnterStep ==
  ASSUME LineTypeOK, Enter
  PROVE  LineTypeOK' /\ Promise!Enter
<1>1. Width \in Nat \ {0} /\ last \in 0..Width /\ MaxSent \in Nat
  BY LineEditorAssumption DEF LineTypeOK
<1>2. Send(Closed)
  BY DEF Enter, Closed
<1>3. sent' = IF last > 0 THEN Tape ELSE sent
  BY <1>2, LengthIsLast, SentIsTape DEF Send
<1>4. /\ command_string' = [Closed EXCEPT ![0] = Nul] /\ current' = 0 /\ last' = 0
      /\ lines' \in 0..MaxSent
  BY <1>1, <1>2 DEF Send, LineTypeOK
<1>5. command_string' \in [0..Width -> Char \cup {Blank, Nul}]
  BY <1>1, <1>4 DEF LineTypeOK, Closed
<1>6. LineTypeOK'
  <2>1. sent' \in [Column -> Char \cup {Blank}]
    BY <1>3, SentIsTape DEF LineTypeOK
  <2>2. \A i \in 0..last' - 1 : command_string'[i] # Nul
    BY <1>4
  <2> QED
    BY <1>1, <1>4, <1>5, <2>1, <2>2 DEF LineTypeOK, Column
<1>7. Promise!Empty = [i \in Column |-> Blank]
  BY DEF Promise!Empty, Promise!Column, Column
<1>8. Tape' = Promise!Empty
  <2>1. \A i \in Column : ~(i < last')
    BY <1>1, <1>4 DEF Column
  <2>2. Tape' = [i \in Column |-> IF i < last' THEN command_string'[i] ELSE Blank]
    BY DEF Tape, Column
  <2> QED
    BY <1>7, <2>1, <2>2
<1>9. last = 0 => Tape = Promise!Empty
  <2>1. last = 0 => \A i \in Column : ~(i < last)
    BY <1>1 DEF Column
  <2> QED
    BY <1>7, <2>1 DEF Tape
<1>10. sent' = Tape \/ (Tape = Promise!Empty /\ sent' = sent)
  BY <1>1, <1>3, <1>9
<1> QED
  BY <1>4, <1>6, <1>8, <1>10 DEF Promise!Enter

LEMMA NextRefines ==
  ASSUME NotBehindTheEnd, LineTypeOK, [LineNext]_lineVars
  PROVE  LineTypeOK' /\ [Promise!Next]_line
<1>1. CASE \E c \in Char \cup {Blank} : Type(c)
  BY <1>1, TypeStep DEF Promise!Next
<1>2. CASE ArrowRight
  BY <1>2, RightStep DEF Promise!Next
<1>3. CASE ArrowLeft
  BY <1>3, LeftStep DEF Promise!Next
<1>4. CASE Backspace
  BY <1>4, BackspaceStep DEF Promise!Next
<1>5. CASE Delete
  BY <1>5, DeleteStep DEF Promise!Next
<1>6. CASE Enter
  BY <1>6, EnterStep DEF Promise!Next
<1>7. CASE UNCHANGED lineVars
  BY <1>7 DEF lineVars, LineTypeOK, line, Tape
<1> QED
  BY <1>1, <1>2, <1>3, <1>4, <1>5, <1>6, <1>7 DEF LineNext

\* The cursor never leaves the line, and the line never holds an end of string, for every width
\* (snipl_image_dialog, handle_del, handle_esc).
THEOREM LineTypeCorrect ==
  ASSUME NotBehindTheEnd
  PROVE  LineSpec => []LineTypeOK
<1>1. LineInit => LineTypeOK
  BY LineInitRefines
<1>2. LineTypeOK /\ [LineNext]_lineVars => LineTypeOK'
  BY NextRefines
<1> QED
  BY <1>1, <1>2, PTL DEF LineSpec

\* Whatever is typed, in every order and on lines of every width, what is sent is what an endless
\* line of blanks would show.
THEOREM LineRefines ==
  ASSUME NotBehindTheEnd
  PROVE  LineSpec => ImplementsTextLine
<1>1. LineInit => LineTypeOK /\ Promise!Init
  BY LineInitRefines
<1>2. LineTypeOK /\ [LineNext]_lineVars => LineTypeOK' /\ [Promise!Next]_<<Tape, current, sent>>
  BY NextRefines DEF line
<1> QED
  BY <1>1, <1>2, PTL DEF LineSpec, ImplementsTextLine, Promise!Spec

(***************************************************************************)
(* Messages in the order they were written: sequences of them, put         *)
(* together and taken apart.                                               *)
(***************************************************************************)
OrderedIn(e, q) ==
  /\ \A i \in DOMAIN q : q[i].number \in DOMAIN e /\ q[i] = e[q[i].number]
  /\ \A i, j \in DOMAIN q : i < j => q[i].number < q[j].number

Before(p, q) == \A i \in DOMAIN p, j \in DOMAIN q : p[i].number < q[j].number

LEMMA OrderedInEmitted ==
  ASSUME NEW q PROVE InOrder(q) <=> OrderedIn(emitted, q)
BY DEF InOrder, OrderedIn

LEMMA MessageNumber ==
  ASSUME NEW q \in Seq(Message), NEW i \in DOMAIN q
  PROVE  q[i] \in Message /\ q[i].number \in Nat
<1>1. q[i] \in Message
  BY ElementOfSeq, LenProperties
<1> QED
  BY <1>1, LparDialogAssumption DEF Message

\* The places of p \o q are those of p, and behind them those of q.
LEMMA ConcatParts ==
  ASSUME NEW p \in Seq(Message), NEW q \in Seq(Message)
  PROVE  /\ Len(p) \in Nat /\ DOMAIN (p \o q) \subseteq Nat /\ DOMAIN p = 1..Len(p) /\ DOMAIN q \subseteq Nat \ {0}
         /\ \A i \in DOMAIN p : i \in DOMAIN (p \o q) /\ (p \o q)[i] = p[i]
         /\ \A i \in DOMAIN q : Len(p) + i \in DOMAIN (p \o q) /\ (p \o q)[Len(p) + i] = q[i]
         /\ \A i \in DOMAIN (p \o q) : i \in DOMAIN p \/ \E j \in DOMAIN q : i = Len(p) + j
<1> DEFINE c == p \o q
<1>1. /\ c \in Seq(Message) /\ Len(c) = Len(p) + Len(q) /\ Len(p) \in Nat /\ Len(q) \in Nat
      /\ DOMAIN c = 1..Len(c) /\ DOMAIN p = 1..Len(p) /\ DOMAIN q = 1..Len(q)
  BY ConcatProperties, LenProperties
<1>2. \A i \in DOMAIN p : i \in DOMAIN c /\ c[i] = p[i]
  BY <1>1, ConcatProperties
<1>3. ASSUME NEW i \in DOMAIN q PROVE Len(p) + i \in DOMAIN c /\ c[Len(p) + i] = q[i]
  <2>1. Len(p) + i \in 1..Len(p) + Len(q) /\ ~(Len(p) + i <= Len(p)) /\ Len(p) + i - Len(p) = i
    BY <1>1
  <2> QED
    BY <1>1, <2>1, ConcatProperties
<1>4. ASSUME NEW i \in DOMAIN c PROVE i \in DOMAIN p \/ \E j \in DOMAIN q : i = Len(p) + j
  <2>1. CASE i <= Len(p)
    BY <1>1, <2>1
  <2>2. CASE ~(i <= Len(p))
    <3>1. i - Len(p) \in DOMAIN q /\ i = Len(p) + (i - Len(p))
      BY <1>1, <2>2
    <3> QED
      BY <3>1
  <2> QED
    BY <2>1, <2>2
<1> HIDE DEF c
<1>5. DOMAIN c \subseteq Nat /\ DOMAIN q \subseteq Nat \ {0}
  BY <1>1
<1> QED
  BY <1>1, <1>2, <1>3, <1>4, <1>5 DEF c

\* p \o q is in order if both are and p comes first.
LEMMA ConcatOrdered ==
  ASSUME NEW e, NEW p \in Seq(Message), NEW q \in Seq(Message)
  PROVE  OrderedIn(e, p \o q) <=> OrderedIn(e, p) /\ OrderedIn(e, q) /\ Before(p, q)
<1> DEFINE c == p \o q
<1> HIDE DEF c
<1>1. Len(p) \in Nat /\ DOMAIN c \subseteq Nat /\ DOMAIN p = 1..Len(p) /\ DOMAIN q \subseteq Nat \ {0}
  BY ConcatParts DEF c
<1>2. \A i \in DOMAIN p : i \in DOMAIN c /\ c[i] = p[i]
  BY ConcatParts DEF c
<1>3. \A i \in DOMAIN q : Len(p) + i \in DOMAIN c /\ c[Len(p) + i] = q[i]
  BY ConcatParts DEF c
<1>4. \A i \in DOMAIN c : i \in DOMAIN p \/ \E j \in DOMAIN q : i = Len(p) + j
  BY ConcatParts DEF c
<1>5. ASSUME OrderedIn(e, c) PROVE OrderedIn(e, p) /\ OrderedIn(e, q) /\ Before(p, q)
  <2>1. OrderedIn(e, p)
    BY <1>2, <1>5 DEF OrderedIn
  <2>2. OrderedIn(e, q)
    <3>1. ASSUME NEW i \in DOMAIN q PROVE q[i].number \in DOMAIN e /\ q[i] = e[q[i].number]
      BY <1>3, <1>5 DEF OrderedIn
    <3>2. ASSUME NEW i \in DOMAIN q, NEW j \in DOMAIN q, i < j PROVE q[i].number < q[j].number
      <4>1. Len(p) + i < Len(p) + j
        BY <1>1, <3>2
      <4> QED
        BY <1>3, <1>5, <4>1 DEF OrderedIn
    <3> QED
      BY <3>1, <3>2 DEF OrderedIn
  <2>3. ASSUME NEW i \in DOMAIN p, NEW j \in DOMAIN q PROVE p[i].number < q[j].number
    <3>1. i < Len(p) + j
      BY <1>1
    <3>2. c[i] = p[i] /\ c[Len(p) + j] = q[j] /\ i \in DOMAIN c /\ Len(p) + j \in DOMAIN c
      BY <1>2, <1>3
    <3> QED
      BY <1>5, <3>1, <3>2 DEF OrderedIn
  <2> QED
    BY <2>1, <2>2, <2>3 DEF Before
<1>6. ASSUME OrderedIn(e, p), OrderedIn(e, q), Before(p, q) PROVE OrderedIn(e, c)
  <2>1. ASSUME NEW i \in DOMAIN c PROVE c[i].number \in DOMAIN e /\ c[i] = e[c[i].number]
    <3>1. CASE i \in DOMAIN p
      BY <1>2, <1>6, <3>1 DEF OrderedIn
    <3>2. CASE \E j \in DOMAIN q : i = Len(p) + j
      BY <1>3, <1>6, <3>2 DEF OrderedIn
    <3> QED
      BY <1>4, <3>1, <3>2
  <2>2. ASSUME NEW i \in DOMAIN c, NEW j \in DOMAIN c, i < j PROVE c[i].number < c[j].number
    <3>1. CASE i \in DOMAIN p /\ j \in DOMAIN p
      BY <1>2, <1>6, <2>2, <3>1 DEF OrderedIn
    <3>2. CASE i \in DOMAIN p /\ \E l \in DOMAIN q : j = Len(p) + l
      BY <1>2, <1>3, <1>6, <3>2 DEF Before
    <3>3. CASE \E k \in DOMAIN q : i = Len(p) + k
      <4>1. PICK k \in DOMAIN q : i = Len(p) + k
        BY <3>3
      <4>2. j \notin DOMAIN p
        BY <1>1, <2>2, <4>1
      <4>3. PICK l \in DOMAIN q : j = Len(p) + l
        BY <1>4, <4>2
      <4>4. k < l
        BY <1>1, <2>2, <4>1, <4>3
      <4>5. q[k].number < q[l].number
        BY <1>6, <4>4 DEF OrderedIn
      <4> QED
        BY <1>3, <4>1, <4>3, <4>5
    <3> QED
      BY <1>4, <3>1, <3>2, <3>3
  <2> QED
    BY <2>1, <2>2 DEF OrderedIn
<1> QED
  BY <1>5, <1>6 DEF c

LEMMA ConcatBefore ==
  ASSUME NEW p \in Seq(Message), NEW q \in Seq(Message), NEW r
  PROVE  Before(p \o q, r) <=> Before(p, r) /\ Before(q, r)
<1> DEFINE c == p \o q
<1> HIDE DEF c
<1>1. \A i \in DOMAIN p : i \in DOMAIN c /\ c[i] = p[i]
  BY ConcatParts DEF c
<1>2. \A i \in DOMAIN q : Len(p) + i \in DOMAIN c /\ c[Len(p) + i] = q[i]
  BY ConcatParts DEF c
<1>3. \A i \in DOMAIN c : i \in DOMAIN p \/ \E j \in DOMAIN q : i = Len(p) + j
  BY ConcatParts DEF c
<1>4. Before(c, r) => Before(p, r) /\ Before(q, r)
  BY <1>1, <1>2 DEF Before
<1>5. ASSUME Before(p, r), Before(q, r), NEW i \in DOMAIN c, NEW j \in DOMAIN r
      PROVE  c[i].number < r[j].number
  <2>1. CASE i \in DOMAIN p
    BY <1>1, <1>5, <2>1 DEF Before
  <2>2. CASE \E k \in DOMAIN q : i = Len(p) + k
    BY <1>2, <1>5, <2>2 DEF Before
  <2> QED
    BY <1>3, <2>1, <2>2
<1> QED
  BY <1>4, <1>5 DEF Before, c

LEMMA EmptyOrdered ==
  ASSUME NEW e, NEW p PROVE OrderedIn(e, <<>>) /\ Before(p, <<>>) /\ Before(<<>>, p)
BY DEF OrderedIn, Before

\* A message more keeps the order of those that were written before it.
LEMMA OneMoreOrdered ==
  ASSUME NEW e \in Seq(Message), NEW m \in Message, m.number = Len(e) + 1,
         NEW q \in Seq(Message), OrderedIn(e, q)
  PROVE  OrderedIn(Append(e, m), q) /\ OrderedIn(Append(e, m), Append(q, m))
<1>1. /\ Append(e, m) \in Seq(Message) /\ DOMAIN e = 1..Len(e) /\ Len(e) \in Nat
      /\ DOMAIN Append(e, m) = 1..Len(e) + 1
      /\ \A i \in DOMAIN e : Append(e, m)[i] = e[i]
      /\ Append(e, m)[Len(e) + 1] = m
  BY AppendProperties, LenProperties
<1>2. OrderedIn(Append(e, m), q)
  BY <1>1 DEF OrderedIn
<1>3. <<m>> \in Seq(Message) /\ DOMAIN <<m>> = {1} /\ <<m>>[1] = m
  OBVIOUS
<1>4. OrderedIn(Append(e, m), <<m>>)
  BY <1>1, <1>3 DEF OrderedIn
<1>5. ASSUME NEW i \in DOMAIN q PROVE q[i].number < m.number
  BY <1>1 DEF OrderedIn
<1>6. Before(q, <<m>>)
  BY <1>3, <1>5 DEF Before
<1>7. Append(q, m) = q \o <<m>>
  BY AppendIsConcat
<1> QED
  BY <1>2, <1>3, <1>4, <1>6, <1>7, ConcatOrdered

\* Taking messages from the head of a queue does not change what is in line.
LEMMA HeadMoves ==
  ASSUME NEW p \in Seq(Message), NEW q \in Seq(Message), q # <<>>
  PROVE  /\ Head(q) \in Message /\ Tail(q) \in Seq(Message) /\ Append(p, Head(q)) \in Seq(Message)
         /\ Append(p, Head(q)) \o Tail(q) = p \o q
<1>1. Head(q) \in Message /\ Tail(q) \in Seq(Message)
  BY HeadTailProperties
<1>2. <<Head(q)>> \in Seq(Message) /\ Append(p, Head(q)) = p \o <<Head(q)>>
  BY <1>1, AppendIsConcat
<1>3. <<Head(q)>> \o Tail(q) = q
  <2>1. /\ Len(q) \in Nat /\ Len(q) > 0 /\ Len(<<Head(q)>>) = 1 /\ Len(Tail(q)) = Len(q) - 1
        /\ \A i \in 1 .. Len(Tail(q)) : Tail(q)[i] = q[i + 1]
    BY <1>1, HeadTailProperties, EmptySeq, LenProperties
  <2>2. /\ <<Head(q)>> \o Tail(q) \in Seq(Message) /\ Len(<<Head(q)>> \o Tail(q)) = Len(q)
        /\ \A i \in 1..Len(q) : (<<Head(q)>> \o Tail(q))[i] = IF i <= 1 THEN <<Head(q)>>[i] ELSE Tail(q)[i - 1]
    BY <1>1, <1>2, <2>1, ConcatProperties
  <2>3. ASSUME NEW i \in 1..Len(q) PROVE (<<Head(q)>> \o Tail(q))[i] = q[i]
    <3>1. CASE i = 1
      BY <2>1, <2>2, <3>1
    <3>2. CASE i # 1
      <4>1. i - 1 \in 1..Len(Tail(q)) /\ ~(i <= 1) /\ i - 1 + 1 = i
        BY <2>1, <3>2
      <4> QED
        BY <2>1, <2>2, <4>1
    <3> QED
      BY <3>1, <3>2
  <2> QED
    BY <2>2, <2>3, SeqEqual
<1>4. (p \o <<Head(q)>>) \o Tail(q) = p \o (<<Head(q)>> \o Tail(q))
  BY <1>1, <1>2, ConcatAssociative
<1> QED
  BY <1>1, <1>2, <1>3, <1>4, AppendProperties

LEMMA SplitQueue ==
  ASSUME NEW q \in Seq(Message), NEW n \in Nat, n <= Len(q)
  PROVE  /\ SubSeq(q, 1, n) \in Seq(Message) /\ SubSeq(q, n + 1, Len(q)) \in Seq(Message)
         /\ SubSeq(q, 1, n) \o SubSeq(q, n + 1, Len(q)) = q
         /\ n # 0 => SubSeq(q, 1, n) # <<>>
<1>1. Len(q) \in Nat /\ \A i \in 1..Len(q) : q[i] \in Message
  BY ElementOfSeq, LenProperties
<1>2. /\ SubSeq(q, 1, n) \in Seq(Message) /\ Len(SubSeq(q, 1, n)) = n
      /\ \A i \in 1..n : SubSeq(q, 1, n)[i] = q[i]
  BY <1>1, SubSeqProperties
<1>3. /\ SubSeq(q, n + 1, Len(q)) \in Seq(Message) /\ Len(SubSeq(q, n + 1, Len(q))) = Len(q) - n
      /\ \A i \in 1..Len(q) - n : SubSeq(q, n + 1, Len(q))[i] = q[n + i]
  BY <1>1, SubSeqProperties
<1> DEFINE f == SubSeq(q, 1, n)
           b == SubSeq(q, n + 1, Len(q))
<1> HIDE DEF f, b
<1>4. /\ f \o b \in Seq(Message) /\ Len(f \o b) = n + (Len(q) - n)
      /\ \A i \in 1..n + (Len(q) - n) : (f \o b)[i] = IF i <= n THEN f[i] ELSE b[i - n]
  <2>1. f \in Seq(Message) /\ b \in Seq(Message) /\ Len(f) = n /\ Len(b) = Len(q) - n
    BY <1>2, <1>3 DEF f, b
  <2> QED
    BY <2>1, ConcatProperties
<1>5. Len(f \o b) = Len(q) /\ \A i \in 1..Len(q) : (f \o b)[i] = IF i <= n THEN f[i] ELSE b[i - n]
  <2>1. n + (Len(q) - n) = Len(q)
    BY <1>1
  <2> QED
    BY <1>4, <2>1
<1>6. ASSUME NEW i \in 1..Len(q) PROVE (f \o b)[i] = q[i]
  <2>1. CASE i <= n
    BY <1>1, <1>2, <1>5, <2>1 DEF f
  <2>2. CASE ~(i <= n)
    <3>1. i - n \in 1..Len(q) - n /\ n + (i - n) = i
      BY <1>1, <2>2
    <3> QED
      BY <1>3, <1>5, <2>2, <3>1 DEF b
  <2> QED
    BY <2>1, <2>2
<1>7. f \o b = q
  BY <1>4, <1>5, <1>6, SeqEqual
<1>8. n # 0 => f # <<>>
  BY <1>2, EmptySeq DEF f
<1> QED
  BY <1>2, <1>3, <1>7, <1>8 DEF f, b

(***************************************************************************)
(* The dialog: what is in line for the printer.                            *)
(***************************************************************************)
LEMMA DialogTypes ==
  ASSUME IInv
  PROVE  /\ parent \in {"fork", "reading", "sending", "hungup", "kill", "logout", "ended"}
         /\ ret \in BOOLEAN /\ answered \in BOOLEAN /\ commands \in 0..MaxCommand
         /\ child \in {"none", "waiting", "parsing", "opening", "gone", "killed"}
         /\ handle \in opened /\ handle \in Session /\ buffer \in Seq(Message) /\ shown \in Seq(Message)
         /\ pending \in [Session -> Seq(Message)] /\ pending[handle] \in Seq(Message)
         /\ connected \in BOOLEAN
         /\ opened \subseteq Session /\ terminated \subseteq opened /\ emitted \in Seq(Message)
         /\ shown \o buffer \in Seq(Message)
BY ConcatProperties DEF IInv, TypeOK

LEMMA LineAssociative ==
  ASSUME NEW p \in Seq(Message), NEW q \in Seq(Message), NEW r \in Seq(Message)
  PROVE  p \o q \o r = p \o (q \o r)
BY ConcatAssociative

\* What is in line, taken apart.
LEMMA InLine ==
  ASSUME NEW e, NEW p \in Seq(Message), NEW q \in Seq(Message), NEW r \in Seq(Message)
  PROVE  OrderedIn(e, p \o q \o r) <=>
           /\ OrderedIn(e, p) /\ OrderedIn(e, q) /\ OrderedIn(e, r)
           /\ Before(p, q) /\ Before(p, r) /\ Before(q, r)
<1>1. p \o q \in Seq(Message)
  BY ConcatProperties
<1>2. OrderedIn(e, p \o q \o r) <=> OrderedIn(e, p \o q) /\ OrderedIn(e, r) /\ Before(p \o q, r)
  BY <1>1, ConcatOrdered
<1>3. OrderedIn(e, p \o q) <=> OrderedIn(e, p) /\ OrderedIn(e, q) /\ Before(p, q)
  BY ConcatOrdered
<1>4. Before(p \o q, r) <=> Before(p, r) /\ Before(q, r)
  BY ConcatBefore
<1> QED
  BY <1>2, <1>3, <1>4

\* Where no message moves, the order stays.
LEMMA MessagesStay ==
  ASSUME IInv, UNCHANGED <<handle, buffer, shown, pending, emitted>>
  PROVE  ShownInOrder' /\ OnTheWay'
<1>1. emitted' = emitted /\ shown' = shown /\ (shown \o buffer \o pending[handle])' = shown \o buffer \o pending[handle]
  OBVIOUS
<1>2. ShownInOrder'
  BY <1>1 DEF IInv, ShownInOrder, InOrder, Ours
<1>3. OnTheWay'
  BY <1>1 DEF IInv, OnTheWay, InOrder
<1> QED
  BY <1>2, <1>3

LEMMA SessionsStay ==
  ASSUME IInv, UNCHANGED <<opened, pending, connected>>, child' = "opening" => ~connected
  PROVE  SessionsInOrder'
BY DEF IInv, SessionsInOrder

\* The sessions that were opened, and one more.
LEMMA OpenedSessions ==
  ASSUME IInv
  PROVE  /\ Cardinality(opened) \in Nat /\ opened = 1..Cardinality(opened) /\ 1 \in opened
         /\ opened \cup {Cardinality(opened) + 1} = 1..Cardinality(opened) + 1
         /\ Cardinality(1..Cardinality(opened) + 1) = Cardinality(opened) + 1
<1>1. IsFiniteSet(opened)
  <2>1. IsFiniteSet(1..MaxSession)
    BY FS_Interval, LparDialogAssumption
  <2>2. opened \subseteq 1..MaxSession
    BY DialogTypes DEF Session
  <2> QED
    BY <2>1, <2>2, FS_Subset
<1>2. Cardinality(opened) \in Nat /\ opened = 1..Cardinality(opened) /\ handle \in opened
  BY <1>1, FS_CardinalityType, DialogTypes DEF IInv, SessionsInOrder
<1> DEFINE n == Cardinality(opened)
<1> HIDE DEF n
<1>3. n \in Nat /\ opened = 1..n /\ handle \in 1..n
  BY <1>2 DEF n
<1>4. 1 \in opened /\ opened \cup {n + 1} = 1..n + 1
  BY <1>3
<1>5. Cardinality(1..n + 1) = n + 1
  <2>1. Cardinality(1..n + 1) = IF 1 > n + 1 THEN 0 ELSE n + 1 - 1 + 1
    BY <1>3, FS_Interval
  <2> QED
    BY <1>3, <2>1
<1> QED
  BY <1>3, <1>4, <1>5 DEF n

LEMMA DialogInit ==
  ASSUME Init PROVE IInv
<1>1. TypeOK
  BY LparDialogAssumption DEF Init, TypeOK, Session
<1>2. shown \o buffer \o pending[handle] = <<>> /\ DOMAIN emitted = {} /\ DOMAIN shown = {}
  BY LparDialogAssumption DEF Init, Session
<1>3. ShownInOrder /\ OnTheWay
  BY <1>2 DEF ShownInOrder, OnTheWay, InOrder, Init
<1>4. Cardinality({1}) = 1 /\ {1} = 1..1
  BY FS_Singleton
<1>5. SessionsInOrder
  BY <1>4 DEF Init, SessionsInOrder
<1> QED
  BY <1>1, <1>3, <1>5 DEF IInv

LEMMA ParentStep ==
  ASSUME IInv, Parent PROVE IInv'
<1>1. UNCHANGED <<handle, buffer, shown, pending, emitted, opened, connected>> /\ (child' = "opening" => child = "opening")
  BY DEF Parent, ForkFails, Fork, Command, CommandEnds, CtrlD, EndOfInput, Kill, Logout, poll, se
<1>2. child' = "opening" => ~connected
  BY <1>1 DEF IInv, SessionsInOrder
<1>3. ShownInOrder' /\ OnTheWay' /\ SessionsInOrder'
  BY <1>1, <1>2, MessagesStay, SessionsStay
<1>4. commands' \in 0..MaxCommand
  <2>1. commands' = commands \/ (commands < MaxCommand /\ commands' = commands + 1)
    BY DEF Parent, ForkFails, Fork, Command, CommandEnds, CtrlD, EndOfInput, Kill, Logout
  <2>2. commands \in 0..MaxCommand /\ MaxCommand \in Nat
    BY DialogTypes, LparDialogAssumption
  <2> QED
    BY <2>1, <2>2
<1>5. /\ parent' \in {"reading", "sending", "hungup", "kill", "logout", "ended"}
      /\ ret' \in BOOLEAN /\ answered' \in BOOLEAN
      /\ child' \in {child, "waiting", "killed"} /\ (child' = "parsing" => child = "parsing")
      /\ terminated' \in {terminated, terminated \cup {1}}
  BY DialogTypes DEF Parent, ForkFails, Fork, Command, CommandEnds, CtrlD, EndOfInput, Kill, Logout, poll, se
<1>6. 1 \in opened
  BY OpenedSessions
<1>7. TypeOK'
  BY <1>1, <1>4, <1>5, <1>6, DialogTypes DEF TypeOK, IInv, Session, Message
<1> QED
  BY <1>3, <1>7 DEF IInv

LEMMA WaitEventStep ==
  ASSUME IInv, WaitEvent PROVE IInv'
<1> DEFINE q == pending[handle]
<1>1. PICK n \in 1..Batch : /\ n <= Len(q) /\ buffer' = SubSeq(q, 1, n)
                            /\ pending' = [pending EXCEPT ![handle] = SubSeq(@, n + 1, Len(@))]
  BY DEF WaitEvent
<1>2. /\ child = "waiting" /\ child' = "parsing"
      /\ UNCHANGED <<user, handle, shown, connected, opened, terminated, emitted>>
  BY DEF WaitEvent
<1>3. n \in Nat /\ n # 0
  BY LparDialogAssumption
<1>4. /\ q \in Seq(Message) /\ handle \in Session /\ pending \in [Session -> Seq(Message)]
      /\ pending'[handle] = SubSeq(q, n + 1, Len(q))
      /\ \A s \in Session \ {handle} : pending'[s] = pending[s]
      /\ shown \in Seq(Message) /\ buffer \in Seq(Message)
  BY <1>1, DialogTypes
<1>5. /\ buffer' \in Seq(Message) /\ pending'[handle] \in Seq(Message) /\ buffer' # <<>>
      /\ buffer' \o pending'[handle] = q
  <2> HIDE DEF q
  <2> QED
    BY <1>1, <1>3, <1>4, SplitQueue
<1>6. OrderedIn(emitted, shown) /\ OrderedIn(emitted, q) /\ Before(shown, q)
  BY <1>4, InLine, OrderedInEmitted DEF IInv, OnTheWay
<1>7. shown \o buffer' \o pending'[handle] = shown \o q
  <2>1. (shown \o buffer') \o pending'[handle] = shown \o (buffer' \o pending'[handle])
    <3> HIDE DEF q
    <3>1. shown \in Seq(Message) /\ buffer' \in Seq(Message) /\ pending'[handle] \in Seq(Message)
      BY <1>4, <1>5
    <3> QED
      BY <3>1, LineAssociative
  <2> QED
    BY <1>5, <2>1
<1>8. OrderedIn(emitted, shown \o q)
  BY <1>4, <1>6, ConcatOrdered
<1>9. ShownInOrder' /\ OnTheWay'
  <2>1. emitted' = emitted /\ shown' = shown /\ (shown \o buffer \o pending[handle])' = shown \o q
    BY <1>2, <1>7
  <2>2. ShownInOrder'
    BY <2>1 DEF IInv, ShownInOrder, InOrder, Ours
  <2>3. InOrder(shown \o buffer \o pending[handle])'
    BY <1>8, <2>1 DEF InOrder, OrderedIn
  <2>4. (\A n_1 \in DOMAIN emitted : emitted[n_1].number = n_1)'
    BY <2>1 DEF IInv, OnTheWay
  <2> QED
    BY <2>2, <2>3, <2>4 DEF OnTheWay
<1>10. SessionsInOrder'
  BY <1>2, <1>4, DialogTypes DEF IInv, SessionsInOrder
<1>11. pending' \in [Session -> Seq(Message)]
  BY <1>1, <1>4, <1>5
<1>12. TypeOK'
  BY <1>2, <1>5, <1>11, DialogTypes DEF IInv, TypeOK, user, Session, Message
<1> QED
  BY <1>9, <1>10, <1>12 DEF IInv

LEMMA ParseStep ==
  ASSUME IInv, Parse PROVE IInv'
<1>1. /\ child = "parsing" /\ buffer # <<>> /\ child' = IF buffer' = <<>> THEN "waiting" ELSE "parsing"
      /\ UNCHANGED <<user, handle, se>>
  BY DEF Parse, IInv, TypeOK
<1>2. /\ shown \in Seq(Message) /\ buffer \in Seq(Message) /\ pending[handle] \in Seq(Message)
  BY DialogTypes
<1>3. InOrder(shown \o buffer \o pending[handle])
  BY DEF IInv, OnTheWay
<1>4. /\ shown' \in Seq(Message) /\ buffer' \in Seq(Message)
      /\ InOrder(shown' \o buffer' \o pending[handle])
      /\ \A i \in DOMAIN shown' : Ours(shown'[i])
  <2>1. CASE Head(buffer).lpar = Own
    <3>1. shown' = Append(shown, Head(buffer)) /\ buffer' = Tail(buffer)
      BY <2>1 DEF Parse
    <3>2. shown' \o buffer' = shown \o buffer /\ shown' \in Seq(Message) /\ buffer' \in Seq(Message)
      BY <1>1, <1>2, <3>1, HeadMoves
    <3>3. DOMAIN shown = 1..Len(shown) /\ Len(shown) \in Nat /\ Head(buffer) \in Message
      BY <1>1, <1>2, LenProperties, HeadMoves
    <3>4. ASSUME NEW i \in DOMAIN shown' PROVE Ours(shown'[i])
      <4>1. (i \in DOMAIN shown /\ shown'[i] = shown[i]) \/ shown'[i] = Head(buffer)
        BY <1>2, <3>1, <3>3, AppendProperties
      <4> QED
        BY <2>1, <4>1 DEF IInv, ShownInOrder, Ours
    <3> QED
      BY <1>3, <3>2, <3>4
  <2>2. CASE Head(buffer).lpar # Own
    <3>1. shown' = shown /\ buffer' = <<>>
      BY <2>2 DEF Parse
    <3>2. <<>> \in Seq(Message)
      BY EmptySeq
    <3>3. OrderedIn(emitted, shown \o <<>> \o pending[handle])
      BY <1>2, <1>3, <3>2, InLine, EmptyOrdered, OrderedInEmitted
    <3> QED
      BY <1>2, <3>1, <3>2, <3>3, OrderedInEmitted DEF IInv, ShownInOrder
  <2> QED
    BY <2>1, <2>2
<1>5. OrderedIn(emitted, shown')
  BY <1>2, <1>4, InLine, OrderedInEmitted
<1>6. emitted' = emitted /\ (shown \o buffer \o pending[handle])' = shown' \o buffer' \o pending[handle]
  BY <1>1 DEF se
<1>7. ShownInOrder'
  BY <1>4, <1>5, <1>6 DEF ShownInOrder, InOrder, OrderedIn, Ours
<1>8. InOrder(shown \o buffer \o pending[handle])'
  BY <1>4, <1>6 DEF InOrder
<1>9. OnTheWay'
  BY <1>6, <1>8 DEF IInv, OnTheWay
<1>10. SessionsInOrder'
  BY <1>1 DEF IInv, SessionsInOrder, se
<1>11. TypeOK'
  BY <1>1, <1>4, DialogTypes DEF IInv, TypeOK, user, se, Session, Message
<1> QED
  BY <1>7, <1>9, <1>10, <1>11 DEF IInv

LEMMA InitializeStep ==
  ASSUME IInv, Initialize PROVE IInv'
<1>1. child = "opening" /\ ~connected /\ child' \in {"waiting", "gone"} /\ parent # "fork"
  BY DEF Initialize, IInv, TypeOK, SessionsInOrder
<1>2. UNCHANGED <<user, buffer, shown, pending, terminated, emitted>>
  BY DEF Initialize
<1>3. CASE child' = "gone"
  <2>1. UNCHANGED <<connected, handle, opened>>
    BY <1>3 DEF Initialize
  <2>2. ShownInOrder' /\ OnTheWay' /\ SessionsInOrder'
    BY <1>2, <1>3, <2>1, MessagesStay, SessionsStay
  <2>3. TypeOK'
    BY <1>1, <1>2, <1>3, <2>1, DialogTypes DEF TypeOK, user
  <2> QED
    BY <2>2, <2>3 DEF IInv
<1>4. CASE child' = "waiting"
  <2> DEFINE n == Cardinality(opened)
  <2>1. connected' = TRUE /\ handle' = n + 1 /\ opened' = opened \cup {n + 1}
    BY <1>4 DEF Initialize
  <2>2. n \in Nat /\ n < MaxSession /\ opened = 1..n /\ opened' = 1..n + 1 /\ Cardinality(opened') = n + 1
    BY <1>1, <2>1, OpenedSessions DEF IInv, SessionsInOrder
  <2> HIDE DEF n
  <2>3. handle' \in Session \ opened /\ handle' \in opened' /\ opened' \subseteq Session /\ opened \subseteq opened'
    BY <2>1, <2>2, LparDialogAssumption DEF Session
  <2>4. pending[handle'] = <<>> /\ \A s \in Session \ opened' : pending[s] = <<>>
    BY <2>3 DEF IInv, SessionsInOrder
  <2>5. /\ shown \in Seq(Message) /\ buffer \in Seq(Message) /\ pending[handle] \in Seq(Message)
        /\ <<>> \in Seq(Message)
    BY DialogTypes, EmptySeq
  <2>6. OrderedIn(emitted, shown \o buffer \o <<>>)
    BY <2>5, InLine, EmptyOrdered, OrderedInEmitted DEF IInv, OnTheWay
  <2>7. emitted' = emitted /\ shown' = shown /\ (shown \o buffer \o pending[handle])' = shown \o buffer \o <<>>
    BY <1>2, <2>4
  <2>8. ShownInOrder'
    BY <2>7 DEF IInv, ShownInOrder, InOrder, Ours
  <2>9. InOrder(shown \o buffer \o pending[handle])'
    BY <2>6, <2>7 DEF InOrder, OrderedIn
  <2>10. OnTheWay'
    BY <2>7, <2>9 DEF IInv, OnTheWay
  <2>11. SessionsInOrder'
    BY <1>2, <1>4, <2>1, <2>2, <2>4 DEF SessionsInOrder
  <2>12. TypeOK'
    BY <1>1, <1>2, <1>4, <2>1, <2>3, DialogTypes DEF TypeOK, user
  <2> QED
    BY <2>8, <2>10, <2>11, <2>12 DEF IInv
<1> QED
  BY <1>1, <1>3, <1>4

LEMMA ChildStep ==
  ASSUME IInv, PollFails \/ Terminate PROVE IInv'
<1>1. UNCHANGED <<user, handle, buffer, shown, pending, connected, opened, emitted>>
  BY DEF PollFails, Terminate, se
<1>2. child' \in {"opening", "gone"} /\ (child' = "opening" => ~connected) /\ terminated' \in {terminated, terminated \cup {handle}}
  BY DEF PollFails, Terminate, se
<1>3. ShownInOrder' /\ OnTheWay' /\ SessionsInOrder'
  BY <1>1, <1>2, MessagesStay, SessionsStay
<1>4. parent # "fork"
  BY DEF IInv, TypeOK, PollFails, Terminate
<1>5. TypeOK'
  BY <1>1, <1>2, <1>4, DialogTypes DEF TypeOK, IInv, user, Session, Message
<1> QED
  BY <1>3, <1>5 DEF IInv

LEMMA EmitStep ==
  ASSUME IInv, NEW l \in Lpar, Emit(l) PROVE IInv'
<1> DEFINE new == [lpar |-> l, number |-> Len(emitted) + 1]
<1>1. /\ Len(emitted) < MaxMessage /\ emitted' = Append(emitted, new)
      /\ pending' = [s \in Session |->
           IF s \in opened \ terminated THEN Append(pending[s], new) ELSE pending[s]]
      /\ UNCHANGED <<user, poll, connected, opened, terminated>>
  BY DEF Emit
<1>2. /\ shown \in Seq(Message) /\ buffer \in Seq(Message) /\ shown \o buffer \in Seq(Message)
      /\ pending \in [Session -> Seq(Message)] /\ pending[handle] \in Seq(Message)
      /\ emitted \in Seq(Message) /\ handle \in Session /\ opened \subseteq Session
  BY DialogTypes
<1>3. new \in Message /\ new.number = Len(emitted) + 1 /\ Len(emitted) \in Nat
  <2>1. Len(emitted) \in Nat
    BY <1>2, LenProperties
  <2>2. Len(emitted) + 1 \in 1..MaxMessage
    BY <1>1, <2>1, LparDialogAssumption
  <2> QED
    BY <2>1, <2>2 DEF Message
<1> HIDE DEF new
<1> DEFINE q == shown \o buffer \o pending[handle]
<1>4. q \in Seq(Message) /\ OrderedIn(emitted, q)
  BY <1>2, ConcatProperties, OrderedInEmitted DEF IInv, OnTheWay
<1>5. OrderedIn(emitted', q) /\ OrderedIn(emitted', Append(q, new))
  <2> HIDE DEF q
  <2> QED
    BY <1>1, <1>2, <1>3, <1>4, OneMoreOrdered
<1>6. q' \in {q, Append(q, new)}
  <2>1. UNCHANGED <<shown, buffer, handle>>
    BY <1>1 DEF poll
  <2>2. pending'[handle] \in {pending[handle], Append(pending[handle], new)}
    BY <1>1, <1>2
  <2>3. shown \o buffer \o Append(pending[handle], new) = Append(q, new)
    <3>1. <<new>> \in Seq(Message) /\ Append(pending[handle], new) = pending[handle] \o <<new>>
      BY <1>2, <1>3, AppendIsConcat
    <3>2. (shown \o buffer) \o (pending[handle] \o <<new>>) = ((shown \o buffer) \o pending[handle]) \o <<new>>
      BY <1>2, <3>1, ConcatAssociative
    <3>3. Append(q, new) = q \o <<new>>
      <4> HIDE DEF q
      <4> QED
        BY <1>3, <1>4, AppendIsConcat
    <3> QED
      BY <3>1, <3>2, <3>3
  <2> QED
    BY <2>1, <2>2, <2>3
<1>7. OrderedIn(emitted', q')
  BY <1>5, <1>6
<1>8. InOrder(shown \o buffer \o pending[handle])'
  BY <1>7 DEF InOrder, OrderedIn
<1>9. OrderedIn(emitted', shown)
  BY <1>1, <1>2, <1>3, OneMoreOrdered, OrderedInEmitted DEF IInv, ShownInOrder
<1>10. ShownInOrder'
  BY <1>1, <1>9 DEF IInv, ShownInOrder, InOrder, OrderedIn, Ours, poll
<1>11. emitted' \in Seq(Message) /\ (\A n \in DOMAIN emitted : emitted[n].number = n)'
  <2>1. /\ emitted' \in Seq(Message) /\ DOMAIN emitted' = 1..Len(emitted) + 1 /\ DOMAIN emitted = 1..Len(emitted)
        /\ emitted'[Len(emitted) + 1] = new /\ \A n \in 1..Len(emitted) : emitted'[n] = emitted[n]
    BY <1>1, <1>2, <1>3, AppendProperties, LenProperties
  <2>2. ASSUME NEW n \in DOMAIN emitted' PROVE emitted'[n].number = n
    <3>1. n \in DOMAIN emitted \/ n = Len(emitted) + 1
      BY <1>3, <2>1
    <3> QED
      BY <1>3, <2>1, <3>1 DEF IInv, OnTheWay
  <2> QED
    BY <2>1, <2>2
<1>12. pending' \in [Session -> Seq(Message)]
  <2>1. ASSUME NEW s \in Session PROVE Append(pending[s], new) \in Seq(Message) /\ pending[s] \in Seq(Message)
    BY <1>2, <1>3, AppendProperties
  <2> QED
    BY <1>1, <2>1
<1>13. SessionsInOrder'
  BY <1>1 DEF IInv, SessionsInOrder, poll
<1>14. TypeOK'
  BY <1>1, <1>11, <1>12, DialogTypes DEF TypeOK, IInv, user, poll, Session, Message
<1> QED
  BY <1>8, <1>10, <1>11, <1>13, <1>14 DEF IInv, OnTheWay

LEMMA NetworkStep ==
  ASSUME IInv, Answer \/ Break PROVE IInv'
<1>1. UNCHANGED <<poll, pending, opened, terminated, emitted, parent, ret, commands>>
  BY DEF Answer, Break, user, se
<1>2. answered' \in BOOLEAN /\ connected' \in BOOLEAN
  BY DialogTypes DEF Answer, Break, se, user
<1>3. (connected' => connected) /\ (~connected' => Cardinality(opened) < MaxSession)
  BY DEF Answer, Break, se, IInv, SessionsInOrder
<1>4. ShownInOrder' /\ OnTheWay'
  BY <1>1, MessagesStay DEF poll
<1>5. SessionsInOrder'
  BY <1>1, <1>3 DEF IInv, SessionsInOrder, poll
<1>6. TypeOK'
  BY <1>1, <1>2, DialogTypes DEF TypeOK, IInv, poll, Session, Message
<1> QED
  BY <1>4, <1>5, <1>6 DEF IInv

LEMMA DialogStay ==
  ASSUME IInv, UNCHANGED vars PROVE IInv'
<1>1. ShownInOrder' /\ OnTheWay' /\ SessionsInOrder'
  BY MessagesStay DEF vars, poll, se, IInv, SessionsInOrder
<1>2. TypeOK'
  BY DialogTypes DEF TypeOK, IInv, vars, user, poll, se, Session, Message
<1> QED
  BY <1>1, <1>2 DEF IInv

LEMMA DialogNext ==
  ASSUME IInv, [Next]_vars PROVE IInv'
BY ParentStep, WaitEventStep, ParseStep, InitializeStep, ChildStep, EmitStep, NetworkStep, DialogStay
   DEF Next, Child, Done

\* However many sessions, LPARs and messages there are, and however many messages the SE puts into
\* one event buffer, the dialog prints each message of its LPAR once and in order, over broken
\* connections and whatever the parent does meanwhile (poll_opsys_messages, snipl_image_dialog).
THEOREM DialogOrder == Spec => []IInv
<1>1. Init => IInv
  BY DialogInit
<1>2. IInv /\ [Next]_vars => IInv'
  BY DialogNext
<1> QED
  BY <1>1, <1>2, PTL DEF Spec
=============================================================================
