--------------------------- MODULE TcrDataProofs ---------------------------
(***************************************************************************)
(* Proofs about DsmParser, for every document and every depth of the       *)
(* stack, and about TcrData, for every document that was written from a    *)
(* record.                                                                 *)
(***************************************************************************)
EXTENDS TcrData, SequenceTheorems, WellFoundedInduction, TLAPS

\* Behind the outermost node no tag is read any more; this is what keeps a second node without a
\* parent out.
NoTagBehindRoot ==
  stack = <<>> /\ nodes # <<>> => state \in {"TAG_END", "VALUE", "ERROR", "CRASH"}

ParserInv == ParserTypeOK /\ StackIsPath /\ NoTagBehindRoot

\* The innermost open node is a node, and not the outermost one unless it is alone.
LEMMA TopIsNode ==
  ASSUME ParserTypeOK, stack # <<>>
  PROVE  Top \in 1 .. Len(nodes) /\ Len(stack) \in Nat \ {0} /\ Len(nodes) \in Nat \ {0}
<1>1. stack \in Seq(1 .. Len(nodes)) /\ nodes \in Seq(Node)
  BY DEF ParserTypeOK
<1>2. Len(stack) \in Nat \ {0} /\ Len(nodes) \in Nat
  BY <1>1
<1>3. stack[Len(stack)] \in 1 .. Len(nodes)
  BY <1>1, <1>2
<1> QED
  BY <1>2, <1>3 DEF Top

\* The position moves within the document.
LEMMA GoesMoves ==
  ASSUME ParserTypeOK, Reading, NEW s \in State, NEW r \in {"OK", "SYNTAX_ERROR", "BUFFER_OVERFLOW"}, Goes(s, r)
  PROVE  doc' = doc /\ pos' \in 1 .. Len(doc') + 1 /\ state' = s
         /\ ret' \in {"OK", "SYNTAX_ERROR", "BUFFER_OVERFLOW"}
<1>1. doc \in Seq(STRING) /\ pos \in 1 .. Len(doc) + 1 /\ pos <= Len(doc)
  BY DEF ParserTypeOK, Reading
<1>2. Len(doc) \in Nat
  BY <1>1
<1> QED
  BY <1>1, <1>2 DEF Goes

\* A character that leaves the nodes, the stack and the root alone.
LEMMA QuietStep ==
  ASSUME ParserInv, Reading, UNCHANGED <<nodes, stack, root>>,
         NEW s \in State, NEW r \in {"OK", "SYNTAX_ERROR", "BUFFER_OVERFLOW"}, Goes(s, r),
         buffer' \in Seq(STRING), buffer' # <<>> => Len(buffer') < Len(doc),
         stack = <<>> /\ nodes # <<>> => s \in {"TAG_END", "VALUE", "ERROR", "CRASH"}
  PROVE  ParserInv'
<1>1. doc' = doc /\ pos' \in 1 .. Len(doc') + 1 /\ state' = s
      /\ ret' \in {"OK", "SYNTAX_ERROR", "BUFFER_OVERFLOW"}
  BY GoesMoves DEF ParserInv
<1>2. ParserTypeOK'
  BY <1>1 DEF ParserInv, ParserTypeOK
<1>3. StackIsPath'
  BY DEF ParserInv, StackIsPath
<1>4. NoTagBehindRoot'
  BY <1>1 DEF NoTagBehindRoot
<1> QED
  BY <1>2, <1>3, <1>4 DEF ParserInv

\* What is read is a character of the document.
LEMMA InputIsString ==
  ASSUME ParserTypeOK, Reading
  PROVE  Input \in STRING /\ Len(doc) \in Nat /\ Len(buffer) \in Nat
<1>1. doc \in Seq(STRING) /\ pos \in 1 .. Len(doc) + 1 /\ pos <= Len(doc) /\ buffer \in Seq(STRING)
  BY DEF ParserTypeOK, Reading
<1> QED
  BY <1>1 DEF Input

\* A character that goes into the buffer keeps the invariant,
LEMMA PutKeeps ==
  ASSUME ParserInv, Reading, NEW s \in State, Put(s),
         stack = <<>> /\ nodes # <<>> => s \in {"TAG_END", "VALUE", "ERROR", "CRASH"}
  PROVE  ParserInv'
<1>0. ParserTypeOK /\ buffer \in Seq(STRING) /\ doc \in Seq(STRING) /\ (buffer # <<>> => Len(buffer) < Len(doc))
  BY DEF ParserInv, ParserTypeOK
<1>1. Input \in STRING /\ Len(doc) \in Nat /\ Len(buffer) \in Nat
  BY <1>0, InputIsString
<1>2. CASE Len(buffer) + 1 < Len(doc)
  <2>1. buffer' = Append(buffer, Input) /\ Goes(s, "OK") /\ UNCHANGED <<nodes, stack, root>>
    BY <1>2 DEF Put
  <2>2. buffer' \in Seq(STRING) /\ Len(buffer') = Len(buffer) + 1
    BY <2>1, <1>0, <1>1
  <2> QED
    BY <2>1, <2>2, <1>2, QuietStep
<1>3. CASE ~(Len(buffer) + 1 < Len(doc))
  <2>1. buffer' = buffer /\ Goes(s, "BUFFER_OVERFLOW") /\ UNCHANGED <<nodes, stack, root>>
    BY <1>3 DEF Put
  <2> QED
    BY <2>1, <1>0, QuietStep
<1> QED
  BY <1>2, <1>3

\* and so does the beginning of a tag behind a text,
LEMMA TagStartKeeps ==
  ASSUME ParserInv, TagStart
  PROVE  ParserInv'
<1>0. ParserTypeOK /\ StackIsPath /\ nodes \in Seq(Node) /\ buffer \in Seq(STRING) /\ stack # <<>> /\ Reading
  BY DEF ParserInv, ParserTypeOK, TagStart
<1>1. Top \in 1 .. Len(nodes) /\ Len(nodes) \in Nat
  BY <1>0, TopIsNode
<1>2. nodes' = [nodes EXCEPT ![Top].value = Append(@, buffer)] /\ stack' = stack /\ root' = root /\ buffer' = <<>>
  BY DEF TagStart
<1>3. Goes("TAG_START", "OK") /\ "TAG_START" \in State
  BY DEF TagStart, State
<1>4. nodes' \in Seq(Node) /\ Len(nodes') = Len(nodes)
  <2>1. nodes[Top] \in Node
    BY <1>0, <1>1
  <2>2. nodes[Top].value \in Seq(Seq(STRING))
    BY <2>1 DEF Node
  <2>3. Append(nodes[Top].value, buffer) \in Seq(Seq(STRING))
    BY <2>2, <1>0
  <2>4. [nodes[Top] EXCEPT !.value = Append(@, buffer)] \in Node
    BY <2>1, <2>3 DEF Node
  <2>5. nodes' = [nodes EXCEPT ![Top] = [nodes[Top] EXCEPT !.value = Append(@, buffer)]]
    BY <1>2
  <2> QED
    BY <2>4, <2>5, <1>0, <1>1
<1>5. \A n \in 1 .. Len(nodes) : nodes'[n].parent = nodes[n].parent
  <2> SUFFICES ASSUME NEW n \in 1 .. Len(nodes) PROVE nodes'[n].parent = nodes[n].parent
    OBVIOUS
  <2>1. nodes[n] \in Node
    BY <1>0
  <2> QED
    BY <1>2, <1>0, <1>1, <2>1 DEF Node
<1>6. doc' = doc /\ pos' \in 1 .. Len(doc') + 1 /\ state' = "TAG_START" /\ ret' \in {"OK", "SYNTAX_ERROR", "BUFFER_OVERFLOW"}
  BY <1>0, <1>3, GoesMoves
<1>7. ParserTypeOK'
  BY <1>0, <1>2, <1>3, <1>4, <1>6 DEF ParserTypeOK
<1>8. StackIsPath'
  <2>1. stack \in Seq(1 .. Len(nodes))
    BY <1>0 DEF ParserTypeOK
  <2>2. \A k \in 2 .. Len(stack) : nodes'[stack[k]].parent = stack[k - 1]
    <3> SUFFICES ASSUME NEW k \in 2 .. Len(stack) PROVE nodes'[stack[k]].parent = stack[k - 1]
      OBVIOUS
    <3>1. stack[k] \in 1 .. Len(nodes)
      BY <2>1
    <3>2. nodes[stack[k]].parent = stack[k - 1]
      BY <1>0 DEF StackIsPath
    <3> QED
      BY <3>1, <3>2, <1>5
  <2>3. DOMAIN nodes' = DOMAIN nodes /\ DOMAIN nodes = 1 .. Len(nodes)
    BY <1>0, <1>4
  <2> QED
    BY <2>2, <2>3, <1>0, <1>2, <1>5 DEF StackIsPath
<1>9. NoTagBehindRoot'
  BY <1>0, <1>2 DEF NoTagBehindRoot
<1> QED
  BY <1>7, <1>8, <1>9 DEF ParserInv

\* a node that is opened,
LEMMA OpenNodeKeeps ==
  ASSUME ParserInv, OpenNode
  PROVE  ParserInv'
<1> DEFINE new == [name |-> buffer, value |-> <<>>, parent |-> IF stack = <<>> THEN 0 ELSE Top]
<1>0. /\ ParserTypeOK /\ StackIsPath /\ NoTagBehindRoot /\ nodes \in Seq(Node) /\ buffer \in Seq(STRING)
      /\ Reading /\ state = "TAG_BODY" /\ stack \in Seq(1 .. Len(nodes)) /\ root \in 0 .. Len(nodes)
  BY DEF ParserInv, ParserTypeOK, OpenNode, InTag
<1>1. nodes' = Append(nodes, new) /\ stack' = Append(stack, Len(nodes')) /\ buffer' = <<>> /\ root' = root
  BY DEF OpenNode, Pushed
<1>2. Goes("TAG_END", "OK") /\ "TAG_END" \in State
  BY DEF OpenNode, State
<1>3. Len(nodes) \in Nat /\ Len(stack) \in Nat
  BY <1>0
<1>4. stack = <<>> => nodes = <<>>
  BY <1>0 DEF NoTagBehindRoot
<1>5. new \in Node /\ new.parent \in 0 .. Len(nodes) /\ (new.parent = 0 <=> stack = <<>>)
  <2>1. CASE stack = <<>>
    BY <2>1, <1>0, <1>3 DEF Node
  <2>2. CASE stack # <<>>
    <3>1. Top \in 1 .. Len(nodes) /\ new = [name |-> buffer, value |-> <<>>, parent |-> Top]
      BY <2>2, <1>0, TopIsNode
    <3>2. Top \in Nat /\ Top # 0 /\ <<>> \in Seq(Seq(STRING))
      BY <3>1, <1>3
    <3>3. new \in Node
      BY <3>1, <3>2, <1>0 DEF Node
    <3>4. new.parent = Top
      BY <3>1
    <3> HIDE DEF new
    <3> QED
      BY <2>2, <3>1, <3>2, <3>3, <3>4, <1>3
  <2> QED
    BY <2>1, <2>2
<1>6. nodes' \in Seq(Node) /\ Len(nodes') = Len(nodes) + 1 /\ nodes'[Len(nodes) + 1] = new
      /\ \A n \in 1 .. Len(nodes) : nodes'[n] = nodes[n]
  BY <1>0, <1>1, <1>3, <1>5
<1>7. stack' \in Seq(1 .. Len(nodes')) /\ Len(stack') = Len(stack) + 1 /\ stack'[Len(stack) + 1] = Len(nodes) + 1
      /\ \A k \in 1 .. Len(stack) : stack'[k] = stack[k]
  <2>1. stack \in Seq(1 .. Len(nodes'))
    BY <1>0, <1>3, <1>6
  <2> QED
    BY <2>1, <1>0, <1>1, <1>3, <1>6
<1>8. doc' = doc /\ pos' \in 1 .. Len(doc') + 1 /\ state' = "TAG_END" /\ ret' \in {"OK", "SYNTAX_ERROR", "BUFFER_OVERFLOW"}
  BY <1>0, <1>2, GoesMoves
<1>9. ParserTypeOK'
  BY <1>0, <1>1, <1>2, <1>3, <1>6, <1>7, <1>8 DEF ParserTypeOK
<1>10. StackIsPath'
  <2>1. stack' # <<>> /\ stack'[1] = 1 /\ root' = 0
    <3>1. CASE stack = <<>>
      BY <3>1, <1>0, <1>1, <1>3, <1>4, <1>7
    <3>2. CASE stack # <<>>
      BY <3>2, <1>0, <1>1, <1>3, <1>7 DEF StackIsPath
    <3> QED
      BY <3>1, <3>2
  <2>2. \A k \in 2 .. Len(stack') : nodes'[stack'[k]].parent = stack'[k - 1]
    <3> SUFFICES ASSUME NEW k \in 2 .. Len(stack') PROVE nodes'[stack'[k]].parent = stack'[k - 1]
      OBVIOUS
    <3>1. CASE k = Len(stack) + 1
      <4>1. Len(stack) \in 1 .. Len(stack) /\ k - 1 = Len(stack)
        BY <3>1, <1>3, <1>7
      <4>2. stack # <<>>
        BY <4>1, <1>0
      <4>3. stack'[k - 1] = stack[Len(stack)]
        BY <4>1, <1>7
      <4>4. stack'[k] = Len(nodes) + 1
        BY <3>1, <1>7
      <4> QED
        BY <4>2, <4>3, <4>4, <1>6 DEF Top
    <3>2. CASE k # Len(stack) + 1
      <4>1. k \in 2 .. Len(stack) /\ k - 1 \in 1 .. Len(stack)
        BY <3>2, <1>3, <1>7
      <4>2. stack'[k] = stack[k] /\ stack'[k - 1] = stack[k - 1]
        <5>1. k \in 1 .. Len(stack)
          BY <4>1, <1>3
        <5> QED
          BY <4>1, <5>1, <1>7
      <4>3. stack[k] \in 1 .. Len(nodes)
        BY <4>1, <1>0, <1>3
      <4> QED
        BY <4>1, <4>2, <4>3, <1>0, <1>6 DEF StackIsPath
    <3> QED
      BY <3>1, <3>2
  <2>3. \A n \in DOMAIN nodes' : nodes'[n].parent < n /\ (nodes'[n].parent = 0 => n = 1)
    <3> SUFFICES ASSUME NEW n \in 1 .. Len(nodes) + 1 PROVE nodes'[n].parent < n /\ (nodes'[n].parent = 0 => n = 1)
      BY <1>6
    <3>1. CASE n = Len(nodes) + 1
      BY <3>1, <1>3, <1>4, <1>5, <1>6
    <3>2. CASE n # Len(nodes) + 1
      <4>1. n \in 1 .. Len(nodes) /\ n \in DOMAIN nodes
        BY <3>2, <1>0, <1>3
      <4> QED
        BY <4>1, <1>0, <1>6 DEF StackIsPath
    <3> QED
      BY <3>1, <3>2
  <2> QED
    BY <2>1, <2>2, <2>3 DEF StackIsPath
<1>11. NoTagBehindRoot'
  BY <1>8 DEF NoTagBehindRoot
<1> QED
  BY <1>9, <1>10, <1>11 DEF ParserInv

\* and a node that is closed.
LEMMA CloseNodeKeeps ==
  ASSUME ParserInv, CloseNode
  PROVE  ParserInv'
<1>0. /\ ParserTypeOK /\ StackIsPath /\ nodes \in Seq(Node) /\ Reading /\ stack # <<>>
      /\ stack \in Seq(1 .. Len(nodes)) /\ root \in 0 .. Len(nodes)
  BY DEF ParserInv, ParserTypeOK, CloseNode, InTag, Closes
<1>1. /\ nodes' = nodes /\ buffer' = <<>> /\ stack' = SubSeq(stack, 1, Len(stack) - 1)
      /\ root' = IF Len(stack) = 1 THEN Top ELSE root
  BY DEF CloseNode
<1>2. Goes("TAG_END", "OK") /\ "TAG_END" \in State
  BY DEF CloseNode, State
<1>3. Top \in 1 .. Len(nodes) /\ Len(stack) \in Nat \ {0} /\ Len(nodes) \in Nat \ {0}
  BY <1>0, TopIsNode
<1>4. stack' \in Seq(1 .. Len(nodes)) /\ Len(stack') = Len(stack) - 1 /\ \A k \in 1 .. Len(stack) - 1 : stack'[k] = stack[k]
  <2> DEFINE n == Len(stack) - 1
  <2>1. n \in Nat /\ \A k \in 1 .. n : stack[k] \in 1 .. Len(nodes)
    BY <1>0, <1>3
  <2> HIDE DEF n
  <2>2. /\ SubSeq(stack, 1, n) \in Seq(1 .. Len(nodes))
        /\ Len(SubSeq(stack, 1, n)) = IF 1 <= n THEN n - 1 + 1 ELSE 0
        /\ \A k \in 1 .. n - 1 + 1 : SubSeq(stack, 1, n)[k] = stack[1 + k - 1]
    <3> DEFINE S == 1 .. Len(nodes)
    <3>1. 1 \in Int /\ n \in Int /\ \A k \in 1 .. n : stack[k] \in S
      BY <2>1
    <3> HIDE DEF S
    <3>2. /\ SubSeq(stack, 1, n) \in Seq(S)
          /\ Len(SubSeq(stack, 1, n)) = IF 1 <= n THEN n - 1 + 1 ELSE 0
          /\ \A k \in 1 .. n - 1 + 1 : SubSeq(stack, 1, n)[k] = stack[1 + k - 1]
      BY ONLY <3>1, SubSeqProperties
    <3> QED
      BY <3>2 DEF S
  <2>3. stack' = SubSeq(stack, 1, n) /\ n = Len(stack) - 1
    BY <1>1 DEF n
  <2>4. Len(stack') = n
    BY <2>1, <2>2, <2>3
  <2>5. \A k \in 1 .. n : stack'[k] = stack[k]
    <3> SUFFICES ASSUME NEW k \in 1 .. n PROVE stack'[k] = stack[k]
      OBVIOUS
    <3>1. k \in 1 .. n - 1 + 1 /\ 1 + k - 1 = k
      BY <2>1
    <3> QED
      BY <3>1, <2>2, <2>3
  <2> QED
    BY <2>2, <2>3, <2>4, <2>5
<1>5. doc' = doc /\ pos' \in 1 .. Len(doc') + 1 /\ state' = "TAG_END" /\ ret' \in {"OK", "SYNTAX_ERROR", "BUFFER_OVERFLOW"}
  BY <1>0, <1>2, GoesMoves
<1>6. ParserTypeOK'
  BY <1>0, <1>1, <1>2, <1>3, <1>4, <1>5 DEF ParserTypeOK
<1>7. StackIsPath'
  <2>1. CASE Len(stack) = 1
    <3>1. stack' = <<>> /\ root' = 1
      BY <2>1, <1>0, <1>1, <1>4 DEF StackIsPath, Top
    <3> QED
      BY <3>1, <1>0, <1>1, <1>4 DEF StackIsPath
  <2>2. CASE Len(stack) # 1
    <3>1. stack' # <<>> /\ stack'[1] = stack[1] /\ root' = root
      <4>1. Len(stack') >= 1 /\ 1 \in 1 .. Len(stack) - 1
        BY <2>2, <1>3, <1>4
      <4>2. stack'[1] = stack[1] /\ root' = root
        BY <4>1, <2>2, <1>1, <1>4
      <4> QED
        BY <4>1, <4>2, <1>4
    <3>2. \A k \in 2 .. Len(stack') : stack'[k] = stack[k] /\ stack'[k - 1] = stack[k - 1] /\ k \in 2 .. Len(stack)
      BY <1>3, <1>4
    <3> QED
      BY <3>1, <3>2, <1>0, <1>1 DEF StackIsPath
  <2> QED
    BY <2>1, <2>2
<1>8. NoTagBehindRoot'
  BY <1>5 DEF NoTagBehindRoot
<1> QED
  BY <1>6, <1>7, <1>8 DEF ParserInv
\* Every character keeps the invariant.
LEMMA ParseKeeps ==
  ASSUME ParserInv, Parse
  PROVE  ParserInv'
<1>0. /\ ParserTypeOK /\ NoTagBehindRoot /\ state \in State /\ buffer \in Seq(STRING)
      /\ (buffer # <<>> => Len(buffer) < Len(doc))
      /\ <<>> \in Seq(STRING)
  BY DEF ParserInv, ParserTypeOK
<1>1. CASE FirstTag
  <2>1. nodes = <<>> \/ stack # <<>>
    BY <1>1, <1>0 DEF NoTagBehindRoot, FirstTag
  <2> QED
    BY <1>1, <2>1, <1>0, QuietStep DEF FirstTag, State
<1>2. CASE TagStart
  BY <1>2, TagStartKeeps
<1>3. CASE BehindRoot
  BY <1>3, <1>0, QuietStep DEF BehindRoot, State
<1>4. CASE MisplacedStart
  BY <1>4, <1>0, QuietStep DEF MisplacedStart, Fail, State
<1>5. CASE OpenNode
  BY <1>5, OpenNodeKeeps
<1>6. CASE Overflow
  <2>1. UNCHANGED <<doc, buffer, ret, nodes, stack, root>> /\ state' = "CRASH" /\ pos' = Len(doc) + 1
    BY <1>6 DEF Overflow
  <2>2. Len(doc) \in Nat
    BY DEF ParserInv, ParserTypeOK
  <2>3. ParserTypeOK'
    BY <2>1, <2>2, <1>0 DEF ParserTypeOK, State
  <2>4. StackIsPath'
    BY <2>1 DEF ParserInv, StackIsPath
  <2>5. NoTagBehindRoot'
    BY <2>1 DEF NoTagBehindRoot
  <2> QED
    BY <2>3, <2>4, <2>5 DEF ParserInv
<1>7. CASE CloseNode
  BY <1>7, CloseNodeKeeps
<1>8. CASE Mismatch
  <2>1. nodes = <<>> \/ stack # <<>>
    BY <1>8, <1>0 DEF NoTagBehindRoot, Mismatch, InTag
  <2> QED
    BY <1>8, <2>1, <1>0, QuietStep DEF Mismatch, InTag, State
<1>9. CASE MisplacedEnd
  BY <1>9, <1>0, QuietStep DEF MisplacedEnd, Fail, State
<1>10. CASE Slash
  <2>1. CASE state = "TAG_START"
    <3>1. Put("TAG_BODY") /\ Reading /\ (nodes = <<>> \/ stack # <<>>) /\ "TAG_BODY" \in State
      BY <1>10, <2>1, <1>0 DEF Slash, NoTagBehindRoot, State
    <3> QED
      BY <3>1, PutKeeps
  <2>2. CASE state = "TAG_BODY"
    BY <1>10, <2>2, <1>0, QuietStep DEF Slash, Fail, State
  <2>3. CASE state \notin {"TAG_START", "TAG_BODY"}
    <3>1. Put(state) /\ Reading
      BY <1>10, <2>3 DEF Slash
    <3> QED
      BY <3>1, <1>0, PutKeeps DEF NoTagBehindRoot
  <2> QED
    BY <2>1, <2>2, <2>3
<1>11. CASE Space
  <2>1. CASE state = "TAG_START"
    BY <1>11, <2>1, <1>0, QuietStep DEF Space, Fail, State
  <2>2. CASE state = "TAG_END"
    BY <1>11, <2>2, <1>0, QuietStep DEF Space, State
  <2>3. CASE state \notin {"TAG_START", "TAG_END"}
    <3>1. Put(state) /\ Reading
      BY <1>11, <2>3 DEF Space
    <3> QED
      BY <3>1, <1>0, PutKeeps DEF NoTagBehindRoot
  <2> QED
    BY <2>1, <2>2, <2>3
<1>12. CASE Letter
  <2>1. CASE state = "START"
    BY <1>12, <2>1, <1>0, QuietStep DEF Letter, Fail, State
  <2>2. CASE state \in {"TAG_START", "TAG_BODY"}
    <3>1. Put("TAG_BODY") /\ Reading /\ (nodes = <<>> \/ stack # <<>>) /\ "TAG_BODY" \in State
      BY <1>12, <2>2, <1>0 DEF Letter, NoTagBehindRoot, State
    <3> QED
      BY <3>1, PutKeeps
  <2>3. CASE state \notin {"START", "TAG_START", "TAG_BODY"}
    <3>1. Put("VALUE") /\ Reading /\ "VALUE" \in State
      BY <1>12, <2>3 DEF Letter, State
    <3> QED
      BY <3>1, PutKeeps
  <2> QED
    BY <2>1, <2>2, <2>3
<1> QED
  BY <1>1, <1>2, <1>3, <1>4, <1>5, <1>6, <1>7, <1>8, <1>9, <1>10, <1>11, <1>12 DEF Parse

\* The parser keeps its invariant, whatever it reads.
LEMMA ParserInvariant == ParserSpec => []ParserInv
<1>1. ParserInit => ParserInv
  BY DEF ParserInit, ParserInv, ParserTypeOK, StackIsPath, NoTagBehindRoot, State
<1>2. ParserInv /\ [Parse]_parserVars => ParserInv'
  <2>1. ASSUME ParserInv, UNCHANGED parserVars PROVE ParserInv'
    BY <2>1 DEF parserVars, ParserInv, ParserTypeOK, StackIsPath, NoTagBehindRoot
  <2> QED
    BY <2>1, ParseKeeps
<1> QED
  BY <1>1, <1>2, PTL DEF ParserSpec

\* The parser's variables have their types, and its buffer never overflows, for every document
\* (sncapdsm.c:447).
THEOREM ParserTypeCorrect == ParserSpec => []ParserTypeOK
<1>1. ParserInv => ParserTypeOK
  BY DEF ParserInv
<1> QED
  BY <1>1, ParserInvariant, PTL

\* Whatever document is read, the open nodes are the path to the innermost one, and there is one
\* tree (sncapdsm.c:345, 370).
THEOREM StackStaysPath == ParserSpec => []StackIsPath
<1>1. ParserInv => StackIsPath
  BY DEF ParserInv
<1> QED
  BY <1>1, ParserInvariant, PTL

\* A tree is never changed after its outermost node was closed, whatever follows in the document.
THEOREM RootStaysFinal == ParserSpec => RootIsFinal
<1>1. ASSUME ParserInv, [Parse]_parserVars PROVE [root # 0 => UNCHANGED <<nodes, stack, root>>]_parserVars
  <2> SUFFICES ASSUME Parse, root # 0 PROVE UNCHANGED <<nodes, stack, root>>
    BY <1>1
  <2>1. stack = <<>>
    BY <1>1 DEF ParserInv, StackIsPath
  <2>2. nodes # <<>>
    <3>1. root \in 0 .. Len(nodes)
      BY <1>1 DEF ParserInv, ParserTypeOK
    <3>2. nodes = <<>> => Len(nodes) = 0
      OBVIOUS
    <3> QED
      BY <3>1, <3>2
  <2>3. state \in {"TAG_END", "VALUE", "ERROR", "CRASH"}
    BY <1>1, <2>1, <2>2 DEF ParserInv, NoTagBehindRoot
  <2>4. ~TagStart /\ ~OpenNode /\ ~CloseNode
    BY <2>1, <2>3 DEF TagStart, OpenNode, CloseNode, InTag
  <2> QED
    BY <2>4 DEF Parse, FirstTag, BehindRoot, MisplacedStart, Overflow, Mismatch, MisplacedEnd, Slash, Space, Letter, Fail, Put
<1> QED
  BY <1>1, ParserInvariant, PTL DEF ParserSpec, RootIsFinal

(***************************************************************************)
(* The list of the elements of a document.                                 *)
(***************************************************************************)
\* A set of natural numbers has a least element.
LEMMA LeastNatural ==
  ASSUME NEW S, S \subseteq Nat, S # {}
  PROVE  \E i \in S : \A k \in S : i <= k
<1> DEFINE R == OpToRel(<, Nat)
<1>1. IsWellFoundedOn(R, Nat)
  BY NatLessThanWellFounded
<1>2. PICK i \in S : \A k \in S : <<k, i>> \notin R
  <2> HIDE DEF R
  <2> QED
    BY <1>1, WFMin
<1>3. \A k \in S : ~(k < i)
  BY <1>2 DEF OpToRel
<1>4. \A k \in S : k \in Nat /\ i \in Nat
  OBVIOUS
<1> HIDE DEF R
<1> QED
  BY <1>3, <1>4

\* The elements of a record, and the elements of each, are sequences.
LEMMA RecordTypes ==
  ASSUME NEW E, PlainRecord(E)
  PROVE  /\ E \in Seq(Element) /\ Len(E) \in Nat /\ DOMAIN E = 1 .. Len(E)
         /\ \A k \in 1 .. Len(E) :
              /\ E[k] \in Element /\ E[k].name \in STRING /\ E[k].text \in Seq(STRING) /\ Plain(E[k])
              /\ E[k].elements \in Seq(Leaf) /\ Len(E[k].elements) \in Nat
              /\ DOMAIN E[k].elements = 1 .. Len(E[k].elements)
              /\ \A j \in 1 .. Len(E[k].elements) :
                   /\ E[k].elements[j] \in Leaf /\ Plain(E[k].elements[j])
                   /\ E[k].elements[j].text \in Seq(STRING)
<1>1. E \in Seq(Element) /\ Len(E) \in Nat /\ DOMAIN E = 1 .. Len(E)
  BY DEF PlainRecord
<1> SUFFICES ASSUME NEW k \in 1 .. Len(E)
             PROVE  /\ E[k] \in Element /\ E[k].name \in STRING /\ E[k].text \in Seq(STRING) /\ Plain(E[k])
                    /\ E[k].elements \in Seq(Leaf) /\ Len(E[k].elements) \in Nat
                    /\ DOMAIN E[k].elements = 1 .. Len(E[k].elements)
                    /\ \A j \in 1 .. Len(E[k].elements) :
                         /\ E[k].elements[j] \in Leaf /\ Plain(E[k].elements[j])
                         /\ E[k].elements[j].text \in Seq(STRING)
  BY <1>1
<1>2. E[k] \in Element
  BY <1>1
<1>3. E[k].name \in STRING /\ E[k].text \in Seq(STRING) /\ E[k].elements \in Seq(Leaf)
  BY <1>2 DEF Element
<1>4. Len(E[k].elements) \in Nat /\ DOMAIN E[k].elements = 1 .. Len(E[k].elements)
  BY <1>3
<1>5. Plain(E[k]) /\ \A j \in 1 .. Len(E[k].elements) : Plain(E[k].elements[j])
  BY <1>1, <1>4 DEF PlainRecord
<1>6. ASSUME NEW j \in 1 .. Len(E[k].elements)
      PROVE  E[k].elements[j] \in Leaf /\ E[k].elements[j].text \in Seq(STRING)
  <2>1. E[k].elements[j] \in Leaf
    BY <1>3
  <2> QED
    BY <2>1 DEF Leaf
<1> QED
  BY <1>2, <1>3, <1>4, <1>5, <1>6

\* The homes are in the order of the elements, with room for the elements of each.
LEMMA HomesGrow ==
  ASSUME NEW E, PlainRecord(E), NEW home, Homes(E, home)
  PROVE  /\ \A k \in 1 .. Len(E) + 1 : home[k] \in Nat /\ home[k] >= 3
         /\ \A k \in 1 .. Len(E) : home[k + 1] = home[k] + Len(E[k].elements) + 1
         /\ \A m \in 1 .. Len(E) + 1 : \A k \in 1 .. Len(E) : k < m => home[k] + Len(E[k].elements) + 1 <= home[m]
<1>1. Len(E) \in Nat /\ DOMAIN E = 1 .. Len(E) /\ \A k \in 1 .. Len(E) : Len(E[k].elements) \in Nat
  BY RecordTypes
<1>2. /\ home[1] = 3 /\ \A k \in 1 .. Len(E) + 1 : home[k] \in Nat
      /\ \A k \in 1 .. Len(E) : home[k + 1] = home[k] + Len(E[k].elements) + 1
  BY <1>1 DEF Homes
<1> DEFINE Late(m) == \A k \in 1 .. Len(E) : k < m => home[k] + Len(E[k].elements) + 1 <= home[m]
           bad == {m \in 1 .. Len(E) + 1 : ~Late(m) \/ ~(home[m] >= 3)}
<1>3. ASSUME bad # {}
      PROVE  FALSE
  <2>1. bad \subseteq Nat
    BY <1>1
  <2>2. PICK m \in bad : \A n \in bad : m <= n
    <3> HIDE DEF bad
    <3> QED
      BY <1>3, <2>1, LeastNatural
  <2>3. m \in 1 .. Len(E) + 1 /\ m \in Nat /\ (~Late(m) \/ ~(home[m] >= 3))
    BY <2>1, <2>2
  <2>4. m # 1
    BY <1>1, <1>2, <2>3
  <2>5. m - 1 \in 1 .. Len(E) /\ m - 1 \in 1 .. Len(E) + 1 /\ ~(m <= m - 1)
    BY <1>1, <2>3, <2>4
  <2>6. Late(m - 1) /\ home[m - 1] >= 3
    BY <2>2, <2>5
  <2>7. home[m] = home[m - 1] + Len(E[m - 1].elements) + 1 /\ home[m - 1] \in Nat /\ Len(E[m - 1].elements) \in Nat
    <3>1. m - 1 + 1 = m
      BY <2>3
    <3> QED
      BY <1>1, <1>2, <2>5, <3>1
  <2>8. ASSUME NEW k \in 1 .. Len(E), k < m
        PROVE  home[k] + Len(E[k].elements) + 1 <= home[m]
    <3>1. CASE k = m - 1
      BY <2>7, <3>1
    <3>2. CASE k # m - 1
      <4>1. k < m - 1
        BY <1>1, <2>3, <2>8, <3>2
      <4>2. home[k] + Len(E[k].elements) + 1 <= home[m - 1]
        BY <2>6, <4>1
      <4>3. home[k] \in Nat /\ Len(E[k].elements) \in Nat
        BY <1>1, <1>2
      <4>4. \A a, b, c, d \in Int : a + b + 1 <= c /\ d >= 0 => a + b + 1 <= c + d + 1
        OBVIOUS
      <4>5. home[m - 1] \in Int /\ Len(E[m - 1].elements) \in Int /\ Len(E[m - 1].elements) >= 0
        BY <2>7
      <4>6. home[k] + Len(E[k].elements) + 1 <= home[m - 1] + Len(E[m - 1].elements) + 1
        <5> DEFINE a == home[k]
                   b == Len(E[k].elements)
                   c == home[m - 1]
                   d == Len(E[m - 1].elements)
        <5>1. a \in Int /\ b \in Int /\ c \in Int /\ d \in Int /\ d >= 0 /\ a + b + 1 <= c
          BY <4>2, <4>3, <4>5
        <5> HIDE DEF a, b, c, d
        <5>2. a + b + 1 <= c + d + 1
          BY <4>4, <5>1
        <5> QED
          BY <5>2 DEF a, b, c, d
      <4> QED
        BY <2>7, <4>6
    <3> QED
      BY <3>1, <3>2
  <2>9. home[m] >= 3
    BY <2>6, <2>7
  <2> QED
    BY <2>3, <2>8, <2>9
<1>4. \A m \in 1 .. Len(E) + 1 : Late(m) /\ home[m] >= 3
  BY <1>3
<1> QED
  BY <1>1, <1>2, <1>4

\* Every entry but the first two is an element of the record, or an element of one.
LEMMA HomesCover ==
  ASSUME NEW E, PlainRecord(E), NEW home, Homes(E, home), NEW n \in Nat, n >= 3, n <= home[Len(E) + 1] - 1
  PROVE  \E k \in 1 .. Len(E) : n = home[k] \/ \E j \in 1 .. Len(E[k].elements) : n = home[k] + j
<1>1. Len(E) \in Nat /\ \A k \in 1 .. Len(E) : Len(E[k].elements) \in Nat
  BY RecordTypes
<1>2. /\ \A k \in 1 .. Len(E) + 1 : home[k] \in Nat
      /\ \A k \in 1 .. Len(E) : home[k + 1] = home[k] + Len(E[k].elements) + 1
  BY HomesGrow
<1>3. home[1] = 3
  BY DEF Homes
<1> DEFINE S == {m \in 1 .. Len(E) + 1 : n < home[m]}
<1>4. Len(E) + 1 \in S /\ S \subseteq Nat
  BY <1>1, <1>2
<1>5. PICK m \in S : \A i \in S : m <= i
  <2> HIDE DEF S
  <2> QED
    BY <1>4, LeastNatural
<1>6. m \in 1 .. Len(E) + 1 /\ m \in Nat /\ n < home[m] /\ m # 1
  BY <1>3, <1>4, <1>5
<1>7. m - 1 \in 1 .. Len(E) /\ m - 1 \in 1 .. Len(E) + 1 /\ m - 1 + 1 = m /\ ~(m <= m - 1)
  BY <1>1, <1>6
<1>8. home[m - 1] <= n /\ home[m - 1] \in Nat /\ home[m] = home[m - 1] + Len(E[m - 1].elements) + 1
      /\ Len(E[m - 1].elements) \in Nat
  <2>1. m - 1 \notin S
    BY <1>5, <1>7
  <2> QED
    BY <1>1, <1>2, <1>7, <2>1
<1>9. n = home[m - 1] \/ n - home[m - 1] \in 1 .. Len(E[m - 1].elements)
  BY <1>6, <1>8
<1>10. n = home[m - 1] + (n - home[m - 1])
  BY <1>8
<1> QED
  BY <1>7, <1>9, <1>10

\* What the parser needs of the list: the entries are nested, four deep, and their names and
\* texts have no character that means something.
Size(N) == N[1].last

ListFacts(N) ==
  /\ Size(N) \in Nat /\ Size(N) >= 2 /\ DOMAIN N = 1 .. Size(N) /\ N[1].parent = 0
  /\ \A n \in 1 .. Size(N) :
       /\ N[n].parent \in 0 .. n - 1 /\ N[n].last \in n .. Size(N)
       /\ n # 1 => N[n].parent # 0 /\ n <= N[N[n].parent].last
       /\ N[n].parent > 2 => N[N[n].parent].parent = 2
       /\ N[n].text \in Seq(STRING) /\ Plain(N[n])
  /\ \A m, n \in 1 .. Size(N) : m < n /\ n <= N[m].last => m <= N[n].parent

\* The list of a record's elements is such a list.
LEMMA ListedFacts ==
  ASSUME NEW E, PlainRecord(E), NEW home, Homes(E, home), NEW N, Listed(E, home, N)
  PROVE  ListFacts(N) /\ Size(N) = home[Len(E) + 1] - 1
<1> DEFINE end == home[Len(E) + 1] - 1
<1>1. /\ Len(E) \in Nat /\ DOMAIN E = 1 .. Len(E)
      /\ \A k \in 1 .. Len(E) :
           /\ E[k].text \in Seq(STRING) /\ Plain(E[k]) /\ Len(E[k].elements) \in Nat
           /\ DOMAIN E[k].elements = 1 .. Len(E[k].elements)
           /\ \A j \in 1 .. Len(E[k].elements) : Plain(E[k].elements[j]) /\ E[k].elements[j].text \in Seq(STRING)
  BY RecordTypes
<1>2. /\ \A k \in 1 .. Len(E) + 1 : home[k] \in Nat /\ home[k] >= 3
      /\ \A k \in 1 .. Len(E) : home[k + 1] = home[k] + Len(E[k].elements) + 1
      /\ \A m \in 1 .. Len(E) + 1 : \A k \in 1 .. Len(E) : k < m => home[k] + Len(E[k].elements) + 1 <= home[m]
  BY HomesGrow
<1>3. /\ DOMAIN N = 1 .. end
      /\ N[1] = Entry([name |-> "report", text |-> <<>>], 0, end)
      /\ N[2] = Entry([name |-> "record", text |-> <<>>], 1, end)
      /\ \A k \in 1 .. Len(E) :
           /\ N[home[k]] = Entry(E[k], 2, home[k + 1] - 1)
           /\ \A j \in 1 .. Len(E[k].elements) : N[home[k] + j] = Entry(E[k].elements[j], home[k], home[k] + j)
  BY <1>1 DEF Listed
<1>4. end \in Nat /\ end >= 2
  BY <1>1, <1>2
<1>5. Size(N) = end
  BY <1>3 DEF Size, Entry
<1>6. /\ N[1].parent = 0 /\ N[1].last = end /\ N[1].text = <<>> /\ Plain(N[1])
      /\ N[2].parent = 1 /\ N[2].last = end /\ N[2].text = <<>> /\ Plain(N[2])
  BY <1>3 DEF Entry, Plain, Special, Blank
<1>7. ASSUME NEW k \in 1 .. Len(E)
      PROVE  /\ N[home[k]].parent = 2 /\ N[home[k]].last = home[k] + Len(E[k].elements)
             /\ N[home[k]].text \in Seq(STRING) /\ Plain(N[home[k]])
             /\ home[k] >= 3 /\ home[k] + Len(E[k].elements) <= end /\ home[k] \in Nat
  <2>1. N[home[k]] = Entry(E[k], 2, home[k + 1] - 1)
    BY <1>3
  <2>2. home[k] \in Nat /\ home[k] >= 3 /\ Len(E[k].elements) \in Nat /\ home[k + 1] = home[k] + Len(E[k].elements) + 1
    BY <1>1, <1>2
  <2>3. N[home[k]].text = E[k].text /\ N[home[k]].name = E[k].name /\ N[home[k]].parent = 2
        /\ N[home[k]].last = home[k + 1] - 1
    BY <2>1 DEF Entry
  <2>4. home[k] + Len(E[k].elements) + 1 <= home[Len(E) + 1] /\ home[Len(E) + 1] \in Nat
    BY <1>1, <1>2
  <2>5. Plain(N[home[k]])
    BY <1>1, <2>3 DEF Plain
  <2> QED
    BY <1>1, <2>2, <2>3, <2>4, <2>5
<1>8. ASSUME NEW k \in 1 .. Len(E), NEW j \in 1 .. Len(E[k].elements)
      PROVE  /\ N[home[k] + j].parent = home[k] /\ N[home[k] + j].last = home[k] + j
             /\ N[home[k] + j].text \in Seq(STRING) /\ Plain(N[home[k] + j])
  <2>1. N[home[k] + j] = Entry(E[k].elements[j], home[k], home[k] + j)
    BY <1>3
  <2>2. /\ N[home[k] + j].text = E[k].elements[j].text /\ N[home[k] + j].name = E[k].elements[j].name
        /\ N[home[k] + j].parent = home[k] /\ N[home[k] + j].last = home[k] + j
    BY <2>1 DEF Entry
  <2>3. Plain(E[k].elements[j]) /\ E[k].elements[j].text \in Seq(STRING)
    BY <1>1
  <2>4. Plain(N[home[k] + j])
    BY <2>2, <2>3 DEF Plain
  <2> QED
    BY <2>2, <2>3, <2>4
<1> DEFINE Leads(n) ==
             \/ n = 1 \/ n = 2 \/ \E k \in 1 .. Len(E) : n = home[k] \/ \E j \in 1 .. Len(E[k].elements) : n = home[k] + j
<1>9. \A n \in 1 .. end : Leads(n)
  <2> SUFFICES ASSUME NEW n \in 1 .. end, n # 1, n # 2 PROVE Leads(n)
    OBVIOUS
  <2>1. n \in Nat /\ n >= 3 /\ n <= home[Len(E) + 1] - 1
    BY <1>4
  <2> QED
    BY <2>1, HomesCover
<1>10. ASSUME NEW n \in 1 .. end
       PROVE  /\ N[n].parent \in 0 .. n - 1 /\ N[n].last \in n .. end
              /\ n # 1 => N[n].parent # 0 /\ n <= N[N[n].parent].last
              /\ N[n].parent > 2 => N[N[n].parent].parent = 2
              /\ N[n].text \in Seq(STRING) /\ Plain(N[n])
  <2>1. Leads(n) /\ n \in Nat /\ n >= 1 /\ n <= end
    BY <1>4, <1>9
  <2> HIDE DEF end
  <2>2. CASE n = 1
    <3>1. 0 \in 0 .. n - 1 /\ end \in n .. end /\ <<>> \in Seq(STRING)
      BY <1>4, <2>2
    <3>2. N[n].parent = 0 /\ N[n].last = end /\ N[n].text = <<>> /\ Plain(N[n])
      BY <1>6, <2>2
    <3>3. N[n].text \in Seq(STRING) /\ N[n].parent \in 0 .. n - 1 /\ N[n].last \in n .. end
      BY <3>1, <3>2
    <3>4. ~(N[n].parent > 2)
      BY <3>2
    <3>5. n # 1 => N[n].parent # 0 /\ n <= N[N[n].parent].last
      BY <2>2
    <3> QED
      BY <3>2, <3>3, <3>4, <3>5
  <2>3. CASE n = 2
    <3>1. 1 \in 0 .. n - 1 /\ end \in n .. end /\ <<>> \in Seq(STRING) /\ n <= end
      BY <1>4, <2>3
    <3>2. N[n].parent = 1 /\ N[n].last = end /\ N[n].text = <<>> /\ Plain(N[n])
      BY <1>6, <2>3
    <3>3. N[n].text \in Seq(STRING) /\ N[n].parent \in 0 .. n - 1 /\ N[n].last \in n .. end
      BY <3>1, <3>2
    <3>4. ~(N[n].parent > 2)
      BY <3>2
    <3>5. N[n].parent # 0 /\ n <= N[N[n].parent].last
      BY <1>6, <3>1, <3>2
    <3> QED
      BY <3>2, <3>3, <3>4, <3>5
  <2>4. ASSUME NEW k \in 1 .. Len(E), n = home[k]
        PROVE  /\ N[n].parent = 2 /\ N[n].last \in n .. end /\ N[n].text \in Seq(STRING) /\ Plain(N[n])
    <3>1. Len(E[k].elements) \in Nat
      BY <1>1
    <3>2. home[k] \in Nat /\ home[k] + Len(E[k].elements) <= end
      BY <1>7
    <3>3. home[k] + Len(E[k].elements) \in home[k] .. end
      BY <1>4, <3>1, <3>2
    <3> QED
      BY <1>7, <2>4, <3>3
  <2>5. CASE \E k \in 1 .. Len(E) : n = home[k]
    <3>1. N[n].parent = 2 /\ N[n].last \in n .. end /\ N[n].text \in Seq(STRING) /\ Plain(N[n])
      BY <2>4, <2>5
    <3>2. n >= 3
      BY <1>7, <2>5
    <3> QED
      BY <1>4, <1>6, <2>1, <3>1, <3>2
  <2>6. CASE \E k \in 1 .. Len(E) : \E j \in 1 .. Len(E[k].elements) : n = home[k] + j
    <3>1. PICK k \in 1 .. Len(E) : \E j \in 1 .. Len(E[k].elements) : n = home[k] + j
      BY <2>6
    <3>2. PICK j \in 1 .. Len(E[k].elements) : n = home[k] + j
      BY <3>1
    <3>3. N[n].parent = home[k] /\ N[n].last = n /\ N[n].text \in Seq(STRING) /\ Plain(N[n])
      BY <1>8, <3>2
    <3>4. N[home[k]].parent = 2 /\ N[home[k]].last = home[k] + Len(E[k].elements) /\ home[k] \in Nat /\ home[k] >= 3
      BY <1>7
    <3>5. Len(E[k].elements) \in Nat
      BY <1>1
    <3>6. home[k] \in 0 .. n - 1 /\ n \in n .. end /\ home[k] # 0 /\ n <= home[k] + Len(E[k].elements)
      BY <1>4, <2>1, <3>2, <3>4, <3>5
    <3> QED
      BY <3>3, <3>4, <3>6
  <2> QED
    BY <2>1, <2>2, <2>3, <2>5, <2>6
<1>11. ASSUME NEW m \in 1 .. end, NEW n \in 1 .. end, m < n, n <= N[m].last
       PROVE  m <= N[n].parent
  <2>1. Leads(m) /\ Leads(n) /\ m \in Nat /\ n \in Nat /\ m >= 1
    BY <1>4, <1>9
  <2> HIDE DEF end
  <2>2. N[n].parent \in Nat /\ N[n].parent # 0
    BY <1>10, <1>11, <2>1
  <2>3. CASE m = 1
    BY <2>2, <2>3
  <2>4. CASE n = 2
    BY <1>6, <1>11, <2>1, <2>4
  <2>5. ASSUME NEW k \in 1 .. Len(E), n = home[k] \/ \E j \in 1 .. Len(E[k].elements) : n = home[k] + j
        PROVE  \/ N[n].parent = 2 /\ n = home[k]
               \/ N[n].parent = home[k] /\ n > home[k] /\ n <= home[k] + Len(E[k].elements)
    <3>1. home[k] \in Nat /\ Len(E[k].elements) \in Nat
      BY <1>1, <1>2
    <3>2. CASE n = home[k]
      BY <1>7, <3>2
    <3>3. CASE n # home[k]
      <4>1. PICK j \in 1 .. Len(E[k].elements) : n = home[k] + j
        BY <2>5, <3>3
      <4>2. N[n].parent = home[k]
        BY <1>8, <4>1
      <4>3. n > home[k] /\ n <= home[k] + Len(E[k].elements)
        BY <3>1, <4>1
      <4> QED
        BY <4>2, <4>3
    <3> QED
      BY <3>2, <3>3
  <2>6. CASE m = 2 /\ n # 2
    <3>1. PICK k \in 1 .. Len(E) : n = home[k] \/ \E j \in 1 .. Len(E[k].elements) : n = home[k] + j
      BY <2>1, <2>6, <1>11
    <3>2. N[n].parent = 2 \/ N[n].parent = home[k]
      BY <2>5, <3>1
    <3> QED
      BY <1>7, <2>6, <3>2
  <2>7. CASE m # 1 /\ m # 2
    <3>1. n # 1 /\ n # 2
      BY <2>1, <2>7, <1>11
    <3>2. PICK k \in 1 .. Len(E) : m = home[k] \/ \E j \in 1 .. Len(E[k].elements) : m = home[k] + j
      BY <2>1, <2>7
    <3>3. PICK i \in 1 .. Len(E) : n = home[i] \/ \E j \in 1 .. Len(E[i].elements) : n = home[i] + j
      BY <2>1, <3>1
    <3>4. CASE m = home[k]
      <4>1. n <= home[k] + Len(E[k].elements)
        BY <1>7, <1>11, <3>4
      <4>2. \/ N[n].parent = 2 /\ n = home[i]
            \/ N[n].parent = home[i] /\ n > home[i] /\ n <= home[i] + Len(E[i].elements)
        BY <2>5, <3>3
      <4>3. /\ home[k] \in Nat /\ Len(E[k].elements) \in Nat /\ home[i] \in Nat /\ Len(E[i].elements) \in Nat
            /\ k \in 1 .. Len(E) + 1 /\ i \in 1 .. Len(E) + 1 /\ k \in Nat /\ i \in Nat
        BY <1>1, <1>2
      <4>4. k < i => home[k] + Len(E[k].elements) + 1 <= home[i]
        BY <1>2, <4>3
      <4>5. i < k => home[i] + Len(E[i].elements) + 1 <= home[k]
        BY <1>2, <4>3
      <4>6. home[i] <= n /\ n <= home[i] + Len(E[i].elements)
        BY <4>2, <4>3
      <4>7. ~(k < i) /\ ~(i < k)
        <5>1. home[k] < n /\ n \in Nat
          BY <1>11, <2>1, <3>4
        <5>2. ~(k < i)
          BY <4>1, <4>3, <4>4, <4>6, <5>1
        <5>3. ~(i < k)
          BY <4>1, <4>3, <4>5, <4>6, <5>1
        <5> QED
          BY <5>2, <5>3
      <4>8. i = k
        BY <4>3, <4>7
      <4> QED
        BY <1>11, <3>4, <4>2, <4>3, <4>8
    <3>5. CASE \E j \in 1 .. Len(E[k].elements) : m = home[k] + j
      <4>1. N[m].last = m
        BY <1>8, <3>5
      <4> QED
        BY <1>11, <2>1, <4>1
    <3> QED
      BY <3>2, <3>4, <3>5
  <2> QED
    BY <2>3, <2>4, <2>6, <2>7
<1>12. Size(N) = home[Len(E) + 1] - 1
  BY <1>5
<1> HIDE DEF end
<1>13. ListFacts(N)
  BY <1>3, <1>4, <1>5, <1>6, <1>10, <1>11 DEF ListFacts
<1> QED
  BY <1>12, <1>13

(***************************************************************************)
(* Where the elements of a document are in it.                             *)
(***************************************************************************)
\* Where the tags of an element begin and end, as numbers.
LEMMA PlacedFacts ==
  ASSUME NEW d \in Seq(STRING), NEW N, NEW open, NEW close, ListFacts(N), Placed(d, N, open, close)
  PROVE  /\ Size(N) \in Nat /\ Size(N) >= 2 /\ DOMAIN N = 1 .. Size(N) /\ Len(d) \in Nat /\ DOMAIN d = 1 .. Len(d)
         /\ open[1] = 1
         /\ \A n \in 1 .. Size(N) :
              /\ open[n] \in Nat /\ open[n] >= 1 /\ close[n] \in Nat /\ Len(N[n].text) \in Nat
              /\ TextEnd(N, open, n) = open[n] + 2 + Len(N[n].text) /\ TextEnd(N, open, n) \in Nat
              /\ TextEnd(N, open, n) < close[n] /\ close[n] + 3 <= Len(d)
         /\ \A m, n \in 1 .. Size(N) : m < n =>
              /\ TextEnd(N, open, m) < open[n] /\ N[m].last \in Nat
              /\ n <= N[m].last => close[n] + 3 < close[m]
              /\ n > N[m].last => close[m] + 3 < open[n]
<1>1. Size(N) \in Nat /\ Size(N) >= 2 /\ DOMAIN N = 1 .. Size(N) /\ Len(d) \in Nat /\ DOMAIN d = 1 .. Len(d)
  BY DEF ListFacts
<1>2. /\ open[1] = 1
      /\ \A n \in 1 .. Size(N) :
              /\ open[n] \in Nat /\ close[n] \in Nat
              /\ TextEnd(N, open, n) < close[n] /\ close[n] + 3 <= Len(d)
  BY <1>1 DEF Placed
<1>3. \A m, n \in 1 .. Size(N) : m < n =>
        /\ TextEnd(N, open, m) < open[n]
        /\ IF n <= N[m].last THEN close[n] + 3 < close[m] ELSE close[m] + 3 < open[n]
  BY <1>1 DEF Placed
<1>4. ASSUME NEW n \in 1 .. Size(N)
      PROVE  /\ Len(N[n].text) \in Nat /\ TextEnd(N, open, n) = open[n] + 2 + Len(N[n].text)
             /\ TextEnd(N, open, n) \in Nat /\ N[n].last \in Nat
  <2>1. N[n].text \in Seq(STRING) /\ N[n].last \in n .. Size(N)
    BY DEF ListFacts
  <2>2. Len(N[n].text) \in Nat
    BY <2>1
  <2> QED
    BY <1>1, <1>2, <2>1, <2>2 DEF TextEnd
<1>5. ASSUME NEW n \in 1 .. Size(N)
      PROVE  open[n] >= 1
  <2>1. CASE n = 1
    BY <1>2, <2>1
  <2>2. CASE n # 1
    <3>1. 1 \in 1 .. Size(N) /\ 1 < n
      BY <1>1, <2>2
    <3>2. TextEnd(N, open, 1) < open[n] /\ TextEnd(N, open, 1) \in Nat /\ open[n] \in Nat
      BY <1>2, <1>3, <1>4, <3>1
    <3> QED
      BY <3>2
  <2> QED
    BY <2>1, <2>2
<1>6. ASSUME NEW m \in 1 .. Size(N), NEW n \in 1 .. Size(N), m < n
      PROVE  /\ TextEnd(N, open, m) < open[n] /\ N[m].last \in Nat
             /\ n <= N[m].last => close[n] + 3 < close[m]
             /\ n > N[m].last => close[m] + 3 < open[n]
  <2>1. N[m].last \in Nat /\ n \in Nat
    BY <1>4
  <2>2. IF n <= N[m].last THEN close[n] + 3 < close[m] ELSE close[m] + 3 < open[n]
    BY <1>3, <1>6
  <2>3. n > N[m].last => ~(n <= N[m].last)
    BY <2>1
  <2> QED
    BY <1>3, <1>6, <2>1, <2>2, <2>3
<1> QED
  BY <1>1, <1>2, <1>4, <1>5, <1>6

\* The characters of an element's tags and text.
Tagged(d, N, open, close, n) ==
  /\ d[open[n]] = "<" /\ d[open[n] + 1] = N[n].name /\ d[open[n] + 2] = ">"
  /\ d[close[n]] = "<" /\ d[close[n] + 1] = "/" /\ d[close[n] + 2] = N[n].name /\ d[close[n] + 3] = ">"
  /\ N[n].name \notin {"<", ">", "/", " "} /\ N[n].text \in Seq(STRING)
  /\ \A i \in 1 .. Len(N[n].text) :
       d[open[n] + 2 + i] = N[n].text[i] /\ N[n].text[i] \notin {"<", ">", "/"} /\ N[n].text[1] # " "
  /\ Len(N[n].text) # 0 => d[TextEnd(N, open, n) + 1] = "<"

\* The characters of an element's tags, each at its position.
LEMMA PlacedTags ==
  ASSUME NEW d \in Seq(STRING), NEW N, NEW open, NEW close, ListFacts(N), Placed(d, N, open, close),
         NEW n \in 1 .. Size(N)
  PROVE  Tagged(d, N, open, close, n)
<1>1. n \in DOMAIN N
  BY DEF ListFacts
<1>2. /\ d[open[n]] = "<" /\ d[open[n] + 1] = N[n].name /\ d[open[n] + 2] = ">"
      /\ \A i \in DOMAIN N[n].text : d[open[n] + 2 + i] = N[n].text[i] /\ d[TextEnd(N, open, n) + 1] = "<"
      /\ d[close[n]] = "<" /\ d[close[n] + 1] = "/" /\ d[close[n] + 2] = N[n].name /\ d[close[n] + 3] = ">"
  BY <1>1 DEF Placed
<1>3. N[n].text \in Seq(STRING) /\ Plain(N[n])
  BY DEF ListFacts
<1>4. Len(N[n].text) \in Nat /\ DOMAIN N[n].text = 1 .. Len(N[n].text)
  BY <1>3
<1>5. /\ N[n].name \notin {"<", ">", "/", " "}
      /\ \A i \in 1 .. Len(N[n].text) : N[n].text[i] \notin {"<", ">", "/"} /\ N[n].text[1] # " "
  BY <1>3, <1>4 DEF Plain, Special, Blank
<1>6. Len(N[n].text) # 0 => 1 \in 1 .. Len(N[n].text)
  BY <1>4
<1> QED
  BY <1>2, <1>3, <1>4, <1>5, <1>6 DEF Tagged

\* Position i is in the start tag of entry n or its text, or in its end tag.
InStart(N, open, n, i) == open[n] <= i /\ i <= TextEnd(N, open, n)
InEnd(close, n, i) == close[n] <= i /\ i <= close[n] + 3

\* Tags of two elements, one in the other or one behind the other, have no character in common.
LEMMA TagsApart ==
  ASSUME NEW a \in Nat, NEW b \in Nat, NEW c \in Nat, NEW x \in Nat, NEW y \in Nat, NEW z \in Nat, NEW i \in Nat,
         a <= b, b < c, x <= y, y < z, b < x, z + 3 < c \/ c + 3 < x
  PROVE  /\ ~(a <= i /\ i <= b /\ z <= i /\ i <= z + 3) /\ ~(x <= i /\ i <= y /\ c <= i /\ i <= c + 3)
         /\ ~(a <= i /\ i <= b /\ x <= i /\ i <= y) /\ ~(c <= i /\ i <= c + 3 /\ z <= i /\ i <= z + 3)
<1>1. ~(a <= i /\ i <= b /\ z <= i /\ i <= z + 3) /\ ~(a <= i /\ i <= b /\ x <= i /\ i <= y)
  OBVIOUS
<1>2. ~(x <= i /\ i <= y /\ c <= i /\ i <= c + 3) /\ ~(c <= i /\ i <= c + 3 /\ z <= i /\ i <= z + 3)
  OBVIOUS
<1> QED
  BY <1>1, <1>2

\* A position is in one tag only.
LEMMA Apart ==
  ASSUME NEW d \in Seq(STRING), NEW N, NEW open, NEW close, ListFacts(N), Placed(d, N, open, close),
         NEW m \in 1 .. Size(N), NEW n \in 1 .. Size(N), NEW i \in Nat
  PROVE  /\ ~(InStart(N, open, m, i) /\ InEnd(close, n, i))
         /\ InStart(N, open, m, i) /\ InStart(N, open, n, i) => m = n
         /\ InEnd(close, m, i) /\ InEnd(close, n, i) => m = n
<1> DEFINE end(k) == TextEnd(N, open, k)
<1>1. /\ Size(N) \in Nat
      /\ \A k \in 1 .. Size(N) :
           open[k] \in Nat /\ close[k] \in Nat /\ end(k) \in Nat /\ end(k) >= open[k] /\ end(k) < close[k]
      /\ \A j, k \in 1 .. Size(N) : j < k => end(j) < open[k] /\ (close[k] + 3 < close[j] \/ close[j] + 3 < open[k])
  <2>1. /\ Size(N) \in Nat
        /\ \A k \in 1 .. Size(N) :
             open[k] \in Nat /\ close[k] \in Nat /\ end(k) \in Nat /\ end(k) < close[k]
             /\ Len(N[k].text) \in Nat /\ end(k) = open[k] + 2 + Len(N[k].text)
        /\ \A j, k \in 1 .. Size(N) : j < k =>
             /\ end(j) < open[k] /\ N[j].last \in Nat
             /\ k <= N[j].last => close[k] + 3 < close[j]
             /\ k > N[j].last => close[j] + 3 < open[k]
    BY PlacedFacts
  <2>2. ASSUME NEW j \in 1 .. Size(N), NEW k \in 1 .. Size(N), j < k
        PROVE  close[k] + 3 < close[j] \/ close[j] + 3 < open[k]
    <3>1. N[j].last \in Nat /\ k \in Nat
      BY <2>1, <2>2
    <3>2. k <= N[j].last \/ k > N[j].last
      BY <3>1
    <3> QED
      BY <2>1, <2>2, <3>2
  <2>3. ASSUME NEW k \in 1 .. Size(N)
        PROVE  end(k) >= open[k]
    <3>1. open[k] \in Nat /\ Len(N[k].text) \in Nat /\ end(k) = open[k] + 2 + Len(N[k].text)
      BY <2>1
    <3> HIDE DEF end
    <3> QED
      BY <3>1
  <2> HIDE DEF end
  <2> QED
    BY <2>1, <2>2, <2>3
<1>2. InStart(N, open, m, i) <=> open[m] <= i /\ i <= end(m)
  BY DEF InStart
<1>3. InStart(N, open, n, i) <=> open[n] <= i /\ i <= end(n)
  BY DEF InStart
<1>4. (InEnd(close, m, i) <=> close[m] <= i /\ i <= close[m] + 3) /\ (InEnd(close, n, i) <=> close[n] <= i /\ i <= close[n] + 3)
  BY DEF InEnd
<1> HIDE DEF end
<1>5. /\ open[m] \in Nat /\ close[m] \in Nat /\ end(m) \in Nat /\ end(m) >= open[m] /\ end(m) < close[m]
      /\ open[n] \in Nat /\ close[n] \in Nat /\ end(n) \in Nat /\ end(n) >= open[n] /\ end(n) < close[n]
      /\ m < n => end(m) < open[n] /\ (close[n] + 3 < close[m] \/ close[m] + 3 < open[n])
      /\ n < m => end(n) < open[m] /\ (close[m] + 3 < close[n] \/ close[n] + 3 < open[m])
      /\ (m < n \/ n < m \/ m = n)
  BY <1>1
<1> DEFINE a == open[m]
           b == end(m)
           c == close[m]
           x == open[n]
           y == end(n)
           z == close[n]
<1>6. /\ a \in Nat /\ b \in Nat /\ c \in Nat /\ a <= b /\ b < c
      /\ x \in Nat /\ y \in Nat /\ z \in Nat /\ x <= y /\ y < z
      /\ m < n => b < x /\ (z + 3 < c \/ c + 3 < x)
      /\ n < m => y < a /\ (c + 3 < z \/ z + 3 < a)
      /\ InStart(N, open, m, i) <=> a <= i /\ i <= b
      /\ InStart(N, open, n, i) <=> x <= i /\ i <= y
      /\ InEnd(close, m, i) <=> c <= i /\ i <= c + 3
      /\ InEnd(close, n, i) <=> z <= i /\ i <= z + 3
  BY <1>2, <1>3, <1>4, <1>5
<1>7. CASE m = n
  <2>1. ~(InStart(N, open, m, i) /\ InEnd(close, m, i))
    <3> HIDE DEF a, b, c, x, y, z
    <3> QED
      BY <1>6
  <2> QED
    BY <1>7, <2>1
<1>8. CASE m < n
  <2> HIDE DEF a, b, c, x, y, z
  <2> QED
    BY <1>6, <1>8, TagsApart
<1>9. CASE n < m
  <2> HIDE DEF a, b, c, x, y, z
  <2> QED
    BY <1>6, <1>9, TagsApart
<1> QED
  BY <1>5, <1>7, <1>8, <1>9

\* What stands at a position that is no blank.
LEMMA Begins ==
  ASSUME NEW d \in Seq(STRING), NEW N, NEW open, NEW close, ListFacts(N), Placed(d, N, open, close),
         NEW i \in 1 .. Len(d), d[i] = "<"
  PROVE  \E n \in 1 .. Size(N) : i = open[n] \/ i = close[n]
<1>1. /\ DOMAIN N = 1 .. Size(N) /\ Len(d) \in Nat /\ DOMAIN d = 1 .. Len(d)
      /\ \A n \in 1 .. Size(N) :
           /\ open[n] \in Nat /\ close[n] \in Nat /\ Len(N[n].text) \in Nat
           /\ TextEnd(N, open, n) = open[n] + 2 + Len(N[n].text) /\ TextEnd(N, open, n) \in Nat
  BY PlacedFacts
<1>2. d[i] = Blank \/ \E n \in 1 .. Size(N) : i \in open[n] .. TextEnd(N, open, n) \/ i \in close[n] .. close[n] + 3
  BY <1>1 DEF Placed
<1>3. PICK n \in 1 .. Size(N) : i \in open[n] .. TextEnd(N, open, n) \/ i \in close[n] .. close[n] + 3
  BY <1>2 DEF Blank
<1>4. /\ d[open[n] + 1] = N[n].name /\ d[open[n] + 2] = ">"
      /\ d[close[n] + 1] = "/" /\ d[close[n] + 2] = N[n].name /\ d[close[n] + 3] = ">"
      /\ N[n].name \notin {"<", ">", "/", " "}
      /\ \A k \in 1 .. Len(N[n].text) :
           d[open[n] + 2 + k] = N[n].text[k] /\ N[n].text[k] \notin {"<", ">", "/"} /\ N[n].text[1] # " "
  <2>1. Tagged(d, N, open, close, n)
    BY <1>3, PlacedTags
  <2> QED
    BY <2>1 DEF Tagged
<1>5. open[n] \in Nat /\ close[n] \in Nat /\ Len(N[n].text) \in Nat /\ TextEnd(N, open, n) = open[n] + 2 + Len(N[n].text)
      /\ i \in Nat
  BY <1>1
<1> DEFINE a == open[n]
           c == close[n]
           l == Len(N[n].text)
<1>6. CASE i \in a .. TextEnd(N, open, n)
  <2>1. a \in Nat /\ l \in Nat /\ i \in Nat /\ a <= i /\ i <= a + 2 + l
    BY <1>5, <1>6
  <2>2. i # a => i # a + 1 /\ i # a + 2
    BY <1>4
  <2>3. ASSUME i # a
        PROVE  FALSE
    <3> HIDE DEF a, l
    <3>1. i - (a + 2) \in 1 .. l /\ i = a + 2 + (i - (a + 2))
      BY <2>1, <2>2, <2>3
    <3>2. \A k \in 1 .. l : d[a + 2 + k] # "<"
      BY <1>4 DEF a, l
    <3> QED
      BY <3>1, <3>2
  <2> QED
    BY <2>3
<1>7. CASE i \in c .. c + 3
  <2>1. c \in Nat /\ i \in Nat /\ c <= i /\ i <= c + 3
    BY <1>5, <1>7
  <2>2. i # c + 1 /\ i # c + 2 /\ i # c + 3
    BY <1>4
  <2>3. i = c
    <3> HIDE DEF c
    <3> QED
      BY <2>1, <2>2
  <2> QED
    BY <2>3
<1> QED
  BY <1>3, <1>6, <1>7

(***************************************************************************)
(* What the parser does with a character.                                  *)
(***************************************************************************)
\* One character leads to one handler, in each state: a letter,
LEMMA ReadsLetter ==
  ASSUME Parse, Input \notin {"<", ">", "/", " "}
  PROVE  Letter
BY DEF Parse, FirstTag, TagStart, BehindRoot, MisplacedStart, OpenNode, Overflow, CloseNode, Mismatch, MisplacedEnd,
       InTag, Slash, Space, Blank

\* a blank,
LEMMA ReadsBlank ==
  ASSUME Parse, Input = " "
  PROVE  Space
BY DEF Parse, FirstTag, TagStart, BehindRoot, MisplacedStart, OpenNode, Overflow, CloseNode, Mismatch, MisplacedEnd,
       InTag, Slash, Letter, Blank

\* a slash,
LEMMA ReadsSlash ==
  ASSUME Parse, Input = "/"
  PROVE  Slash
BY DEF Parse, FirstTag, TagStart, BehindRoot, MisplacedStart, OpenNode, Overflow, CloseNode, Mismatch, MisplacedEnd,
       InTag, Space, Letter, Blank, Special

\* the beginning of a tag,
LEMMA ReadsStart ==
  ASSUME Parse, Input = "<"
  PROVE  FirstTag \/ TagStart \/ BehindRoot \/ MisplacedStart
BY DEF Parse, OpenNode, Overflow, CloseNode, Mismatch, MisplacedEnd, InTag, Slash, Space, Letter, Blank, Special

\* or its end.
LEMMA ReadsEnd ==
  ASSUME Parse, Input = ">"
  PROVE  OpenNode \/ Overflow \/ CloseNode \/ Mismatch \/ MisplacedEnd
BY DEF Parse, FirstTag, TagStart, BehindRoot, MisplacedStart, Slash, Space, Letter, Blank, Special

(***************************************************************************)
(* How far the parser has come in a document that was written from a list. *)
(***************************************************************************)
Listing(N, open, close) == ListFacts(N) /\ Placed(doc, N, open, close)

\* The nodes are those of the start tags that have been read,
Counted(N, open) == \A n \in 1 .. Size(N) : n <= Len(nodes) <=> open[n] + 2 < pos

\* with the names and texts that were written.
Copied(N) ==
  \A n \in 1 .. Len(nodes) :
    /\ n \in 1 .. Size(N) /\ nodes[n].name = <<N[n].name>> /\ nodes[n].parent = N[n].parent
    /\ nodes[n].value # <<>> => nodes[n].value[1] = N[n].text
    /\ \A i \in 2 .. Len(nodes[n].value) : nodes[n].value[i] = <<>>

\* The stack holds the elements around the place that has been reached.
Around(open, close, n) == open[n] + 2 < pos /\ pos <= close[n] + 3

Nested(N, open, close) ==
  /\ \A n \in 1 .. Size(N) : Around(open, close, n) <=> \E i \in 1 .. Len(stack) : stack[i] = n
  /\ \A i, j \in 1 .. Len(stack) : i < j => stack[i] < stack[j]
  /\ root = IF nodes # <<>> /\ stack = <<>> THEN 1 ELSE 0

\* Every node has its text but the ones in S.
Filled(S) == \A n \in 1 .. Len(nodes) : n \notin S => nodes[n].value # <<>>

\* The parser is before the first tag,
AtStart == state = "START" /\ pos = 1 /\ nodes = <<>> /\ stack = <<>>

\* in the start tag of the next element,
InStartTag(N, open) ==
  LET n == Len(nodes) + 1 IN
  /\ n \in 1 .. Size(N) /\ Filled({})
  /\ \/ pos = open[n] + 1 /\ state = "TAG_START" /\ buffer = <<>>
     \/ pos = open[n] + 2 /\ state = "TAG_BODY" /\ buffer = <<N[n].name>>

\* in the end tag of the innermost one,
InEndTag(N, close) ==
  /\ stack # <<>> /\ Filled({})
  /\ \/ pos = close[Top] + 1 /\ state = "TAG_START" /\ buffer = <<>>
     \/ pos = close[Top] + 2 /\ state = "TAG_BODY" /\ buffer = <<"/">>
     \/ pos = close[Top] + 3 /\ state = "TAG_BODY" /\ buffer = <<"/", N[Top].name>>

\* in the text of an element, or right behind its start tag or its text,
InText(N, open) ==
  /\ stack # <<>> /\ Top = Len(nodes) /\ Filled({Top}) /\ nodes[Top].value = <<>>
  /\ LET t == pos - (open[Top] + 3) IN
       /\ t \in 0 .. Len(N[Top].text) /\ buffer = SubSeq(N[Top].text, 1, t)
       /\ state = IF t = 0 THEN "TAG_END" ELSE "VALUE"

\* What still belongs to the innermost element when the next tag begins.
Left(N) ==
  \/ Filled({}) /\ buffer = <<>>
  \/ stack # <<>> /\ Top = Len(nodes) /\ Filled({Top}) /\ nodes[Top].value = <<>> /\ buffer = N[Top].text

\* or among the blanks between two tags.
InBlanks(N, open, close) ==
  /\ nodes # <<>> /\ buffer = <<>> /\ state = "TAG_END" /\ Left(N)
  /\ \A n \in 1 .. Len(nodes) : TextEnd(N, open, n) < pos
  /\ \A n \in 1 .. Size(N) : pos \notin open[n] + 1 .. open[n] + 2 /\ pos \notin close[n] + 1 .. close[n] + 3

Somewhere(N, open, close) ==
  AtStart \/ InStartTag(N, open) \/ InEndTag(N, close) \/ InText(N, open) \/ InBlanks(N, open, close)

Progress(N, open, close) ==
  /\ ret = "OK" /\ Counted(N, open) /\ Copied(N) /\ Nested(N, open, close) /\ Somewhere(N, open, close)

\* The numbers behind the places of the elements.
Spread(N, open, close) ==
  /\ Size(N) \in Nat /\ Size(N) >= 2 /\ Len(doc) \in Nat /\ pos \in Nat /\ pos >= 1 /\ pos <= Len(doc) + 1
  /\ Len(nodes) \in Nat /\ Len(stack) \in Nat /\ open[1] = 1
  /\ \A n \in 1 .. Size(N) :
       /\ open[n] \in Nat /\ open[n] >= 1 /\ close[n] \in Nat /\ Len(N[n].text) \in Nat
       /\ TextEnd(N, open, n) = open[n] + 2 + Len(N[n].text) /\ TextEnd(N, open, n) \in Nat
       /\ TextEnd(N, open, n) < close[n] /\ close[n] + 3 <= Len(doc)
       /\ open[n] + 2 < close[n] /\ open[n] + 2 <= TextEnd(N, open, n)
  /\ \A m, n \in 1 .. Size(N) : m < n =>
       /\ TextEnd(N, open, m) < open[n] /\ open[m] + 2 < open[n] /\ N[m].last \in Nat
       /\ n <= N[m].last => close[n] + 3 < close[m]
       /\ n > N[m].last => close[m] + 3 < open[n]

\* What is known of a document that was written from a list.
LEMMA ListingFacts ==
  ASSUME ParserInv, NEW N, NEW open, NEW close, Listing(N, open, close)
  PROVE  Spread(N, open, close) /\ doc \in Seq(STRING) /\ ListFacts(N) /\ Placed(doc, N, open, close)
<1>1. doc \in Seq(STRING) /\ ListFacts(N) /\ Placed(doc, N, open, close)
  BY DEF ParserInv, ParserTypeOK, Listing
<1>2. Len(doc) \in Nat /\ pos \in 1 .. Len(doc) + 1 /\ Len(nodes) \in Nat /\ Len(stack) \in Nat
  <2>1. pos \in 1 .. Len(doc) + 1 /\ nodes \in Seq(Node) /\ stack \in Seq(1 .. Len(nodes))
    BY DEF ParserInv, ParserTypeOK
  <2> QED
    BY <1>1, <2>1
<1>3. pos \in Nat /\ pos >= 1 /\ pos <= Len(doc) + 1
  BY <1>2
<1>4. /\ Size(N) \in Nat /\ Size(N) >= 2 /\ open[1] = 1
      /\ \A n \in 1 .. Size(N) :
           /\ open[n] \in Nat /\ open[n] >= 1 /\ close[n] \in Nat /\ Len(N[n].text) \in Nat
           /\ TextEnd(N, open, n) = open[n] + 2 + Len(N[n].text) /\ TextEnd(N, open, n) \in Nat
           /\ TextEnd(N, open, n) < close[n] /\ close[n] + 3 <= Len(doc)
      /\ \A m, n \in 1 .. Size(N) : m < n =>
           /\ TextEnd(N, open, m) < open[n] /\ N[m].last \in Nat
           /\ n <= N[m].last => close[n] + 3 < close[m]
           /\ n > N[m].last => close[m] + 3 < open[n]
  BY <1>1, PlacedFacts
<1>5. ASSUME NEW n \in 1 .. Size(N)
      PROVE  open[n] + 2 < close[n] /\ open[n] + 2 <= TextEnd(N, open, n)
  <2> DEFINE a == open[n]
             c == close[n]
             l == Len(N[n].text)
             e == TextEnd(N, open, n)
  <2>1. a \in Nat /\ c \in Nat /\ l \in Nat /\ e \in Nat /\ e = a + 2 + l /\ e < c
    BY <1>4
  <2>2. a + 2 < c /\ a + 2 <= e
    <3> HIDE DEF a, c, l, e
    <3> QED
      BY <2>1
  <2> QED
    BY <2>2
<1>6. ASSUME NEW m \in 1 .. Size(N), NEW n \in 1 .. Size(N), m < n
      PROVE  open[m] + 2 < open[n]
  <2>1. open[m] \in Nat /\ open[n] \in Nat /\ TextEnd(N, open, m) \in Nat /\ TextEnd(N, open, m) < open[n]
        /\ open[m] + 2 <= TextEnd(N, open, m)
    BY <1>4, <1>5, <1>6
  <2> QED
    BY <2>1
<1> QED
  BY <1>1, <1>2, <1>3, <1>4, <1>5, <1>6 DEF Spread

\* A character that is no end of a tag changes neither the count nor the stack.
LEMMA QuietStays ==
  ASSUME ParserInv, NEW N, NEW open, NEW close, Listing(N, open, close), Reading, Input # ">",
         Counted(N, open), Nested(N, open, close),
         pos' = pos + 1, Len(nodes') = Len(nodes), nodes' = <<>> <=> nodes = <<>>, UNCHANGED <<stack, root>>
  PROVE  Counted(N, open)' /\ Nested(N, open, close)'
<1>1. Spread(N, open, close) /\ doc \in Seq(STRING) /\ ListFacts(N) /\ Placed(doc, N, open, close)
  BY ListingFacts
<1>2. ASSUME NEW n \in 1 .. Size(N)
      PROVE  /\ open[n] \in Nat /\ close[n] \in Nat /\ pos \in Nat /\ pos # open[n] + 2 /\ pos # close[n] + 3
  <2>1. Tagged(doc, N, open, close, n)
    BY <1>1, PlacedTags
  <2>2. doc[open[n] + 2] = ">" /\ doc[close[n] + 3] = ">"
    BY <2>1 DEF Tagged
  <2> QED
    BY <1>1, <2>2 DEF Spread, Input
<1>3. ASSUME NEW n \in 1 .. Size(N)
      PROVE  (open[n] + 2 < pos <=> open[n] + 2 < pos') /\ (pos <= close[n] + 3 <=> pos' <= close[n] + 3)
  BY <1>2
<1>4. Counted(N, open)'
  BY <1>3 DEF Counted
<1>5. Nested(N, open, close)'
  BY <1>3 DEF Nested, Around
<1> QED
  BY <1>4, <1>5

\* The innermost open node is the last one on the stack and has the greatest number.
LEMMA TopIsLast ==
  ASSUME ParserInv, NEW N, NEW open, NEW close, Nested(N, open, close), stack # <<>>
  PROVE  /\ Top \in 1 .. Len(nodes) /\ Top \in Nat /\ Len(stack) \in 1 .. Len(stack) /\ Top = stack[Len(stack)]
         /\ Len(stack) \in Nat /\ Len(nodes) \in Nat
         /\ \A i \in 1 .. Len(stack) : stack[i] \in Nat /\ stack[i] <= Top
<1>1. ParserTypeOK /\ stack \in Seq(1 .. Len(nodes))
  BY DEF ParserInv, ParserTypeOK
<1>2. Top \in 1 .. Len(nodes) /\ Len(stack) \in Nat \ {0} /\ Len(nodes) \in Nat
  BY <1>1, TopIsNode
<1>3. ASSUME NEW i \in 1 .. Len(stack)
      PROVE  stack[i] \in Nat /\ stack[i] <= Top
  <2>1. stack[i] \in 1 .. Len(nodes)
    BY <1>1, <1>2
  <2>2. i < Len(stack) \/ i = Len(stack)
    BY <1>2
  <2>3. Len(stack) \in 1 .. Len(stack)
    BY <1>2
  <2>4. i < Len(stack) => stack[i] < stack[Len(stack)]
    BY <2>3 DEF Nested
  <2> QED
    BY <1>2, <2>1, <2>2, <2>4 DEF Top
<1> QED
  BY <1>2, <1>3 DEF Top

\* There are never more nodes than entries in the list.
LEMMA CopiedCount ==
  ASSUME ParserInv, NEW N, NEW open, NEW close, Listing(N, open, close), Copied(N)
  PROVE  Len(nodes) \in Nat /\ Len(nodes) <= Size(N) /\ \A n \in 1 .. Len(nodes) : n \in 1 .. Size(N) /\ n \in Nat
<1>1. Spread(N, open, close)
  BY ListingFacts
<1>2. Len(nodes) \in Nat /\ Size(N) \in Nat
  BY <1>1 DEF Spread
<1>3. \A n \in 1 .. Len(nodes) : n \in 1 .. Size(N)
  BY DEF Copied
<1>4. Len(nodes) # 0 => Len(nodes) \in 1 .. Len(nodes)
  BY <1>2
<1> QED
  BY <1>2, <1>3, <1>4

\* The element that begins is the next one,
LEMMA NextBegins ==
  ASSUME ParserInv, NEW N, NEW open, NEW close, Listing(N, open, close), Counted(N, open), Copied(N),
         NEW n \in 1 .. Size(N), pos = open[n]
  PROVE  n = Len(nodes) + 1
<1>1. Spread(N, open, close)
  BY ListingFacts
<1>2. Len(nodes) \in Nat /\ Size(N) \in Nat /\ open[n] \in Nat
  BY <1>1 DEF Spread
<1>3. ~(n <= Len(nodes))
  BY <1>2 DEF Counted
<1>4. ASSUME n # 1
      PROVE  n - 1 <= Len(nodes)
  <2>1. PICK m \in 1 .. Size(N) : m = n - 1 /\ m < n
    BY <1>2, <1>4
  <2>2. open[m] + 2 < open[n]
    BY <1>1, <2>1 DEF Spread
  <2>3. open[m] + 2 < pos
    BY <2>2
  <2> QED
    BY <2>1, <2>3 DEF Counted
<1> QED
  BY <1>2, <1>3, <1>4

\* and the one that ends is the innermost one.
LEMMA TopCloses ==
  ASSUME ParserInv, NEW N, NEW open, NEW close, Listing(N, open, close), Nested(N, open, close), Copied(N),
         NEW n \in 1 .. Size(N), pos = close[n]
  PROVE  stack # <<>> /\ n = Top
<1>1. Spread(N, open, close)
  BY ListingFacts
<1>2. /\ open[n] \in Nat /\ close[n] \in Nat /\ Len(N[n].text) \in Nat /\ Len(stack) \in Nat
      /\ open[n] + 2 < close[n]
  BY <1>1 DEF Spread
<1>3. Around(open, close, n)
  BY <1>2 DEF Around
<1>4. PICK i \in 1 .. Len(stack) : stack[i] = n
  BY <1>3 DEF Nested
<1>5. stack # <<>>
  <2>1. Len(stack) # 0
    BY <1>2, <1>4
  <2> QED
    BY <2>1
<1>6. /\ Top \in 1 .. Len(nodes) /\ Top \in Nat /\ Len(stack) \in 1 .. Len(stack) /\ Top = stack[Len(stack)]
      /\ \A k \in 1 .. Len(stack) : stack[k] \in Nat /\ stack[k] <= Top
  BY <1>5, TopIsLast
<1>7. Top \in 1 .. Size(N)
  BY <1>6, CopiedCount
<1>8. Around(open, close, Top)
  BY <1>6, <1>7 DEF Nested
<1>9. ASSUME n < Top
      PROVE  FALSE
  <2>1. /\ open[Top] \in Nat /\ close[Top] \in Nat
        /\ N[n].last \in Nat
        /\ Top <= N[n].last => close[Top] + 3 < close[n]
        /\ Top > N[n].last => close[n] + 3 < open[Top]
    BY <1>1, <1>7, <1>9 DEF Spread
  <2>2. open[Top] + 2 < close[n] /\ close[n] <= close[Top] + 3
    BY <1>8 DEF Around
  <2>3. CASE Top <= N[n].last
    BY <1>2, <2>1, <2>2, <2>3
  <2>4. CASE Top > N[n].last
    BY <1>2, <2>1, <2>2, <2>4
  <2>5. Top <= N[n].last \/ Top > N[n].last
    BY <1>6, <2>1
  <2> QED
    BY <2>3, <2>4, <2>5
<1>10. n <= Top
  BY <1>4, <1>6
<1> QED
  BY <1>5, <1>6, <1>9, <1>10

\* An element is opened inside the one it was written into.
LEMMA ParentIsTop ==
  ASSUME ParserInv, NEW N, NEW open, NEW close, Listing(N, open, close), Nested(N, open, close), Counted(N, open), Copied(N),
         NEW q \in 1 .. Size(N), q = Len(nodes) + 1, pos \in open[q] .. open[q] + 2
  PROVE  /\ q # 1 => stack # <<>> /\ N[q].parent = Top
         /\ q = 1 => stack = <<>>
<1>1. Spread(N, open, close) /\ ListFacts(N)
  BY ListingFacts
<1>2. /\ open[q] \in Nat /\ close[q] \in Nat /\ Len(N[q].text) \in Nat /\ Len(stack) \in Nat /\ Len(nodes) \in Nat
      /\ TextEnd(N, open, q) = open[q] + 2 + Len(N[q].text) /\ TextEnd(N, open, q) < close[q] /\ pos \in Nat
      /\ Size(N) \in Nat
  BY <1>1 DEF Spread
<1>3. CASE q = 1
  <2>1. Len(nodes) = 0
    BY <1>2, <1>3
  <2>2. stack \in Seq(1 .. Len(nodes))
    BY DEF ParserInv, ParserTypeOK
  <2>3. stack = <<>>
    <3>1. Len(stack) # 0 => stack[1] \in 1 .. Len(nodes)
      BY <1>2, <2>2
    <3> QED
      BY <2>1, <2>2, <3>1
  <2> QED
    BY <1>3, <2>3
<1>4. CASE q # 1
  <2> DEFINE p == N[q].parent
  <2>1. p \in 1 .. Size(N) /\ p < q /\ p \in Nat /\ q <= N[p].last
    <3>1. p \in 0 .. q - 1 /\ p # 0 /\ q <= N[p].last
      BY <1>1, <1>4 DEF ListFacts
    <3> HIDE DEF p
    <3> QED
      BY <1>2, <3>1
  <2>2. open[p] \in Nat /\ close[p] \in Nat /\ open[p] + 2 < open[q] /\ close[q] + 3 < close[p]
    <3> HIDE DEF p
    <3> QED
      BY <1>1, <2>1 DEF Spread
  <2>3. Around(open, close, p)
    <3> HIDE DEF p
    <3>1. open[q] <= pos /\ pos <= open[q] + 2 /\ open[q] + 2 < close[q]
      BY <1>1, <1>2 DEF Spread
    <3> DEFINE a == open[p]
               b == open[q]
               c == close[q]
               d == close[p]
    <3>4. /\ a \in Nat /\ b \in Nat /\ c \in Nat /\ d \in Nat /\ pos \in Nat /\ a + 2 < b /\ c + 3 < d
          /\ b <= pos /\ pos <= b + 2 /\ b + 2 < c
      BY <1>2, <2>2, <3>1
    <3>5. a + 2 < pos /\ pos <= d + 3
      <4> HIDE DEF a, b, c, d
      <4> QED
        BY <3>4
    <3>2. open[p] + 2 < pos
      BY <3>5
    <3>3. pos <= close[p] + 3
      BY <3>5
    <3> QED
      BY <3>2, <3>3 DEF Around
  <2>4. PICK i \in 1 .. Len(stack) : stack[i] = p
    BY <2>1, <2>3 DEF Nested
  <2>5. stack # <<>>
    <3>1. Len(stack) # 0
      BY <1>2, <2>4
    <3> QED
      BY <3>1
  <2>6. /\ Top \in 1 .. Len(nodes) /\ Top \in Nat /\ Len(stack) \in 1 .. Len(stack) /\ Top = stack[Len(stack)]
        /\ \A k \in 1 .. Len(stack) : stack[k] \in Nat /\ stack[k] <= Top
    BY <2>5, TopIsLast
  <2>7. Top \in 1 .. Size(N)
    BY <2>6, CopiedCount
  <2>8. Around(open, close, Top)
    BY <2>6, <2>7 DEF Nested
  <2>9. Top < q
    BY <1>2, <2>6
  <2>10. q <= N[Top].last
    <3>1. /\ N[Top].last \in Nat /\ close[Top] \in Nat
          /\ q > N[Top].last => close[Top] + 3 < open[q]
      BY <1>1, <2>7, <2>9 DEF Spread
    <3>2. pos <= close[Top] + 3 /\ open[q] <= pos
      BY <1>2, <2>8 DEF Around
    <3>3. ~(close[Top] + 3 < open[q])
      BY <1>2, <3>1, <3>2
    <3>4. q \in Nat
      BY <1>2
    <3> QED
      BY <3>1, <3>3, <3>4
  <2>11. Top <= p
    BY <1>1, <2>7, <2>9, <2>10 DEF ListFacts
  <2>12. p <= Top
    BY <2>4, <2>6
  <2>13. p = Top
    <3> HIDE DEF p
    <3> QED
      BY <2>1, <2>6, <2>11, <2>12
  <2> QED
    BY <1>4, <2>5, <2>13
<1> QED
  BY <1>3, <1>4

\* The elements are four deep.
LEMMA Shallow ==
  ASSUME ParserInv, NEW N, NEW open, NEW close, Listing(N, open, close), Nested(N, open, close), Counted(N, open), Copied(N),
         NEW q \in 1 .. Size(N), q = Len(nodes) + 1, pos \in open[q] .. open[q] + 2
  PROVE  Len(stack) \in Nat /\ Len(stack) <= 3
<1>1. Spread(N, open, close) /\ ListFacts(N)
  BY ListingFacts
<1>2. Len(stack) \in Nat /\ stack \in Seq(1 .. Len(nodes)) /\ Len(nodes) \in Nat
  BY <1>1 DEF Spread, ParserInv, ParserTypeOK
<1>3. ASSUME Len(stack) >= 4
      PROVE  FALSE
  <2> DEFINE l == Len(stack)
  <2>1. l \in 2 .. l /\ l \in 1 .. l /\ l - 1 \in 1 .. l /\ {1, 2, 3} \subseteq 1 .. l /\ stack # <<>>
    BY <1>2, <1>3
  <2>2. q # 1
    <3>1. stack # <<>>
      BY <2>1
    <3> QED
      BY <3>1, ParentIsTop
  <2>3. N[q].parent = Top /\ Top = stack[l]
    BY <2>1, <2>2, ParentIsTop DEF Top
  <2>4. \A k \in 1 .. l : stack[k] \in 1 .. Len(nodes) /\ stack[k] \in Nat
    BY <1>2
  <2>5. stack[1] < stack[2] /\ stack[2] < stack[3]
    BY <2>1 DEF Nested
  <2>6. stack[3] <= stack[l - 1] /\ stack[l - 1] < stack[l]
    <3>1. l \in Nat /\ l >= 4
      BY <1>2, <1>3
    <3> HIDE DEF l
    <3>5. l - 1 < l /\ (l # 4 => 3 < l - 1) /\ (l = 4 => 3 = l - 1)
      BY <3>1
    <3>2. stack[l - 1] < stack[l]
      BY <2>1, <3>5 DEF Nested, l
    <3>3. 3 < l - 1 => stack[3] < stack[l - 1]
      BY <2>1 DEF Nested, l
    <3>4. stack[3] \in Nat /\ stack[l - 1] \in Nat
      BY <2>1, <2>4
    <3>6. l = 4 => stack[3] = stack[l - 1]
      BY <3>5
    <3>7. l # 4 => stack[3] < stack[l - 1]
      BY <3>3, <3>5
    <3>8. stack[3] <= stack[l - 1]
      BY <3>4, <3>6, <3>7
    <3> QED
      BY <3>2, <3>8
  <2>7. stack[1] >= 1 /\ stack[1] \in Nat /\ stack[2] \in Nat /\ stack[3] \in Nat /\ stack[l - 1] \in Nat /\ stack[l] \in Nat
    <3>1. 1 \in 1 .. l /\ 2 \in 1 .. l /\ 3 \in 1 .. l /\ l - 1 \in 1 .. l /\ l \in 1 .. l
      BY <2>1
    <3>2. stack[1] \in 1 .. Len(nodes)
      BY <2>4, <3>1
    <3> HIDE DEF l
    <3>3. stack[1] >= 1
      BY <1>2, <3>2
    <3> QED
      BY <2>4, <3>1, <3>3
  <2>8. stack[l - 1] > 2 /\ stack[l] > 2
    <3> DEFINE a == stack[1]
               b == stack[2]
               c == stack[3]
               e == stack[l - 1]
               f == stack[l]
    <3>1. a < b /\ b < c /\ c <= e /\ e < f /\ a >= 1
      BY <2>5, <2>6, <2>7
    <3>2. a \in Nat /\ b \in Nat /\ c \in Nat /\ e \in Nat /\ f \in Nat
      BY <2>7
    <3> HIDE DEF a, b, c, e, f
    <3>3. e > 2 /\ f > 2
      BY <3>1, <3>2
    <3> QED
      BY <3>3 DEF e, f
  <2>9. N[Top].parent = 2
    BY <1>1, <2>3, <2>8 DEF ListFacts
  <2>10. nodes[stack[l]].parent = stack[l - 1]
    BY <2>1 DEF ParserInv, StackIsPath
  <2>11. nodes[stack[l]].parent = N[stack[l]].parent
    BY <2>1, <2>4 DEF Copied
  <2> QED
    BY <2>3, <2>7, <2>8, <2>9, <2>10, <2>11
<1> QED
  BY <1>2, <1>3

(***************************************************************************)
(* The steps of the parser through such a document.                        *)
(***************************************************************************)
\* A character that is put into the buffer is its last one.
LEMMA PutStores ==
  ASSUME NEW s, Put(s), s # "ERROR", Len(buffer) + 1 < Len(doc)
  PROVE  /\ buffer' = Append(buffer, Input) /\ state' = s /\ ret' = "OK" /\ pos' = pos + 1 /\ doc' = doc
         /\ UNCHANGED <<nodes, stack, root>>
BY DEF Put, Goes

\* A buffer of one or two characters.
LEMMA AppendShort ==
  ASSUME NEW x, NEW y
  PROVE  Append(<<>>, y) = <<y>> /\ Append(<<x>>, y) = <<x, y>>
<1>1. Append(<<>>, y) = <<y>>
  OBVIOUS
<1> DEFINE S == {x, y}
           a == Append(<<x>>, y)
           b == <<x, y>>
<1>2. <<x>> \in Seq(S) /\ Len(<<x>>) = 1 /\ <<x>>[1] = x /\ y \in S /\ b \in Seq(S) /\ Len(b) = 2 /\ b[1] = x /\ b[2] = y
  OBVIOUS
<1>3. a \in Seq(S) /\ Len(a) = 2 /\ a[1] = x /\ a[2] = y
  <2> HIDE DEF S
  <2> QED
    BY <1>2, AppendProperties
<1>4. a = b
  <2> HIDE DEF a, b, S
  <2>1. \A i \in 1 .. 2 : a[i] = b[i]
    BY <1>2, <1>3
  <2> QED
    BY <1>2, <1>3, <2>1, SeqEqual
<1> QED
  BY <1>1, <1>4

\* There is at least one element, and room for its tags.
LEMMA LongDocument ==
  ASSUME ParserInv, NEW N, NEW open, NEW close, Listing(N, open, close)
  PROVE  Len(doc) \in Nat /\ Len(doc) >= 7 /\ 1 \in 1 .. Size(N)
<1>1. Spread(N, open, close)
  BY ListingFacts
<1>2. 1 \in 1 .. Size(N)
  BY <1>1 DEF Spread
<1>3. /\ open[1] \in Nat /\ open[1] >= 1 /\ close[1] \in Nat /\ open[1] + 2 < close[1] /\ close[1] + 3 <= Len(doc)
      /\ Len(doc) \in Nat
  BY <1>1, <1>2 DEF Spread
<1> QED
  BY <1>2, <1>3

\* A character inside a tag, a text or between tags that leaves the nodes alone.
LEMMA QuietProgress ==
  ASSUME ParserInv, NEW N, NEW open, NEW close, Listing(N, open, close), Progress(N, open, close), Reading,
         Input # ">", pos' = pos + 1, ret' = "OK", UNCHANGED <<nodes, stack, root>>, Somewhere(N, open, close)'
  PROVE  Progress(N, open, close)'
<1>1. Counted(N, open) /\ Copied(N) /\ Nested(N, open, close)
  BY DEF Progress
<1>2. Counted(N, open)' /\ Nested(N, open, close)'
  BY <1>1, QuietStays
<1>3. Copied(N)'
  BY <1>1 DEF Copied
<1> QED
  BY <1>2, <1>3 DEF Progress

\* In front of the first tag there is only that tag.
LEMMA AtStartStep ==
  ASSUME ParserInv, NEW N, NEW open, NEW close, Listing(N, open, close), Progress(N, open, close), Reading, Parse,
         AtStart
  PROVE  Progress(N, open, close)'
<1>1. Spread(N, open, close) /\ doc \in Seq(STRING) /\ ListFacts(N) /\ Placed(doc, N, open, close)
  BY ListingFacts
<1>2. 1 \in 1 .. Size(N)
  BY LongDocument
<1>3. Tagged(doc, N, open, close, 1)
  BY <1>1, <1>2, PlacedTags
<1>4. Input = "<"
  BY <1>1, <1>3 DEF Input, AtStart, Spread, Tagged
<1>5. FirstTag
  BY <1>4, ReadsStart DEF AtStart, TagStart, BehindRoot, MisplacedStart
<1>6. state' = "TAG_START" /\ ret' = "OK" /\ pos' = pos + 1 /\ buffer' = <<>> /\ UNCHANGED <<nodes, stack, root>>
  BY <1>5 DEF FirstTag, Goes
<1>7. InStartTag(N, open)'
  <2>1. Len(nodes) = 0 /\ nodes' = nodes /\ pos' = open[1] + 1
    BY <1>1, <1>6 DEF AtStart, Spread
  <2>2. Filled({})'
    BY <2>1 DEF Filled
  <2>3. Len(nodes') + 1 = 1
    BY <2>1
  <2> QED
    BY <1>2, <1>6, <2>1, <2>2, <2>3 DEF InStartTag
<1>8. Somewhere(N, open, close)'
  BY <1>7 DEF Somewhere
<1> QED
  BY <1>4, <1>6, <1>8, QuietProgress

\* The name in a start tag is read,
LEMMA NameStep ==
  ASSUME ParserInv, NEW N, NEW open, NEW close, Listing(N, open, close), Progress(N, open, close), Reading, Parse,
         InStartTag(N, open), state = "TAG_START"
  PROVE  Progress(N, open, close)'
<1> DEFINE q == Len(nodes) + 1
<1>1. Spread(N, open, close) /\ doc \in Seq(STRING) /\ ListFacts(N) /\ Placed(doc, N, open, close)
  BY ListingFacts
<1>2. q \in 1 .. Size(N) /\ Filled({}) /\ pos = open[q] + 1 /\ buffer = <<>>
  BY DEF InStartTag
<1> HIDE DEF q
<1>3. Tagged(doc, N, open, close, q)
  BY <1>1, <1>2, PlacedTags
<1>4. Input = N[q].name /\ N[q].name \notin {"<", ">", "/", " "}
  BY <1>2, <1>3 DEF Input, Tagged
<1>5. Put("TAG_BODY")
  BY <1>4, ReadsLetter DEF Letter
<1>6. Len(buffer) + 1 < Len(doc)
  BY <1>2, LongDocument
<1>7. /\ buffer' = <<N[q].name>> /\ state' = "TAG_BODY" /\ ret' = "OK" /\ pos' = pos + 1
      /\ nodes' = nodes /\ UNCHANGED <<stack, root>>
  <2>1. Append(buffer, Input) = <<Input>>
    BY <1>2, AppendShort
  <2> QED
    BY <1>4, <1>5, <1>6, <2>1, PutStores
<1>8. InStartTag(N, open)'
  <2>1. pos' = open[q] + 2
    <3>1. open[q] \in Nat
      BY <1>1, <1>2 DEF Spread
    <3> QED
      BY <1>2, <1>7, <3>1
  <2>2. Filled({})' /\ q = Len(nodes') + 1
    BY <1>2, <1>7 DEF Filled, q
  <2> QED
    BY <1>2, <1>7, <2>1, <2>2 DEF InStartTag
<1>9. Somewhere(N, open, close)'
  BY <1>8 DEF Somewhere
<1> QED
  BY <1>4, <1>7, <1>9, QuietProgress

\* and so is the slash in an end tag,
LEMMA SlashStep ==
  ASSUME ParserInv, NEW N, NEW open, NEW close, Listing(N, open, close), Progress(N, open, close), Reading, Parse,
         InEndTag(N, close), state = "TAG_START"
  PROVE  Progress(N, open, close)'
<1>1. Spread(N, open, close) /\ doc \in Seq(STRING) /\ ListFacts(N) /\ Placed(doc, N, open, close)
  BY ListingFacts
<1>2. stack # <<>> /\ Filled({}) /\ pos = close[Top] + 1 /\ buffer = <<>>
  BY DEF InEndTag
<1>3. Top \in 1 .. Size(N)
  <2>1. Top \in 1 .. Len(nodes)
    BY <1>2, TopIsNode DEF ParserInv
  <2> QED
    BY <2>1 DEF Progress, Copied
<1>4. Tagged(doc, N, open, close, Top)
  BY <1>1, <1>3, PlacedTags
<1>5. Input = "/"
  BY <1>2, <1>4 DEF Input, Tagged
<1>6. Put("TAG_BODY")
  BY <1>5, ReadsSlash DEF Slash
<1>7. Len(buffer) + 1 < Len(doc)
  BY <1>2, LongDocument
<1>8. /\ buffer' = <<"/">> /\ state' = "TAG_BODY" /\ ret' = "OK" /\ pos' = pos + 1
      /\ nodes' = nodes /\ stack' = stack /\ root' = root
  <2>1. Append(buffer, Input) = <<Input>>
    BY <1>2, AppendShort
  <2> QED
    BY <1>5, <1>6, <1>7, <2>1, PutStores
<1>9. InEndTag(N, close)'
  <2>1. pos' = close[Top] + 2
    <3>1. close[Top] \in Nat
      BY <1>1, <1>3 DEF Spread
    <3> QED
      BY <1>2, <1>8, <3>1
  <2>2. Filled({})' /\ Top' = Top
    BY <1>2, <1>8 DEF Filled, Top
  <2> QED
    BY <1>2, <1>8, <2>1, <2>2 DEF InEndTag
<1>10. Somewhere(N, open, close)'
  BY <1>9 DEF Somewhere
<1> QED
  BY <1>5, <1>8, <1>10, QuietProgress

\* and the name behind it.
LEMMA EndNameStep ==
  ASSUME ParserInv, NEW N, NEW open, NEW close, Listing(N, open, close), Progress(N, open, close), Reading, Parse,
         InEndTag(N, close), buffer = <<"/">>
  PROVE  Progress(N, open, close)'
<1>1. Spread(N, open, close) /\ doc \in Seq(STRING) /\ ListFacts(N) /\ Placed(doc, N, open, close)
  BY ListingFacts
<1>2. stack # <<>> /\ Filled({}) /\ pos = close[Top] + 2 /\ state = "TAG_BODY"
  <2>1. buffer # <<>> /\ buffer # <<"/", N[Top].name>>
    <3>1. Len(buffer) = 1 /\ Len(<<"/", N[Top].name>>) = 2 /\ Len(<<>>) = 0
      OBVIOUS
    <3> QED
      BY <3>1
  <2> QED
    BY <2>1 DEF InEndTag
<1>3. Top \in 1 .. Size(N)
  <2>1. Top \in 1 .. Len(nodes)
    BY <1>2, TopIsNode DEF ParserInv
  <2> QED
    BY <2>1 DEF Progress, Copied
<1>4. Tagged(doc, N, open, close, Top)
  BY <1>1, <1>3, PlacedTags
<1>5. Input = N[Top].name /\ N[Top].name \notin {"<", ">", "/", " "}
  BY <1>2, <1>4 DEF Input, Tagged
<1>6. Put("TAG_BODY")
  BY <1>2, <1>5, ReadsLetter DEF Letter
<1>7. Len(buffer) + 1 < Len(doc)
  <2>1. Len(buffer) = 1
    OBVIOUS
  <2> QED
    BY <2>1, LongDocument
<1>8. /\ buffer' = <<"/", N[Top].name>> /\ state' = "TAG_BODY" /\ ret' = "OK" /\ pos' = pos + 1
      /\ nodes' = nodes /\ stack' = stack /\ root' = root
  <2>1. Append(<<"/">>, Input) = <<"/", Input>>
    BY AppendShort
  <2> QED
    BY <1>5, <1>6, <1>7, <2>1, PutStores
<1>9. InEndTag(N, close)'
  <2>1. pos' = close[Top] + 3
    <3>1. close[Top] \in Nat
      BY <1>1, <1>3 DEF Spread
    <3> QED
      BY <1>2, <1>8, <3>1
  <2>2. Filled({})' /\ Top' = Top
    BY <1>2, <1>8 DEF Filled, Top
  <2> QED
    BY <1>2, <1>8, <2>1, <2>2 DEF InEndTag
<1>10. Somewhere(N, open, close)'
  BY <1>9 DEF Somewhere
<1> QED
  BY <1>5, <1>8, <1>10, QuietProgress

\* One more character of a text.
LEMMA TextGrows ==
  ASSUME NEW s \in Seq(STRING), NEW t \in Nat, t < Len(s)
  PROVE  /\ Append(SubSeq(s, 1, t), s[t + 1]) = SubSeq(s, 1, t + 1)
         /\ Len(SubSeq(s, 1, t)) = t
<1>1. Len(s) \in Nat /\ t + 1 \in 1 .. Len(s) /\ 1 \in Int /\ t \in Int
  OBVIOUS
<1>2. \A i \in 1 .. t : s[i] \in STRING
  BY <1>1
<1>3. /\ SubSeq(s, 1, t) \in Seq(STRING)
      /\ Len(SubSeq(s, 1, t)) = IF 1 <= t THEN t - 1 + 1 ELSE 0
  BY <1>1, <1>2, SubSeqProperties
<1>4. SubSeq(s, 1, t + 1) = SubSeq(s, 1, t + 1 - 1) \o <<s[t + 1]>>
  BY <1>1, SubSeqRecursiveSecond
<1>5. t + 1 - 1 = t
  OBVIOUS
<1>6. Append(SubSeq(s, 1, t), s[t + 1]) = SubSeq(s, 1, t) \o <<s[t + 1]>>
  <2>1. s[t + 1] \in STRING
    BY <1>1
  <2> QED
    BY <1>3, <2>1, AppendIsConcat
<1> QED
  BY <1>3, <1>4, <1>5, <1>6

\* A text is read to its end, whatever it is made of.
LEMMA TextStep ==
  ASSUME ParserInv, NEW N, NEW open, NEW close, Listing(N, open, close), Progress(N, open, close), Reading, Parse,
         InText(N, open), pos - (open[Top] + 3) < Len(N[Top].text)
  PROVE  Progress(N, open, close)'
<1> DEFINE t == pos - (open[Top] + 3)
           text == N[Top].text
<1>1. Spread(N, open, close) /\ doc \in Seq(STRING) /\ ListFacts(N) /\ Placed(doc, N, open, close)
  BY ListingFacts
<1>2. /\ stack # <<>> /\ Top = Len(nodes) /\ Filled({Top}) /\ nodes[Top].value = <<>>
      /\ t \in 0 .. Len(text) /\ buffer = SubSeq(text, 1, t) /\ state = IF t = 0 THEN "TAG_END" ELSE "VALUE"
  BY DEF InText
<1>3. Top \in 1 .. Size(N)
  <2>1. Top \in 1 .. Len(nodes)
    BY <1>2, TopIsNode DEF ParserInv
  <2> QED
    BY <2>1 DEF Progress, Copied
<1>4. Tagged(doc, N, open, close, Top)
  BY <1>1, <1>3, PlacedTags
<1>5. /\ open[Top] \in Nat /\ close[Top] \in Nat /\ Len(text) \in Nat /\ pos \in Nat /\ text \in Seq(STRING)
      /\ TextEnd(N, open, Top) = open[Top] + 2 + Len(text) /\ TextEnd(N, open, Top) < close[Top]
      /\ TextEnd(N, open, Top) \in Nat /\ close[Top] + 3 <= Len(doc) /\ Len(doc) \in Nat /\ open[Top] >= 1
  BY <1>1, <1>3, <1>4 DEF Spread, Tagged
<1>6. t \in Nat /\ t < Len(text) /\ t + 1 \in 1 .. Len(text) /\ pos = open[Top] + 2 + (t + 1)
  <2>1. t \in 0 .. Len(text) /\ t < Len(text) /\ Len(text) \in Nat
    BY <1>2, <1>5
  <2>2. t \in Nat /\ t + 1 \in 1 .. Len(text)
    <3> HIDE DEF t, text
    <3> QED
      BY <2>1
  <2>3. pos = open[Top] + 2 + (t + 1)
    BY <1>5
  <2> QED
    BY <2>1, <2>2, <2>3
<1>7. doc[open[Top] + 2 + (t + 1)] = text[t + 1] /\ text[t + 1] \notin {"<", ">", "/"} /\ text[1] # " "
  <2> HIDE DEF t
  <2> QED
    BY <1>4, <1>6 DEF Tagged
<1>8. Input = text[t + 1]
  BY <1>6, <1>7 DEF Input
<1>9. Put("VALUE")
  <2>1. CASE text[t + 1] = " "
    <3>1. t # 0
      <4> HIDE DEF t
      <4>1. t = 0 => t + 1 = 1
        OBVIOUS
      <4> QED
        BY <1>7, <2>1, <4>1
    <3>2. state = "VALUE" /\ Space
      BY <1>2, <1>8, <2>1, <3>1, ReadsBlank
    <3> QED
      BY <3>2 DEF Space
  <2>2. CASE text[t + 1] # " "
    <3>1. Letter /\ state \in {"TAG_END", "VALUE"}
      BY <1>2, <1>7, <1>8, <2>2, ReadsLetter
    <3> QED
      BY <3>1 DEF Letter
  <2> QED
    BY <2>1, <2>2
<1>10. Len(buffer) = t /\ Append(buffer, Input) = SubSeq(text, 1, t + 1)
  <2> HIDE DEF t, text
  <2> QED
    BY <1>2, <1>5, <1>6, <1>8, TextGrows
<1>11. Len(buffer) + 1 < Len(doc)
  <2> DEFINE l == Len(text)
             e == TextEnd(N, open, Top)
             o == open[Top]
             c == close[Top]
  <2>1. /\ o \in Nat /\ c \in Nat /\ l \in Nat /\ e \in Nat /\ e = o + 2 + l /\ e < c
        /\ c + 3 <= Len(doc) /\ Len(doc) \in Nat /\ t \in Nat /\ t < l
    BY <1>5, <1>6
  <2> HIDE DEF l, e, o, c, t
  <2> QED
    BY <1>10, <2>1
<1>12. /\ buffer' = SubSeq(text, 1, t + 1) /\ state' = "VALUE" /\ ret' = "OK" /\ pos' = pos + 1
       /\ nodes' = nodes /\ stack' = stack /\ root' = root
  BY <1>9, <1>10, <1>11, PutStores
<1>13. InText(N, open)'
  <2>1. Top' = Top /\ Filled({Top})'
    BY <1>2, <1>12 DEF Filled, Top
  <2>2. pos' - (open[Top] + 3) = t + 1
    <3>1. pos' = pos + 1 /\ pos \in Nat /\ open[Top] \in Nat
      BY <1>5, <1>12
    <3> QED
      BY <3>1
  <2>3. t + 1 \in 0 .. Len(text) /\ t + 1 # 0
    <3> HIDE DEF t, text
    <3> QED
      BY <1>5, <1>6
  <2> HIDE DEF t, text
  <2> QED
    BY <1>2, <1>12, <2>1, <2>2, <2>3 DEF InText, text
<1>14. Somewhere(N, open, close)'
  BY <1>13 DEF Somewhere
<1>15. Input # ">"
  BY <1>7, <1>8
<1> QED
  BY <1>12, <1>14, <1>15, QuietProgress

\* The beginning of a tag gives the buffer to the innermost node, and changes no other.
LEMMA TagStartEffect ==
  ASSUME ParserInv, TagStart
  PROVE  /\ Len(nodes') = Len(nodes) /\ nodes' # <<>> /\ nodes # <<>>
         /\ \A n \in 1 .. Len(nodes) :
              /\ nodes'[n].name = nodes[n].name /\ nodes'[n].parent = nodes[n].parent
              /\ n # Top => nodes'[n].value = nodes[n].value
         /\ Top \in 1 .. Len(nodes) /\ nodes'[Top].value = Append(nodes[Top].value, buffer)
         /\ nodes[Top].value \in Seq(Seq(STRING)) /\ buffer \in Seq(STRING)
         /\ state' = "TAG_START" /\ ret' = "OK" /\ pos' = pos + 1 /\ buffer' = <<>>
         /\ stack' = stack /\ root' = root
<1>1. nodes \in Seq(Node) /\ buffer \in Seq(STRING) /\ stack # <<>> /\ ParserTypeOK
  BY DEF ParserInv, ParserTypeOK, TagStart
<1>2. Top \in 1 .. Len(nodes) /\ Len(nodes) \in Nat \ {0}
  BY <1>1, TopIsNode
<1>3. nodes' = [nodes EXCEPT ![Top].value = Append(@, buffer)] /\ stack' = stack /\ root' = root /\ buffer' = <<>>
  BY DEF TagStart
<1>4. state' = "TAG_START" /\ ret' = "OK" /\ pos' = pos + 1
  BY DEF TagStart, Goes
<1>5. nodes[Top] \in Node
  BY <1>1, <1>2
<1>6. nodes[Top].value \in Seq(Seq(STRING))
  BY <1>5 DEF Node
<1>7. Len(nodes') = Len(nodes) /\ nodes' \in Seq(Node)
  <2>1. Append(nodes[Top].value, buffer) \in Seq(Seq(STRING))
    BY <1>1, <1>6
  <2>2. [nodes[Top] EXCEPT !.value = Append(@, buffer)] \in Node
    BY <1>5, <2>1 DEF Node
  <2>3. nodes' = [nodes EXCEPT ![Top] = [nodes[Top] EXCEPT !.value = Append(@, buffer)]]
    BY <1>3
  <2> QED
    BY <2>2, <2>3, <1>1, <1>2
<1>8. nodes' # <<>> /\ nodes # <<>>
  BY <1>1, <1>2, <1>7
<1>9. ASSUME NEW n \in 1 .. Len(nodes)
      PROVE  /\ nodes'[n].name = nodes[n].name /\ nodes'[n].parent = nodes[n].parent
             /\ n # Top => nodes'[n].value = nodes[n].value
  <2>1. nodes[n] \in Node /\ n \in DOMAIN nodes
    BY <1>1
  <2>2. CASE n = Top
    <3>1. nodes'[n] = [nodes[n] EXCEPT !.value = Append(@, buffer)]
      BY <1>3, <2>1, <2>2
    <3>2. \A e, v : e \in Node => [e EXCEPT !.value = v].name = e.name /\ [e EXCEPT !.value = v].parent = e.parent
      BY DEF Node
    <3> QED
      BY <2>1, <2>2, <3>1, <3>2
  <2>3. CASE n # Top
    BY <1>3, <2>1, <2>3
  <2> QED
    BY <2>2, <2>3
<1>10. nodes'[Top].value = Append(nodes[Top].value, buffer)
  <2>1. nodes'[Top] = [nodes[Top] EXCEPT !.value = Append(@, buffer)]
    <3>1. DOMAIN nodes = 1 .. Len(nodes)
      BY <1>1
    <3> QED
      BY <1>2, <1>3, <3>1
  <2>2. \A e, v : e \in Node => [e EXCEPT !.value = v].value = v
    BY DEF Node
  <2> QED
    BY <1>5, <2>1, <2>2
<1> QED
  BY <1>1, <1>2, <1>3, <1>4, <1>6, <1>7, <1>8, <1>9, <1>10

\* A tag begins, and the innermost element gets its text.
LEMMA TagStep ==
  ASSUME ParserInv, NEW N, NEW open, NEW close, Listing(N, open, close), Progress(N, open, close), Reading, Parse,
         Input = "<", state \in {"TAG_END", "VALUE"}, Left(N), nodes # <<>>
  PROVE  Progress(N, open, close)'
<1>1. Spread(N, open, close) /\ doc \in Seq(STRING) /\ ListFacts(N) /\ Placed(doc, N, open, close)
  BY ListingFacts
<1>2. Counted(N, open) /\ Copied(N) /\ Nested(N, open, close) /\ pos \in 1 .. Len(doc) /\ Len(nodes) \in Nat \ {0}
  <2>1. pos \in 1 .. Len(doc)
    BY <1>1 DEF Spread, Reading
  <2>2. nodes \in Seq(Node)
    BY DEF ParserInv, ParserTypeOK
  <2>3. Len(nodes) \in Nat \ {0}
    BY <2>2
  <2> QED
    BY <2>1, <2>3 DEF Progress
<1>3. PICK n \in 1 .. Size(N) : pos = open[n] \/ pos = close[n]
  BY <1>1, <1>2, Begins DEF Input
<1>4. open[n] \in Nat /\ close[n] \in Nat
  BY <1>1, <1>3 DEF Spread
<1>5. pos = open[n] => n = Len(nodes) + 1 /\ stack # <<>>
  <2> SUFFICES ASSUME pos = open[n] PROVE n = Len(nodes) + 1 /\ stack # <<>>
    OBVIOUS
  <2>1. n = Len(nodes) + 1
    BY <1>2, <1>3, NextBegins
  <2>2. n # 1 /\ pos \in open[n] .. open[n] + 2
    BY <1>2, <1>4, <2>1
  <2> QED
    BY <1>2, <1>3, <2>1, <2>2, ParentIsTop
<1>6. pos = close[n] => n = Top /\ stack # <<>>
  BY <1>2, <1>3, TopCloses
<1>7. stack # <<>>
  BY <1>3, <1>5, <1>6
<1>8. TagStart
  BY <1>7, ReadsStart DEF FirstTag, BehindRoot, MisplacedStart
<1>9. /\ Len(nodes') = Len(nodes) /\ nodes' # <<>> /\ nodes # <<>>
      /\ \A k \in 1 .. Len(nodes) :
           /\ nodes'[k].name = nodes[k].name /\ nodes'[k].parent = nodes[k].parent
           /\ k # Top => nodes'[k].value = nodes[k].value
      /\ Top \in 1 .. Len(nodes) /\ nodes'[Top].value = Append(nodes[Top].value, buffer)
      /\ nodes[Top].value \in Seq(Seq(STRING)) /\ buffer \in Seq(STRING)
      /\ state' = "TAG_START" /\ ret' = "OK" /\ pos' = pos + 1 /\ buffer' = <<>>
      /\ stack' = stack /\ root' = root
  BY <1>8, TagStartEffect
<1> DEFINE v == nodes[Top].value
           w == nodes'[Top].value
<1>10. /\ v \in Seq(Seq(STRING)) /\ Len(v) \in Nat /\ Len(w) = Len(v) + 1 /\ w # <<>>
       /\ \A i \in 1 .. Len(v) : w[i] = v[i]
       /\ w[Len(v) + 1] = buffer
  <2>1. v \in Seq(Seq(STRING)) /\ buffer \in Seq(STRING) /\ w = Append(v, buffer)
    BY <1>9
  <2> HIDE DEF v, w
  <2>2. w \in Seq(Seq(STRING)) /\ Len(v) \in Nat /\ Len(w) = Len(v) + 1
    BY <2>1
  <2>3. \A i \in 1 .. Len(v) : w[i] = v[i]
    BY <2>1
  <2>4. w[Len(v) + 1] = buffer
    BY <2>1
  <2>5. w # <<>>
    BY <2>2
  <2> QED
    BY <2>1, <2>2, <2>3, <2>4, <2>5
<1>11. /\ v = <<>> => buffer = N[Top].text
       /\ v # <<>> => buffer = <<>>
  BY <1>9 DEF Left, Filled
<1>12. w[1] = N[Top].text /\ \A i \in 2 .. Len(w) : w[i] = <<>>
  <2>1. v # <<>> => v[1] = N[Top].text
    BY <1>2, <1>9 DEF Copied
  <2>2. \A i \in 2 .. Len(v) : v[i] = <<>>
    BY <1>2, <1>9 DEF Copied
  <2> HIDE DEF v, w
  <2>3. CASE v = <<>>
    <3>1. Len(v) = 0
      BY <2>3
    <3> QED
      BY <1>10, <1>11, <2>3, <3>1
  <2>4. CASE v # <<>>
    <3>1. Len(v) # 0 /\ 1 \in 1 .. Len(v)
      BY <1>10, <2>4
    <3>2. w[1] = N[Top].text
      BY <1>10, <2>1, <2>4, <3>1
    <3>3. ASSUME NEW i \in 2 .. Len(w)
          PROVE  w[i] = <<>>
      <4>1. i \in 2 .. Len(v) \/ i = Len(v) + 1
        BY <1>10
      <4>2. i \in 2 .. Len(v) => i \in 1 .. Len(v)
        BY <1>10
      <4> QED
        BY <1>10, <1>11, <2>2, <2>4, <4>1, <4>2
    <3> QED
      BY <3>2, <3>3
  <2> QED
    BY <2>3, <2>4
<1>13. Copied(N)'
  <2> SUFFICES ASSUME NEW k \in 1 .. Len(nodes)
               PROVE  /\ k \in 1 .. Size(N) /\ nodes'[k].name = <<N[k].name>> /\ nodes'[k].parent = N[k].parent
                      /\ nodes'[k].value # <<>> => nodes'[k].value[1] = N[k].text
                      /\ \A i \in 2 .. Len(nodes'[k].value) : nodes'[k].value[i] = <<>>
    BY <1>9 DEF Copied
  <2>1. k \in 1 .. Size(N) /\ nodes'[k].name = <<N[k].name>> /\ nodes'[k].parent = N[k].parent
    BY <1>2, <1>9 DEF Copied
  <2>2. CASE k = Top
    BY <1>12, <2>1, <2>2
  <2>3. CASE k # Top
    BY <1>2, <1>9, <2>1, <2>3 DEF Copied
  <2> QED
    BY <2>2, <2>3
<1>14. Filled({})'
  <2> SUFFICES ASSUME NEW k \in 1 .. Len(nodes)
               PROVE  nodes'[k].value # <<>>
    BY <1>9 DEF Filled
  <2>1. CASE k = Top
    BY <1>10, <2>1
  <2>2. CASE k # Top
    <3>1. nodes[k].value # <<>>
      BY <2>2 DEF Left, Filled
    <3> QED
      BY <1>9, <2>2, <3>1
  <2> QED
    BY <2>1, <2>2
<1>15. Counted(N, open)' /\ Nested(N, open, close)'
  BY <1>2, <1>9, QuietStays
<1>16. Somewhere(N, open, close)'
  <2>1. CASE pos = open[n]
    <3>1. n = Len(nodes') + 1 /\ n \in 1 .. Size(N) /\ pos' = open[n] + 1
      BY <1>3, <1>5, <1>9, <2>1
    <3>2. InStartTag(N, open)'
      BY <1>9, <1>14, <3>1 DEF InStartTag
    <3> QED
      BY <3>2 DEF Somewhere
  <2>2. CASE pos = close[n]
    <3>1. n = Top /\ Top' = Top /\ pos' = close[Top] + 1
      BY <1>6, <1>9, <2>2 DEF Top
    <3>2. InEndTag(N, close)'
      BY <1>7, <1>9, <1>14, <3>1 DEF InEndTag
    <3> QED
      BY <3>2 DEF Somewhere
  <2> QED
    BY <1>3, <2>1, <2>2
<1> QED
  BY <1>9, <1>13, <1>15, <1>16 DEF Progress

\* A blank between two tags.
LEMMA BlankStep ==
  ASSUME ParserInv, NEW N, NEW open, NEW close, Listing(N, open, close), Progress(N, open, close), Reading, Parse,
         Input = " ", state = "TAG_END", buffer = <<>>, Left(N), nodes # <<>>,
         \A n \in 1 .. Len(nodes) : TextEnd(N, open, n) <= pos,
         \A n \in 1 .. Size(N) : pos # open[n] + 1 /\ pos # close[n] + 1 /\ pos # close[n] + 2
  PROVE  Progress(N, open, close)'
<1>1. Spread(N, open, close) /\ doc \in Seq(STRING) /\ ListFacts(N) /\ Placed(doc, N, open, close)
  BY ListingFacts
<1>2. /\ state' = "TAG_END" /\ ret' = "OK" /\ pos' = pos + 1 /\ buffer' = <<>> /\ nodes' = nodes
      /\ stack' = stack /\ root' = root
  BY ReadsBlank DEF Space, Goes
<1>3. \A n \in 1 .. Len(nodes') : TextEnd(N, open, n) < pos'
  <2> SUFFICES ASSUME NEW n \in 1 .. Len(nodes) PROVE TextEnd(N, open, n) < pos + 1
    BY <1>2
  <2>1. n \in 1 .. Size(N)
    BY CopiedCount DEF Progress
  <2>2. TextEnd(N, open, n) \in Nat /\ pos \in Nat
    BY <1>1, <2>1 DEF Spread
  <2>3. TextEnd(N, open, n) <= pos
    OBVIOUS
  <2> QED
    BY ONLY <2>2, <2>3
<1>4. \A n \in 1 .. Size(N) : pos' \notin open[n] + 1 .. open[n] + 2 /\ pos' \notin close[n] + 1 .. close[n] + 3
  <2> SUFFICES ASSUME NEW n \in 1 .. Size(N)
               PROVE  pos + 1 \notin open[n] + 1 .. open[n] + 2 /\ pos + 1 \notin close[n] + 1 .. close[n] + 3
    BY <1>2
  <2>1. Tagged(doc, N, open, close, n)
    BY <1>1, PlacedTags
  <2>2. pos # open[n] /\ pos # close[n]
    BY <2>1 DEF Tagged, Input
  <2>3. open[n] \in Nat /\ close[n] \in Nat /\ pos \in Nat
    BY <1>1 DEF Spread
  <2>4. pos # open[n] + 1 /\ pos # close[n] + 1 /\ pos # close[n] + 2
    OBVIOUS
  <2> QED
    BY ONLY <2>2, <2>3, <2>4
<1>5. Left(N)'
  BY <1>2 DEF Left, Filled, Top
<1>6. InBlanks(N, open, close)'
  BY <1>2, <1>3, <1>4, <1>5 DEF InBlanks
<1>7. Somewhere(N, open, close)'
  BY <1>6 DEF Somewhere
<1> QED
  BY <1>2, <1>7, QuietProgress

\* Among the blanks there are blanks, up to the next tag.
LEMMA BetweenStep ==
  ASSUME ParserInv, NEW N, NEW open, NEW close, Listing(N, open, close), Progress(N, open, close), Reading, Parse,
         InBlanks(N, open, close)
  PROVE  Progress(N, open, close)'
<1>1. Spread(N, open, close) /\ doc \in Seq(STRING) /\ ListFacts(N) /\ Placed(doc, N, open, close)
  BY ListingFacts
<1>2. /\ nodes # <<>> /\ buffer = <<>> /\ state = "TAG_END" /\ Left(N)
      /\ \A n \in 1 .. Len(nodes) : TextEnd(N, open, n) < pos
      /\ \A n \in 1 .. Size(N) : pos \notin open[n] + 1 .. open[n] + 2 /\ pos \notin close[n] + 1 .. close[n] + 3
  BY DEF InBlanks
<1>3. pos \in Nat /\ pos \in DOMAIN doc
  BY <1>1 DEF Spread, Reading
<1>4. \A n \in 1 .. Size(N) :
        pos # open[n] + 1 /\ pos # open[n] + 2 /\ pos # close[n] + 1 /\ pos # close[n] + 2 /\ pos # close[n] + 3
  <2> SUFFICES ASSUME NEW n \in 1 .. Size(N)
               PROVE  pos # open[n] + 1 /\ pos # open[n] + 2 /\ pos # close[n] + 1 /\ pos # close[n] + 2 /\ pos # close[n] + 3
    OBVIOUS
  <2>1. open[n] \in Nat /\ close[n] \in Nat
    BY <1>1 DEF Spread
  <2>2. pos \notin open[n] + 1 .. open[n] + 2 /\ pos \notin close[n] + 1 .. close[n] + 3
    BY <1>2
  <2> QED
    BY <1>3, <2>1, <2>2
<1>5. Input = " " \/ Input = "<"
  <2>1. doc[pos] = " " \/ \E n \in DOMAIN N : pos \in open[n] .. TextEnd(N, open, n) \/ pos \in close[n] .. close[n] + 3
    BY <1>1, <1>3 DEF Placed, Blank
  <2> SUFFICES ASSUME NEW n \in DOMAIN N, pos \in open[n] .. TextEnd(N, open, n) \/ pos \in close[n] .. close[n] + 3
               PROVE  Input = "<"
    BY <2>1 DEF Input
  <2>2. n \in 1 .. Size(N)
    BY <1>1 DEF ListFacts
  <2>3. open[n] \in Nat /\ close[n] \in Nat /\ TextEnd(N, open, n) \in Nat
    BY <1>1, <2>2 DEF Spread
  <2>4. Tagged(doc, N, open, close, n)
    BY <1>1, <2>2, PlacedTags
  <2>5. pos = open[n] \/ pos = close[n]
    <3>1. CASE pos \in open[n] .. TextEnd(N, open, n)
      <4>1. open[n] + 2 < pos => n <= Len(nodes)
        BY <2>2 DEF Progress, Counted
      <4>2. Len(nodes) \in Nat /\ n \in Nat /\ n >= 1
        BY <1>1, <2>2 DEF Spread
      <4>3. open[n] + 2 < pos => TextEnd(N, open, n) < pos
        BY <1>2, <4>1, <4>2
      <4>4. ~(open[n] + 2 < pos)
        BY <1>3, <2>3, <3>1, <4>3
      <4> QED
        BY <1>3, <1>4, <2>2, <2>3, <3>1, <4>4
    <3>2. CASE pos \in close[n] .. close[n] + 3
      BY <1>3, <1>4, <2>2, <2>3, <3>2
    <3> QED
      BY <3>1, <3>2
  <2> QED
    BY <2>4, <2>5 DEF Tagged, Input
<1>6. CASE Input = "<"
  BY <1>2, <1>6, TagStep
<1>7. CASE Input = " "
  <2>1. \A n \in 1 .. Len(nodes) : TextEnd(N, open, n) <= pos
    <3> SUFFICES ASSUME NEW n \in 1 .. Len(nodes) PROVE TextEnd(N, open, n) <= pos
      OBVIOUS
    <3>1. n \in 1 .. Size(N)
      BY CopiedCount DEF Progress
    <3>2. TextEnd(N, open, n) \in Nat
      BY <1>1, <3>1 DEF Spread
    <3> QED
      BY <1>2, <1>3, <3>2
  <2> QED
    BY <1>2, <1>4, <1>7, <2>1, BlankStep
<1> QED
  BY <1>5, <1>6, <1>7

\* Behind a text the next tag begins; without a text there may be blanks.
LEMMA TextEndStep ==
  ASSUME ParserInv, NEW N, NEW open, NEW close, Listing(N, open, close), Progress(N, open, close), Reading, Parse,
         InText(N, open), ~(pos - (open[Top] + 3) < Len(N[Top].text))
  PROVE  Progress(N, open, close)'
<1> DEFINE text == N[Top].text
           o == open[Top]
           l == Len(text)
           e == TextEnd(N, open, Top)
<1>1. Spread(N, open, close) /\ doc \in Seq(STRING) /\ ListFacts(N) /\ Placed(doc, N, open, close)
  BY ListingFacts
<1>2. /\ stack # <<>> /\ Top = Len(nodes) /\ Filled({Top}) /\ nodes[Top].value = <<>>
      /\ pos - (o + 3) \in 0 .. l /\ buffer = SubSeq(text, 1, pos - (o + 3))
      /\ state = IF pos - (o + 3) = 0 THEN "TAG_END" ELSE "VALUE"
  BY DEF InText
<1>3. Top \in 1 .. Size(N) /\ Top \in 1 .. Len(nodes)
  <2>1. Top \in 1 .. Len(nodes)
    BY <1>2, TopIsNode DEF ParserInv
  <2> QED
    BY <2>1 DEF Progress, Copied
<1>4. Tagged(doc, N, open, close, Top)
  BY <1>1, <1>3, PlacedTags
<1>5. o \in Nat /\ l \in Nat /\ pos \in Nat /\ e \in Nat /\ e = o + 2 + l /\ text \in Seq(STRING)
  BY <1>1, <1>3, <1>4 DEF Spread, Tagged
<1>6. pos - (o + 3) = l /\ pos = e + 1
  <2>1. pos - (o + 3) \in 0 .. l /\ ~(pos - (o + 3) < l)
    BY <1>2
  <2> HIDE DEF o, l, e
  <2> QED
    BY <1>5, <2>1
<1>7. buffer = text
  <2>1. buffer = SubSeq(text, 1, Len(text))
    BY <1>2, <1>6
  <2> HIDE DEF text
  <2> QED
    BY <1>5, <2>1, SubSeqFull
<1>8. Left(N) /\ nodes # <<>> /\ state \in {"TAG_END", "VALUE"}
  <2>1. nodes # <<>>
    <3>1. nodes = <<>> => Len(nodes) = 0
      OBVIOUS
    <3>2. Len(nodes) \in Nat
      BY <1>1 DEF Spread
    <3> QED
      BY <1>3, <3>1, <3>2
  <2> QED
    BY <1>2, <1>7, <2>1 DEF Left
<1>9. CASE Input = "<"
  BY <1>8, <1>9, TagStep
<1>10. CASE Input # "<"
  <2>1. l = 0
    <3>1. l # 0 => doc[e + 1] = "<"
      BY <1>4 DEF Tagged
    <3> QED
      BY <1>6, <1>10, <3>1 DEF Input
  <2>2. text = <<>> /\ buffer = <<>> /\ state = "TAG_END"
    BY <1>2, <1>5, <1>6, <1>7, <2>1
  <2>3. pos - 1 \in Nat /\ pos - 1 = e /\ o + 2 <= e /\ InStart(N, open, Top, pos - 1)
    <3>1. pos - 1 \in Nat /\ pos - 1 = e /\ o + 2 <= e
      <4> HIDE DEF o, l, e
      <4> QED
        BY <1>5, <1>6
    <3>2. o <= pos - 1 /\ pos - 1 <= e
      <4> HIDE DEF o, l, e
      <4> QED
        BY <1>5, <3>1
    <3> QED
      BY <3>1, <3>2 DEF InStart
  <2> HIDE DEF o, l, e, text
  <2>4. ASSUME NEW n \in 1 .. Size(N)
        PROVE  /\ InStart(N, open, n, pos - 1) => n = Top
               /\ ~InEnd(close, n, pos - 1)
               /\ open[n] \in Nat /\ close[n] \in Nat /\ TextEnd(N, open, n) \in Nat
               /\ open[n] + 2 <= TextEnd(N, open, n)
    BY <1>1, <1>3, <2>3, Apart DEF Spread
  <2>5. ASSUME NEW n \in 1 .. Size(N)
        PROVE  /\ pos # open[n] + 1 /\ pos # close[n] + 1 /\ pos # close[n] + 2
               /\ pos \in open[n] .. TextEnd(N, open, n) => pos = open[n]
               /\ pos \in close[n] .. close[n] + 3 => pos = close[n]
    <3>1. /\ InStart(N, open, n, pos - 1) => n = Top
          /\ ~InEnd(close, n, pos - 1)
          /\ open[n] \in Nat /\ close[n] \in Nat /\ TextEnd(N, open, n) \in Nat
          /\ open[n] + 2 <= TextEnd(N, open, n)
      BY <2>4
    <3>2. ~(close[n] <= pos - 1 /\ pos - 1 <= close[n] + 3)
      BY <3>1 DEF InEnd
    <3>3. open[n] <= pos - 1 /\ pos - 1 <= TextEnd(N, open, n) => n = Top
      BY <3>1 DEF InStart
    <3>4. n = Top => open[n] = o /\ TextEnd(N, open, n) = e
      BY DEF o, e
    <3>5. pos # close[n] + 1 /\ pos # close[n] + 2 /\ (pos \in close[n] .. close[n] + 3 => pos = close[n])
      <4> DEFINE c == close[n]
      <4>1. c \in Nat /\ pos \in Int /\ ~(c <= pos - 1 /\ pos - 1 <= c + 3)
        BY <1>5, <2>3, <3>1, <3>2
      <4> HIDE DEF c
      <4>2. pos # c + 1 /\ pos # c + 2 /\ (pos \in c .. c + 3 => pos = c)
        BY <4>1
      <4> QED
        BY <4>2 DEF c
    <3>6. pos # open[n] + 1
      BY <1>5, <2>3, <3>1, <3>3, <3>4
    <3>7. pos \in open[n] .. TextEnd(N, open, n) => pos = open[n]
      BY <1>5, <2>3, <3>1, <3>3, <3>4
    <3> QED
      BY <3>5, <3>6, <3>7
  <2>6. Input = " "
    <3>1. pos \in DOMAIN doc
      BY <1>1 DEF Spread, Reading
    <3>2. doc[pos] = " " \/ \E n \in DOMAIN N : pos \in open[n] .. TextEnd(N, open, n) \/ pos \in close[n] .. close[n] + 3
      BY <1>1, <3>1 DEF Placed, Blank
    <3>3. ASSUME NEW n \in DOMAIN N, pos \in open[n] .. TextEnd(N, open, n) \/ pos \in close[n] .. close[n] + 3
          PROVE  FALSE
      <4>1. n \in 1 .. Size(N)
        BY <1>1 DEF ListFacts
      <4>2. Tagged(doc, N, open, close, n)
        BY <1>1, <4>1, PlacedTags
      <4>3. pos = open[n] \/ pos = close[n]
        BY <2>5, <3>3, <4>1
      <4> QED
        BY <1>10, <4>2, <4>3 DEF Tagged, Input
    <3> QED
      BY <3>2, <3>3 DEF Input
  <2>7. ASSUME NEW n \in 1 .. Len(nodes)
        PROVE  TextEnd(N, open, n) <= pos
    <3>1. n \in 1 .. Size(N) /\ n \in Nat
      BY CopiedCount DEF Progress
    <3>2. CASE n = Top
      BY <1>5, <2>3, <3>2 DEF e
    <3>3. CASE n # Top
      <4>1. n < Top /\ Top \in Nat
        BY <1>2, <1>3, <3>1, <3>3
      <4>2. TextEnd(N, open, n) < open[Top] /\ TextEnd(N, open, n) \in Nat
        BY <1>1, <1>3, <3>1, <4>1 DEF Spread
      <4>3. TextEnd(N, open, n) < o
        BY <4>2 DEF o
      <4> QED
        BY <1>5, <2>3, <4>2, <4>3
    <3> QED
      BY <3>2, <3>3
  <2> QED
    BY <1>8, <2>2, <2>5, <2>6, <2>7, BlankStep
<1> QED
  BY <1>9, <1>10

\* The code's stack has room for the elements of a record.
Deep == DSM_STACK_DEPTH >= 4

\* A new node is the last one, is the innermost one, and has the name in the buffer.
LEMMA OpenNodeEffect ==
  ASSUME ParserInv, OpenNode
  PROVE  /\ Len(nodes) \in Nat /\ Len(stack) \in Nat /\ Len(nodes') = Len(nodes) + 1 /\ nodes' # <<>>
         /\ \A n \in 1 .. Len(nodes) : nodes'[n] = nodes[n]
         /\ nodes'[Len(nodes) + 1].name = buffer /\ nodes'[Len(nodes) + 1].value = <<>>
         /\ nodes'[Len(nodes) + 1].parent = IF stack = <<>> THEN 0 ELSE Top
         /\ Len(stack') = Len(stack) + 1 /\ stack'[Len(stack) + 1] = Len(nodes) + 1 /\ stack' # <<>>
         /\ \A i \in 1 .. Len(stack) : stack'[i] = stack[i]
         /\ state' = "TAG_END" /\ ret' = "OK" /\ pos' = pos + 1 /\ buffer' = <<>> /\ root' = root
<1> DEFINE new == [name |-> buffer, value |-> <<>>, parent |-> IF stack = <<>> THEN 0 ELSE Top]
<1>1. nodes \in Seq(Node) /\ stack \in Seq(1 .. Len(nodes)) /\ Len(nodes) \in Nat /\ Len(stack) \in Nat
  BY DEF ParserInv, ParserTypeOK
<1>2. nodes' = Append(nodes, new) /\ stack' = Append(stack, Len(nodes')) /\ buffer' = <<>> /\ root' = root
  BY DEF OpenNode, Pushed
<1>3. state' = "TAG_END" /\ ret' = "OK" /\ pos' = pos + 1
  BY DEF OpenNode, Goes
<1>4. ParserTypeOK'
  BY OpenNodeKeeps DEF ParserInv
<1>5. nodes' \in Seq(Node) /\ stack' \in Seq(1 .. Len(nodes'))
  BY <1>4 DEF ParserTypeOK
<1>6. new.name = buffer /\ new.value = <<>> /\ new.parent = IF stack = <<>> THEN 0 ELSE Top
  OBVIOUS
<1> HIDE DEF new
<1>7. Len(nodes') = Len(nodes) + 1 /\ nodes'[Len(nodes) + 1] = new /\ \A n \in 1 .. Len(nodes) : nodes'[n] = nodes[n]
  BY <1>1, <1>2
<1>8. Len(stack') = Len(stack) + 1 /\ stack'[Len(stack) + 1] = Len(nodes') /\ \A i \in 1 .. Len(stack) : stack'[i] = stack[i]
  BY <1>1, <1>2
<1>9. nodes' # <<>> /\ stack' # <<>>
  <2>1. Len(nodes') # 0 /\ Len(stack') # 0
    BY <1>1, <1>7, <1>8
  <2> QED
    BY <2>1
<1> QED
  BY <1>1, <1>2, <1>3, <1>6, <1>7, <1>8, <1>9

\* The end of a start tag opens the element that was written there.
LEMMA OpenStep ==
  ASSUME Deep, ParserInv, NEW N, NEW open, NEW close, Listing(N, open, close), Progress(N, open, close), Reading, Parse,
         InStartTag(N, open), state = "TAG_BODY"
  PROVE  Progress(N, open, close)'
<1> DEFINE q == Len(nodes) + 1
<1>1. Spread(N, open, close) /\ doc \in Seq(STRING) /\ ListFacts(N) /\ Placed(doc, N, open, close)
  BY ListingFacts
<1>2. /\ q \in 1 .. Size(N) /\ Filled({}) /\ pos = open[q] + 2 /\ buffer = <<N[q].name>>
      /\ Counted(N, open) /\ Copied(N) /\ Nested(N, open, close)
  BY DEF InStartTag, Progress
<1>3. pos \in open[q] .. open[q] + 2 /\ open[q] \in Nat /\ close[q] \in Nat /\ open[q] + 2 < close[q] /\ pos \in Nat
  <2> HIDE DEF q
  <2>1. open[q] \in Nat /\ close[q] \in Nat /\ open[q] + 2 < close[q] /\ pos \in Nat
    BY <1>1, <1>2 DEF Spread
  <2> QED
    BY <1>2, <2>1
<1>4. /\ q # 1 => stack # <<>> /\ N[q].parent = Top
      /\ q = 1 => stack = <<>>
  BY <1>2, <1>3, ParentIsTop
<1>5. Len(stack) < DSM_STACK_DEPTH
  <2>1. Len(stack) \in Nat /\ Len(stack) <= 3
    BY <1>2, <1>3, Shallow
  <2> QED
    BY <2>1, DsmAssumption DEF Deep
<1>6. OpenNode
  <2>1. Tagged(doc, N, open, close, q)
    <3> HIDE DEF q
    <3> QED
      BY <1>1, <1>2, PlacedTags
  <2>2. Input = ">" /\ buffer[1] # "/"
    <3> HIDE DEF q
    <3> QED
      BY <1>2, <2>1 DEF Tagged, Input
  <2>3. OpenNode \/ Overflow \/ CloseNode \/ Mismatch \/ MisplacedEnd
    BY <2>2, ReadsEnd
  <2>4. Len(stack) # DSM_STACK_DEPTH
    <3>1. Len(stack) \in Nat
      BY <1>1 DEF Spread
    <3> QED
      BY <1>5, <3>1, DsmAssumption
  <2> QED
    BY <2>2, <2>3, <2>4 DEF Overflow, CloseNode, Mismatch, MisplacedEnd
<1>7. /\ Len(nodes) \in Nat /\ Len(stack) \in Nat /\ Len(nodes') = q /\ nodes' # <<>>
      /\ \A n \in 1 .. Len(nodes) : nodes'[n] = nodes[n]
      /\ nodes'[q].name = buffer /\ nodes'[q].value = <<>>
      /\ nodes'[q].parent = IF stack = <<>> THEN 0 ELSE Top
      /\ Len(stack') = Len(stack) + 1 /\ stack'[Len(stack) + 1] = q /\ stack' # <<>>
      /\ \A i \in 1 .. Len(stack) : stack'[i] = stack[i]
      /\ state' = "TAG_END" /\ ret' = "OK" /\ pos' = pos + 1 /\ buffer' = <<>> /\ root' = root
  BY <1>6, OpenNodeEffect
<1>8. q \in Nat /\ (\A k \in Nat : k <= Len(nodes) <=> k < q) /\ \A k \in 1 .. q : k \in 1 .. Len(nodes) \/ k = q
  BY <1>7
<1>9. \A k \in 1 .. Len(nodes) : k \in 1 .. Size(N) /\ k \in Nat /\ k # q
  BY <1>2, <1>8, CopiedCount
<1>10. Size(N) \in Nat
  BY <1>1 DEF Spread
<1>11. N[q].parent = IF stack = <<>> THEN 0 ELSE Top
  <2> HIDE DEF q
  <2>1. N[1].parent = 0
    BY <1>1 DEF ListFacts
  <2> QED
    BY <1>4, <2>1
<1>12. \A i \in 1 .. Len(stack) : stack[i] \in 1 .. Len(nodes)
  <2>1. stack \in Seq(1 .. Len(nodes))
    BY DEF ParserInv, ParserTypeOK
  <2> QED
    BY <2>1
<1>13. nodes = <<>> \/ stack # <<>>
  <2>1. nodes # <<>> => Len(nodes) # 0
    <3>1. nodes \in Seq(Node)
      BY DEF ParserInv, ParserTypeOK
    <3> QED
      BY <3>1
  <2>2. Len(nodes) # 0 => q # 1
    BY <1>7
  <2> QED
    BY <1>4, <2>1, <2>2
<1>14. SubSeq(N[q].text, 1, 0) = <<>>
  BY SubSeqEmpty
<1> HIDE DEF q
<1>15. ASSUME NEW k \in 1 .. Size(N)
       PROVE  /\ k < q => open[k] + 2 < pos /\ open[k] + 2 < pos' /\ (pos <= close[k] + 3 <=> pos' <= close[k] + 3)
              /\ k > q => ~(open[k] + 2 < pos) /\ ~(open[k] + 2 < pos')
              /\ k = q => ~(open[k] + 2 < pos) /\ open[k] + 2 < pos' /\ pos' <= close[k] + 3
              /\ k \in Nat /\ k \in Int
  <2>1. open[k] \in Nat /\ close[k] \in Nat /\ k \in Nat
    BY <1>1, <1>10 DEF Spread
  <2>2. ASSUME k < q
        PROVE  open[k] + 2 < pos /\ open[k] + 2 < pos' /\ (pos <= close[k] + 3 <=> pos' <= close[k] + 3)
    <3>1. open[k] + 2 < open[q] /\ N[k].last \in Nat
          /\ (q <= N[k].last => close[q] + 3 < close[k]) /\ (q > N[k].last => close[k] + 3 < open[q])
      BY <1>1, <1>2, <2>2 DEF Spread
    <3>5. pos = open[q] + 2 /\ pos' = pos + 1 /\ open[q] \in Nat /\ close[q] \in Nat /\ open[q] + 2 < close[q]
      BY <1>2, <1>3, <1>7
    <3>6. open[k] + 2 < pos /\ open[k] + 2 < pos'
      BY <2>1, <3>1, <3>5
    <3>2. CASE q <= N[k].last
      <4>1. close[q] + 3 < close[k]
        BY <3>1, <3>2
      <4>2. pos <= close[k] + 3 /\ pos' <= close[k] + 3
        BY <2>1, <3>5, <4>1
      <4> QED
        BY <3>6, <4>2
    <3>3. CASE q > N[k].last
      <4>1. close[k] + 3 < open[q]
        BY <3>1, <3>3
      <4>2. ~(pos <= close[k] + 3) /\ ~(pos' <= close[k] + 3)
        BY <2>1, <3>5, <4>1
      <4> QED
        BY <3>6, <4>2
    <3>4. q <= N[k].last \/ q > N[k].last
      BY <1>8, <3>1
    <3> QED
      BY <3>2, <3>3, <3>4
  <2>3. ASSUME k > q
        PROVE  ~(open[k] + 2 < pos) /\ ~(open[k] + 2 < pos')
    <3>1. q < k
      BY <1>8, <2>1, <2>3
    <3>2. open[q] + 2 < open[k]
      BY <1>1, <1>2, <3>1 DEF Spread
    <3>3. pos = open[q] + 2 /\ pos' = pos + 1 /\ open[q] \in Nat
      BY <1>2, <1>3, <1>7
    <3> QED
      BY <2>1, <3>2, <3>3
  <2>4. k = q => ~(open[k] + 2 < pos) /\ open[k] + 2 < pos' /\ pos' <= close[k] + 3
    BY <1>2, <1>3, <1>7
  <2> QED
    BY <2>1, <2>2, <2>3, <2>4
<1>16. ASSUME NEW k \in 1 .. Size(N)
       PROVE  k < q \/ k > q \/ k = q
  BY <1>8, <1>10
<1>17. Counted(N, open)'
  <2> SUFFICES ASSUME NEW k \in 1 .. Size(N)
               PROVE  k <= q <=> open[k] + 2 < pos'
    BY <1>7 DEF Counted
  <2>1. k < q => k <= q
    BY <1>8, <1>15
  <2>2. k > q => ~(k <= q)
    BY <1>8, <1>15
  <2>3. k = q => k <= q
    BY <1>8
  <2> QED
    BY <1>15, <1>16, <2>1, <2>2, <2>3
<1>18. Copied(N)'
  <2> SUFFICES ASSUME NEW k \in 1 .. q
               PROVE  /\ k \in 1 .. Size(N) /\ nodes'[k].name = <<N[k].name>> /\ nodes'[k].parent = N[k].parent
                      /\ nodes'[k].value # <<>> => nodes'[k].value[1] = N[k].text
                      /\ \A i \in 2 .. Len(nodes'[k].value) : nodes'[k].value[i] = <<>>
    BY <1>7 DEF Copied
  <2>1. CASE k = q
    <3>1. Len(nodes'[q].value) = 0
      BY <1>7
    <3> QED
      BY <1>2, <1>7, <1>11, <2>1, <3>1
  <2>2. CASE k \in 1 .. Len(nodes)
    BY <1>2, <1>7, <2>2 DEF Copied
  <2> QED
    BY <1>8, <2>1, <2>2
<1>19. Nested(N, open, close)'
  <2>1. ASSUME NEW k \in 1 .. Size(N)
        PROVE  (open[k] + 2 < pos' /\ pos' <= close[k] + 3) <=> \E i \in 1 .. Len(stack') : stack'[i] = k
    <3>1. Around(open, close, k) <=> \E i \in 1 .. Len(stack) : stack[i] = k
      BY <1>2 DEF Nested
    <3>2. \A i \in 1 .. Len(stack') : i \in 1 .. Len(stack) \/ i = Len(stack) + 1
      BY <1>7
    <3>3. \A i \in 1 .. Len(stack) : i \in 1 .. Len(stack')
      BY <1>7
    <3>4. Len(stack) + 1 \in 1 .. Len(stack')
      BY <1>7
    <3>5. CASE k = q
      BY <1>7, <1>15, <3>4, <3>5
    <3>6. CASE k # q
      <4>1. (\E i \in 1 .. Len(stack') : stack'[i] = k) <=> \E i \in 1 .. Len(stack) : stack[i] = k
        BY <1>7, <3>2, <3>3, <3>6
      <4>2. (open[k] + 2 < pos' /\ pos' <= close[k] + 3) <=> Around(open, close, k)
        BY <1>15, <1>16, <3>6 DEF Around
      <4> QED
        BY <3>1, <4>1, <4>2
    <3> QED
      BY <3>5, <3>6
  <2>2. ASSUME NEW i \in 1 .. Len(stack'), NEW j \in 1 .. Len(stack'), i < j
        PROVE  stack'[i] < stack'[j]
    <3>1. i \in 1 .. Len(stack) /\ (j \in 1 .. Len(stack) \/ j = Len(stack) + 1)
      BY <1>7, <2>2
    <3>2. CASE j \in 1 .. Len(stack)
      BY <1>2, <1>7, <2>2, <3>1, <3>2 DEF Nested
    <3>3. CASE j = Len(stack) + 1
      <4>1. stack'[i] \in 1 .. Len(nodes) /\ stack'[j] = q
        BY <1>7, <1>12, <3>1, <3>3
      <4>2. stack'[i] \in Nat /\ stack'[i] <= Len(nodes)
        BY <1>7, <4>1
      <4> QED
        BY <1>8, <4>1, <4>2
    <3> QED
      BY <3>1, <3>2, <3>3
  <2>3. root' = 0
    BY <1>2, <1>7, <1>13 DEF Nested
  <2> QED
    BY <1>7, <2>1, <2>2, <2>3 DEF Nested, Around
<1>20. InText(N, open)'
  <2>1. Top' = q /\ Len(nodes') = q /\ nodes'[q].value = <<>>
    BY <1>7 DEF Top
  <2>2. Filled({Top})'
    <3> SUFFICES ASSUME NEW k \in 1 .. q, k # q
                 PROVE  nodes'[k].value # <<>>
      BY <2>1 DEF Filled
    <3>1. k \in 1 .. Len(nodes)
      BY <1>8
    <3> QED
      BY <1>2, <1>7, <3>1 DEF Filled
  <2>3. pos' - (open[q] + 3) = 0
    BY <1>2, <1>3, <1>7
  <2>4. 0 \in 0 .. Len(N[q].text)
    BY <1>1, <1>2 DEF Spread
  <2> QED
    BY <1>7, <1>14, <2>1, <2>2, <2>3, <2>4 DEF InText
<1>21. Somewhere(N, open, close)'
  BY <1>20 DEF Somewhere
<1> QED
  BY <1>7, <1>17, <1>18, <1>19, <1>21 DEF Progress

\* A slash and a name.
LEMMA TailOfTwo ==
  ASSUME NEW x, NEW y
  PROVE  Tail(<<x, y>>) = <<y>> /\ <<x, y>>[1] = x
<1> DEFINE S == {x, y}
           s == <<x, y>>
<1>1. s \in Seq(S) /\ Len(s) = 2 /\ s[1] = x /\ s[2] = y /\ s # <<>> /\ <<y>> \in Seq(S) /\ Len(<<y>>) = 1 /\ <<y>>[1] = y
  OBVIOUS
<1> HIDE DEF S, s
<1>2. Tail(s) \in Seq(S) /\ Len(Tail(s)) = Len(s) - 1 /\ \A i \in 1 .. Len(Tail(s)) : Tail(s)[i] = s[i + 1]
  BY <1>1, HeadTailProperties
<1> DEFINE t == Tail(s)
           u == <<y>>
<1>3. t \in Seq(S) /\ u \in Seq(S) /\ Len(t) = Len(u) /\ \A i \in 1 .. Len(t) : t[i] = u[i]
  <2>1. Len(t) = 1 /\ Len(u) = 1 /\ 1 \in 1 .. Len(t) /\ t[1] = s[2]
    <3>1. Len(t) = 1 /\ 1 \in 1 .. Len(t)
      <4>1. Len(t) = Len(s) - 1 /\ Len(s) = 2
        BY <1>1, <1>2
      <4> HIDE DEF t
      <4> QED
        BY <4>1
    <3>2. t[1] = s[1 + 1]
      BY <1>2, <3>1
    <3> QED
      BY <1>1, <3>1, <3>2
  <2>2. u[1] = y /\ t[1] = y
    BY <1>1, <2>1
  <2>3. t \in Seq(S) /\ u \in Seq(S)
    BY <1>1, <1>2
  <2> HIDE DEF t, u
  <2>4. \A i \in 1 .. 1 : i = 1
    OBVIOUS
  <2> QED
    BY <2>1, <2>2, <2>3, <2>4
<1>4. t = u
  <2> HIDE DEF t, u
  <2> QED
    BY <1>3, SeqEqual
<1> QED
  BY <1>1, <1>4 DEF s

\* A node that is closed leaves the stack; the outermost one becomes the root.
LEMMA CloseNodeEffect ==
  ASSUME ParserInv, CloseNode
  PROVE  /\ Len(stack) \in Nat \ {0} /\ Len(stack') = Len(stack) - 1 /\ nodes' = nodes
         /\ \A i \in 1 .. Len(stack) - 1 : stack'[i] = stack[i]
         /\ state' = "TAG_END" /\ ret' = "OK" /\ pos' = pos + 1 /\ buffer' = <<>>
         /\ root' = (IF Len(stack) = 1 THEN Top ELSE root) /\ (stack' = <<>> <=> Len(stack) = 1)
<1>1. stack \in Seq(1 .. Len(nodes)) /\ stack # <<>> /\ ParserTypeOK
  BY DEF ParserInv, ParserTypeOK, CloseNode, Closes
<1>2. Len(stack) \in Nat \ {0}
  BY <1>1
<1>3. /\ nodes' = nodes /\ buffer' = <<>> /\ stack' = SubSeq(stack, 1, Len(stack) - 1)
      /\ root' = IF Len(stack) = 1 THEN Top ELSE root
  BY DEF CloseNode
<1>4. state' = "TAG_END" /\ ret' = "OK" /\ pos' = pos + 1
  BY DEF CloseNode, Goes
<1> DEFINE n == Len(stack) - 1
           S == 1 .. Len(nodes)
<1>5. 1 \in Int /\ n \in Nat /\ n \in Int /\ \A i \in 1 .. n : stack[i] \in S
  BY <1>1, <1>2
<1>6. /\ SubSeq(stack, 1, n) \in Seq(S)
      /\ Len(SubSeq(stack, 1, n)) = IF 1 <= n THEN n - 1 + 1 ELSE 0
      /\ \A i \in 1 .. n - 1 + 1 : SubSeq(stack, 1, n)[i] = stack[1 + i - 1]
  <2> HIDE DEF n, S
  <2> QED
    BY ONLY <1>5, SubSeqProperties
<1>7. Len(stack') = n /\ \A i \in 1 .. n : stack'[i] = stack[i]
  <2>1. stack' = SubSeq(stack, 1, n)
    BY <1>3
  <2> HIDE DEF n, S
  <2>2. Len(stack') = n
    BY <1>5, <1>6, <2>1
  <2>3. ASSUME NEW i \in 1 .. n
        PROVE  stack'[i] = stack[i]
    <3>1. i \in 1 .. n - 1 + 1 /\ 1 + i - 1 = i
      BY <1>5
    <3> QED
      BY <1>6, <2>1, <3>1
  <2> QED
    BY <2>2, <2>3
<1>8. stack' = <<>> <=> Len(stack) = 1
  <2>1. stack' \in Seq(S)
    BY <1>3, <1>6
  <2>2. stack' = <<>> <=> Len(stack') = 0
    BY <2>1
  <2>3. Len(stack') = 0 <=> Len(stack) = 1
    BY <1>2, <1>7
  <2> QED
    BY <2>2, <2>3
<1> QED
  BY <1>2, <1>3, <1>4, <1>7, <1>8

\* The end of an end tag closes the innermost element, and nothing else.
LEMMA CloseStep ==
  ASSUME ParserInv, NEW N, NEW open, NEW close, Listing(N, open, close), Progress(N, open, close), Reading, Parse,
         InEndTag(N, close), buffer = <<"/", N[Top].name>>
  PROVE  Progress(N, open, close)'
<1>1. Spread(N, open, close) /\ doc \in Seq(STRING) /\ ListFacts(N) /\ Placed(doc, N, open, close)
  BY ListingFacts
<1>2. /\ stack # <<>> /\ Filled({}) /\ pos = close[Top] + 3 /\ state = "TAG_BODY"
      /\ Counted(N, open) /\ Copied(N) /\ Nested(N, open, close)
  <2>1. buffer # <<>> /\ buffer # <<"/">>
    <3>1. Len(buffer) = 2 /\ Len(<<"/">>) = 1 /\ Len(<<>>) = 0
      OBVIOUS
    <3> QED
      BY <3>1
  <2> QED
    BY <2>1 DEF InEndTag, Progress
<1>3. /\ Top \in 1 .. Len(nodes) /\ Top \in Nat /\ Top = stack[Len(stack)]
      /\ \A i \in 1 .. Len(stack) : stack[i] \in Nat /\ stack[i] <= Top
  BY <1>2, TopIsLast
<1>4. Top \in 1 .. Size(N) /\ nodes[Top].name = <<N[Top].name>> /\ nodes # <<>>
  <2>1. nodes # <<>>
    <3>1. nodes = <<>> => Len(nodes) = 0
      OBVIOUS
    <3> QED
      BY <1>3, <3>1
  <2> QED
    BY <1>2, <1>3, <2>1 DEF Copied
<1>5. Tagged(doc, N, open, close, Top)
  BY <1>1, <1>4, PlacedTags
<1>6. Input = ">" /\ buffer[1] = "/" /\ Closes
  <2>1. Input = ">"
    BY <1>2, <1>5 DEF Tagged, Input
  <2>2. Tail(buffer) = <<N[Top].name>> /\ buffer[1] = "/"
    BY TailOfTwo
  <2> QED
    BY <1>2, <1>4, <2>1, <2>2 DEF Closes
<1>7. CloseNode
  <2>1. OpenNode \/ Overflow \/ CloseNode \/ Mismatch \/ MisplacedEnd
    BY <1>6, ReadsEnd
  <2> QED
    BY <1>2, <1>6, <2>1 DEF OpenNode, Overflow, Mismatch, MisplacedEnd
<1>8. /\ Len(stack) \in Nat \ {0} /\ Len(stack') = Len(stack) - 1 /\ nodes' = nodes
      /\ \A i \in 1 .. Len(stack) - 1 : stack'[i] = stack[i]
      /\ state' = "TAG_END" /\ ret' = "OK" /\ pos' = pos + 1 /\ buffer' = <<>>
      /\ root' = (IF Len(stack) = 1 THEN Top ELSE root) /\ (stack' = <<>> <=> Len(stack) = 1)
  BY <1>7, CloseNodeEffect
<1> DEFINE c == close[Top]
<1>9. c \in Nat /\ pos = c + 3 /\ pos \in Nat /\ InEnd(close, Top, pos) /\ pos' = pos + 1
  <2>1. c \in Nat
    BY <1>1, <1>4 DEF Spread
  <2>2. c <= c + 3 /\ c + 3 <= c + 3 /\ c + 3 \in Nat
    <3> HIDE DEF c
    <3> QED
      BY <2>1
  <2> QED
    BY <1>2, <1>8, <2>1, <2>2 DEF InEnd
<1>10. ASSUME NEW k \in 1 .. Size(N)
       PROVE  /\ ~InStart(N, open, k, pos)
              /\ InEnd(close, k, pos) => k = Top
              /\ open[k] \in Nat /\ close[k] \in Nat /\ TextEnd(N, open, k) \in Nat /\ k \in Nat
              /\ open[k] + 2 <= TextEnd(N, open, k)
  <2>1. /\ Size(N) \in Nat /\ k \in Nat /\ open[k] \in Nat /\ close[k] \in Nat /\ TextEnd(N, open, k) \in Nat
        /\ open[k] + 2 <= TextEnd(N, open, k)
    BY <1>1 DEF Spread
  <2>0. /\ ListFacts(N) /\ Placed(doc, N, open, close) /\ doc \in Seq(STRING)
        /\ Top \in 1 .. Size(N) /\ pos \in Nat
    BY <1>1, <1>4, <1>9
  <2>2. ~(InStart(N, open, k, pos) /\ InEnd(close, Top, pos))
    BY <2>0, Apart
  <2>3. InEnd(close, k, pos) /\ InEnd(close, Top, pos) => k = Top
    BY <2>0, Apart
  <2> QED
    BY <1>9, <2>1, <2>2, <2>3
<1> HIDE DEF c
<1>11. ASSUME NEW k \in 1 .. Size(N)
       PROVE  /\ (open[k] + 2 < pos <=> open[k] + 2 < pos')
              /\ (k # Top => (pos <= close[k] + 3 <=> pos' <= close[k] + 3))
              /\ (k = Top => ~(pos' <= close[k] + 3))
              /\ (open[k] + 2 < pos => TextEnd(N, open, k) < pos')
              /\ pos' \notin open[k] + 1 .. open[k] + 2 /\ pos' \notin close[k] + 1 .. close[k] + 3
  <2>1. /\ open[k] \in Nat /\ close[k] \in Nat /\ TextEnd(N, open, k) \in Nat /\ pos \in Nat /\ pos' = pos + 1
        /\ open[k] + 2 <= TextEnd(N, open, k)
    BY <1>9, <1>10
  <2>2. ~(open[k] <= pos /\ pos <= TextEnd(N, open, k))
    BY <1>10 DEF InStart
  <2>3. close[k] <= pos /\ pos <= close[k] + 3 => k = Top
    BY <1>10 DEF InEnd
  <2>4. k = Top => pos = close[k] + 3
    BY <1>2
  <2>5. open[k] + 2 < pos <=> open[k] + 2 < pos'
    BY <2>1, <2>2
  <2>6. k # Top => (pos <= close[k] + 3 <=> pos' <= close[k] + 3)
    BY <2>1, <2>3
  <2>7. k = Top => ~(pos' <= close[k] + 3)
    BY <2>1, <2>4
  <2>8. open[k] + 2 < pos => TextEnd(N, open, k) < pos'
    BY <2>1, <2>2
  <2>9. pos' \notin open[k] + 1 .. open[k] + 2
    BY <2>1, <2>2
  <2>10. pos' \notin close[k] + 1 .. close[k] + 3
    <3>1. CASE k = Top
      BY <2>1, <2>4, <3>1
    <3>2. CASE k # Top
      BY <2>1, <2>3, <3>2
    <3> QED
      BY <3>1, <3>2
  <2> QED
    BY <2>5, <2>6, <2>7, <2>8, <2>9, <2>10
<1>12. Counted(N, open)'
  BY <1>2, <1>8, <1>11 DEF Counted
<1>13. Copied(N)'
  BY <1>2, <1>8 DEF Copied
<1>14. Nested(N, open, close)'
  <2>1. ASSUME NEW k \in 1 .. Size(N)
        PROVE  (open[k] + 2 < pos' /\ pos' <= close[k] + 3) <=> \E i \in 1 .. Len(stack') : stack'[i] = k
    <3>1. Around(open, close, k) <=> \E i \in 1 .. Len(stack) : stack[i] = k
      BY <1>2 DEF Nested
    <3>2. \A i \in 1 .. Len(stack) : i \in 1 .. Len(stack') \/ i = Len(stack)
      BY <1>8
    <3>3. \A i \in 1 .. Len(stack') : i \in 1 .. Len(stack) - 1 /\ i \in 1 .. Len(stack) /\ i < Len(stack)
      BY <1>8
    <3>4. Len(stack) \in 1 .. Len(stack)
      BY <1>8
    <3>5. \A i \in 1 .. Len(stack') : stack'[i] = stack[i] /\ stack[i] # Top
      <4> SUFFICES ASSUME NEW i \in 1 .. Len(stack') PROVE stack'[i] = stack[i] /\ stack[i] # Top
        OBVIOUS
      <4>1. i \in 1 .. Len(stack) - 1 /\ i \in 1 .. Len(stack) /\ i < Len(stack)
        BY <3>3
      <4>2. stack[i] < stack[Len(stack)]
        BY <1>2, <3>4, <4>1 DEF Nested
      <4>3. stack[i] \in Nat /\ Top \in Nat
        BY <1>3, <4>1
      <4>4. stack[i] # Top
        BY <1>3, <4>2, <4>3
      <4> QED
        BY <1>8, <4>1, <4>4
    <3>6. CASE k = Top
      BY <1>11, <3>5, <3>6
    <3>7. CASE k # Top
      <4>1. (\E i \in 1 .. Len(stack') : stack'[i] = k) <=> \E i \in 1 .. Len(stack) : stack[i] = k
        BY <1>3, <3>2, <3>3, <3>5, <3>7
      <4>2. (open[k] + 2 < pos' /\ pos' <= close[k] + 3) <=> Around(open, close, k)
        BY <1>11, <3>7 DEF Around
      <4> QED
        BY <3>1, <4>1, <4>2
    <3> QED
      BY <3>6, <3>7
  <2>2. ASSUME NEW i \in 1 .. Len(stack'), NEW j \in 1 .. Len(stack'), i < j
        PROVE  stack'[i] < stack'[j]
    <3>1. i \in 1 .. Len(stack) - 1 /\ j \in 1 .. Len(stack) - 1 /\ i \in 1 .. Len(stack) /\ j \in 1 .. Len(stack)
      BY <1>8
    <3> QED
      BY <1>2, <1>8, <2>2, <3>1 DEF Nested
  <2>3. root' = IF nodes' # <<>> /\ stack' = <<>> THEN 1 ELSE 0
    <3>1. stack[1] = 1 /\ root = 0
      BY <1>2 DEF ParserInv, StackIsPath
    <3> QED
      BY <1>3, <1>4, <1>8, <3>1
  <2> QED
    BY <2>1, <2>2, <2>3 DEF Nested, Around
<1>15. InBlanks(N, open, close)'
  <2>1. Left(N)'
    BY <1>2, <1>8 DEF Left, Filled
  <2>2. \A k \in 1 .. Len(nodes') : TextEnd(N, open, k) < pos'
    <3> SUFFICES ASSUME NEW k \in 1 .. Len(nodes) PROVE TextEnd(N, open, k) < pos'
      BY <1>8
    <3>1. k \in 1 .. Size(N) /\ k <= Len(nodes)
      <4>1. Len(nodes) \in Nat
        BY <1>1 DEF Spread
      <4> QED
        BY <1>2, <4>1, CopiedCount
    <3>2. open[k] + 2 < pos
      BY <1>2, <3>1 DEF Counted
    <3> QED
      BY <1>11, <3>1, <3>2
  <2> QED
    BY <1>4, <1>8, <1>11, <2>1, <2>2 DEF InBlanks
<1>16. Somewhere(N, open, close)'
  BY <1>15 DEF Somewhere
<1> QED
  BY <1>8, <1>12, <1>13, <1>14, <1>16 DEF Progress

\* Every character of such a document is understood.
LEMMA ParseProgress ==
  ASSUME Deep, ParserInv, NEW N, NEW open, NEW close, Listing(N, open, close), Progress(N, open, close), Reading, Parse
  PROVE  Progress(N, open, close)'
<1>1. CASE AtStart
  BY <1>1, AtStartStep
<1>2. CASE InStartTag(N, open)
  <2>1. state = "TAG_START" \/ state = "TAG_BODY"
    BY <1>2 DEF InStartTag
  <2> QED
    BY <1>2, <2>1, NameStep, OpenStep
<1>3. CASE InEndTag(N, close)
  <2>1. state = "TAG_START" \/ buffer = <<"/">> \/ buffer = <<"/", N[Top].name>>
    BY <1>3 DEF InEndTag
  <2> QED
    BY <1>3, <2>1, SlashStep, EndNameStep, CloseStep
<1>4. CASE InText(N, open)
  BY <1>4, TextStep, TextEndStep
<1>5. CASE InBlanks(N, open, close)
  BY <1>5, BetweenStep
<1> QED
  BY <1>1, <1>2, <1>3, <1>4, <1>5 DEF Progress, Somewhere

\* The tree that the parser has built at the end of the document.
Built(N) ==
  /\ Len(nodes) = Size(N) /\ root = 1 /\ ret = "OK"
  /\ \A n \in 1 .. Size(N) :
       /\ nodes[n].name = <<N[n].name>> /\ nodes[n].parent = N[n].parent /\ Len(nodes[n].value) \in Nat \ {0}
       /\ nodes[n].value \in Seq(Seq(STRING))
       /\ nodes[n].value[1] = N[n].text /\ \A i \in 2 .. Len(nodes[n].value) : nodes[n].value[i] = <<>>

\* At the end of the document the tree is complete.
LEMMA ParsedIsBuilt ==
  ASSUME ParserInv, NEW N, NEW open, NEW close, Listing(N, open, close), Progress(N, open, close), ~Reading
  PROVE  Built(N)
<1>1. Spread(N, open, close) /\ ListFacts(N)
  BY ListingFacts
<1>2. /\ Counted(N, open) /\ Copied(N) /\ Nested(N, open, close) /\ Somewhere(N, open, close) /\ ret = "OK"
  BY DEF Progress
<1>3. pos = Len(doc) + 1 /\ Len(doc) \in Nat /\ Len(nodes) \in Nat /\ Size(N) \in Nat /\ Size(N) >= 2
  BY <1>1 DEF Spread, Reading
<1>4. \A n \in 1 .. Size(N) :
        /\ open[n] \in Nat /\ close[n] \in Nat /\ TextEnd(N, open, n) \in Nat /\ close[n] + 3 <= Len(doc)
        /\ TextEnd(N, open, n) < close[n] /\ open[n] + 2 < close[n]
  BY <1>1 DEF Spread
<1>5. \A n \in 1 .. Size(N) : open[n] + 2 < pos /\ ~(pos <= close[n] + 3) /\ close[n] + 3 < pos
  <2> SUFFICES ASSUME NEW n \in 1 .. Size(N)
               PROVE  open[n] + 2 < pos /\ ~(pos <= close[n] + 3) /\ close[n] + 3 < pos
    OBVIOUS
  <2> DEFINE o == open[n]
             c == close[n]
             l == Len(doc)
  <2>1. o \in Nat /\ c \in Nat /\ l \in Nat /\ c + 3 <= l /\ o + 2 < c /\ pos = l + 1
    BY <1>3, <1>4
  <2> HIDE DEF o, c, l
  <2>2. o + 2 < pos /\ ~(pos <= c + 3) /\ c + 3 < pos
    BY <2>1
  <2> QED
    BY <2>2 DEF o, c
<1>6. Len(nodes) = Size(N)
  <2>1. Size(N) <= Len(nodes)
    <3>1. Size(N) \in 1 .. Size(N)
      BY <1>3
    <3> QED
      BY <1>2, <1>5, <3>1 DEF Counted
  <2>2. Len(nodes) <= Size(N)
    BY <1>2, CopiedCount
  <2> QED
    BY <1>3, <2>1, <2>2
<1>7. stack = <<>> /\ nodes # <<>> /\ nodes \in Seq(Node)
  <2>1. stack \in Seq(1 .. Len(nodes)) /\ nodes \in Seq(Node)
    BY DEF ParserInv, ParserTypeOK
  <2>2. Len(stack) = 0
    <3> SUFFICES ASSUME Len(stack) # 0 PROVE FALSE
      OBVIOUS
    <3>1. 1 \in 1 .. Len(stack) /\ stack[1] \in 1 .. Len(nodes)
      BY <2>1
    <3>2. stack[1] \in 1 .. Size(N)
      BY <1>6, <3>1
    <3>3. Around(open, close, stack[1])
      BY <1>2, <3>1, <3>2 DEF Nested
    <3> QED
      BY <1>5, <3>2, <3>3 DEF Around
  <2>3. nodes # <<>>
    BY <1>3, <1>6, <2>1
  <2> QED
    BY <2>1, <2>2, <2>3
<1>8. root = 1
  BY <1>2, <1>7 DEF Nested
<1>9. Filled({})
  <2>1. ~AtStart
    BY <1>7 DEF AtStart
  <2>2. ~InText(N, open)
    BY <1>7 DEF InText
  <2>3. InBlanks(N, open, close) => Filled({})
    BY <1>7 DEF InBlanks, Left
  <2> QED
    BY <1>2, <2>1, <2>2, <2>3 DEF Somewhere, InStartTag, InEndTag
<1>10. ASSUME NEW n \in 1 .. Size(N)
       PROVE  /\ nodes[n].name = <<N[n].name>> /\ nodes[n].parent = N[n].parent /\ Len(nodes[n].value) \in Nat \ {0}
              /\ nodes[n].value \in Seq(Seq(STRING))
              /\ nodes[n].value[1] = N[n].text /\ \A i \in 2 .. Len(nodes[n].value) : nodes[n].value[i] = <<>>
  <2>1. n \in 1 .. Len(nodes)
    BY <1>6
  <2>2. nodes[n] \in Node
    BY <1>7, <2>1
  <2>3. nodes[n].value \in Seq(Seq(STRING)) /\ nodes[n].value # <<>>
    BY <1>9, <2>1, <2>2 DEF Node, Filled
  <2>4. Len(nodes[n].value) \in Nat \ {0}
    BY <2>3
  <2> QED
    BY <1>2, <2>1, <2>3, <2>4 DEF Copied
<1> QED
  BY <1>2, <1>6, <1>8, <1>10 DEF Built

\* It begins in front of the first tag.
LEMMA ParserStarts ==
  ASSUME ParserInit, NEW N, NEW open, NEW close, Listing(N, open, close)
  PROVE  Progress(N, open, close) /\ ParserInv
<1>1. ParserInv
  BY DEF ParserInit, ParserInv, ParserTypeOK, StackIsPath, NoTagBehindRoot, State
<1>2. Spread(N, open, close)
  BY <1>1, ListingFacts
<1>3. nodes = <<>> /\ stack = <<>> /\ Len(nodes) = 0 /\ Len(stack) = 0 /\ pos = 1 /\ state = "START" /\ root = 0 /\ ret = "OK"
  BY DEF ParserInit
<1>4. \A n \in 1 .. Size(N) : ~(open[n] + 2 < pos) /\ ~(n <= 0)
  <2> SUFFICES ASSUME NEW n \in 1 .. Size(N) PROVE ~(open[n] + 2 < 1) /\ ~(n <= 0)
    BY <1>3
  <2>1. open[n] \in Nat /\ Size(N) \in Nat
    BY <1>2 DEF Spread
  <2> QED
    BY <2>1
<1>5. Counted(N, open)
  BY <1>3, <1>4 DEF Counted
<1>6. Copied(N)
  BY <1>3 DEF Copied
<1>7. Nested(N, open, close)
  BY <1>3, <1>4 DEF Nested, Around
<1>8. Somewhere(N, open, close)
  BY <1>3 DEF Somewhere, AtStart
<1> QED
  BY <1>1, <1>3, <1>5, <1>6, <1>7, <1>8 DEF Progress

(***************************************************************************)
(* Texts and ordered lists.                                                *)
(***************************************************************************)
\* The parts of a text, one behind the other.
Joined(f, v, m) == f = [k \in 0 .. m |-> IF k = 0 THEN <<>> ELSE f[k - 1] \o v[k]]

\* A text whose parts but the first are empty is that part,
LEMMA JoinedIs ==
  ASSUME NEW v, NEW m \in Nat \ {0}, NEW text \in Seq(STRING), v[1] = text,
         \A i \in 2 .. m : v[i] = <<>>, NEW f, Joined(f, v, m)
  PROVE  f[m] = text
<1>1. \A k \in 0 .. m : f[k] = IF k = 0 THEN <<>> ELSE f[k - 1] \o v[k]
  BY DEF Joined
<1>2. f[0] = <<>>
  BY <1>1
<1>3. f[1] = text
  <2>1. 1 \in 0 .. m /\ 1 # 0 /\ 1 - 1 = 0
    OBVIOUS
  <2>3. f[1] = f[0] \o v[1]
    BY <1>1, <2>1
  <2>2. <<>> \o text = text
    BY ConcatEmptySeq
  <2> QED
    BY <1>2, <2>2, <2>3
<1> DEFINE bad == {k \in 1 .. m : f[k] # text}
<1>4. ASSUME bad # {}
      PROVE  FALSE
  <2>1. bad \subseteq Nat
    OBVIOUS
  <2>2. PICK k \in bad : \A j \in bad : k <= j
    <3> HIDE DEF bad
    <3> QED
      BY <1>4, <2>1, LeastNatural
  <2>3. k \in 1 .. m /\ k # 1 /\ f[k] # text
    BY <1>3, <2>2
  <2>4. k - 1 \in 1 .. m /\ ~(k <= k - 1) /\ k \in 2 .. m
    BY <2>3
  <2>5. f[k - 1] = text
    BY <2>2, <2>4
  <2>6. f[k] = text \o <<>>
    <3>1. k \in 0 .. m /\ k # 0 /\ v[k] = <<>>
      BY <2>3, <2>4
    <3>2. f[k] = f[k - 1] \o v[k]
      BY <1>1, <3>1
    <3> QED
      BY <2>5, <3>1, <3>2
  <2> QED
    BY <2>3, <2>6, ConcatEmptySeq
<1>5. m \in 1 .. m
  OBVIOUS
<1> QED
  BY <1>4, <1>5

\* and so is what the lookup reads.
LEMMA TextIs ==
  ASSUME NEW n, NEW text \in Seq(STRING), Len(nodes[n].value) \in Nat \ {0}, nodes[n].value[1] = text,
         \A i \in 2 .. Len(nodes[n].value) : nodes[n].value[i] = <<>>
  PROVE  Text(n) = text
<1> DEFINE v == nodes[n].value
           m == Len(v)
           f == [k \in 0 .. m |-> IF k = 0 THEN <<>> ELSE text]
           joined == CHOOSE g : Joined(g, v, m)
<1>1. Joined(f, v, m)
  <2>1. m \in Nat \ {0} /\ v[1] = text /\ \A i \in 2 .. m : v[i] = <<>>
    OBVIOUS
  <2> HIDE DEF v, m
  <2>2. ASSUME NEW k \in 0 .. m
        PROVE  f[k] = IF k = 0 THEN <<>> ELSE f[k - 1] \o v[k]
    <3>1. CASE k = 0
      BY <2>1, <3>1
    <3>2. CASE k = 1
      <4>1. f[k] = text /\ f[k - 1] = <<>> /\ v[k] = text
        BY <2>1, <3>2
      <4>2. <<>> \o text = text
        BY ConcatEmptySeq
      <4> QED
        BY <3>2, <4>1, <4>2
    <3>3. CASE k # 0 /\ k # 1
      <4>1. k \in 2 .. m /\ k - 1 \in 0 .. m /\ k - 1 # 0
        BY <2>1, <3>3
      <4>2. f[k] = text /\ f[k - 1] = text /\ v[k] = <<>>
        BY <2>1, <3>3, <4>1
      <4>3. text \o <<>> = text
        BY ConcatEmptySeq
      <4> QED
        BY <3>3, <4>2, <4>3
    <3> QED
      BY <3>1, <3>2, <3>3
  <2>3. f = [k \in 0 .. m |-> f[k]]
    OBVIOUS
  <2> HIDE DEF f
  <2> QED
    BY <2>2, <2>3 DEF Joined
<1>2. Joined(joined, v, m)
  <2> HIDE DEF f
  <2> QED
    BY <1>1
<1>3. joined[m] = text
  <2>1. m \in Nat \ {0} /\ v[1] = text /\ \A i \in 2 .. m : v[i] = <<>>
    OBVIOUS
  <2> HIDE DEF v, m, joined
  <2> QED
    BY <1>2, <2>1, JoinedIs
<1>4. Text(n) = joined[m]
  BY DEF Text, Joined
<1> QED
  BY <1>3, <1>4

\* s lists the numbers of S in their order.
Sorted(s, S) ==
  /\ s \in Seq(Nat)
  /\ \A i, j \in 1 .. Len(s) : i < j => s[i] < s[j]
  /\ \A i \in 1 .. Len(s) : s[i] \in S
  /\ \A k \in S : \E i \in 1 .. Len(s) : s[i] = k

Collected(f, S, m) ==
  f = [n \in 0 .. m |-> IF n = 0 THEN <<>> ELSE IF n \in S THEN Append(f[n - 1], n) ELSE f[n - 1]]

\* Ascending is a recursive function: what it returns satisfies its definition.
LEMMA CollectedEach ==
  ASSUME NEW S, NEW m \in Nat
  PROVE  \E f : Collected(f, S, m)
<1> DEFINE none == {k \in Nat : ~\E f : Collected(f, S, k)}
<1>1. ASSUME none # {}
      PROVE  FALSE
  <2>1. none \subseteq Nat
    OBVIOUS
  <2>2. PICK i \in none : \A k \in none : i <= k
    <3> HIDE DEF none
    <3> QED
      BY <1>1, <2>1, LeastNatural
  <2>3. i # 0
    <3>1. Collected([n \in 0 .. 0 |-> <<>>], S, 0)
      BY DEF Collected
    <3> QED
      BY <2>2, <3>1
  <2>4. i - 1 \in Nat /\ i - 1 \notin none /\ i \in Nat
    BY <2>2, <2>3
  <2>5. PICK g : Collected(g, S, i - 1)
    BY <2>4
  <2> DEFINE last == IF i \in S THEN Append(g[i - 1], i) ELSE g[i - 1]
             h == [n \in 0 .. i |-> IF n = i THEN last ELSE g[n]]
  <2>6. g = [n \in 0 .. i - 1 |-> IF n = 0 THEN <<>> ELSE IF n \in S THEN Append(g[n - 1], n) ELSE g[n - 1]]
    BY <2>5 DEF Collected
  <2>7. ASSUME NEW n \in 0 .. i
        PROVE  h[n] = IF n = 0 THEN <<>> ELSE IF n \in S THEN Append(h[n - 1], n) ELSE h[n - 1]
    <3>1. CASE n = i
      BY <2>3, <2>4, <3>1
    <3>2. CASE n = 0
      BY <2>3, <2>4, <2>6, <3>2
    <3>3. CASE n # i /\ n # 0
      <4>1. n \in 0 .. i - 1 /\ n - 1 \in 0 .. i - 1
        BY <2>4, <3>3
      <4>2. h[n] = g[n] /\ h[n - 1] = g[n - 1]
        BY <3>3, <4>1
      <4> QED
        BY <2>6, <3>3, <4>1, <4>2
    <3> QED
      BY <3>1, <3>2, <3>3
  <2>8. Collected(h, S, i)
    <3> HIDE DEF last
    <3>1. h = [n \in 0 .. i |-> h[n]]
      OBVIOUS
    <3> HIDE DEF h
    <3> QED
      BY <2>7, <3>1 DEF Collected
  <2> QED
    BY <2>2, <2>8
<1> QED
  BY <1>1

\* The numbers that are collected are in order, by the least place where they would not be.
LEMMA CollectedSorted ==
  ASSUME NEW S, NEW m \in Nat, NEW f, Collected(f, S, m)
  PROVE  \A n \in 0 .. m : Sorted(f[n], S \cap (1 .. n))
<1>1. \A n \in 0 .. m : f[n] = IF n = 0 THEN <<>> ELSE IF n \in S THEN Append(f[n - 1], n) ELSE f[n - 1]
  BY DEF Collected
<1> DEFINE bad == {n \in 0 .. m : ~Sorted(f[n], S \cap (1 .. n))}
<1>2. ASSUME bad # {}
      PROVE  FALSE
  <2>1. bad \subseteq Nat
    OBVIOUS
  <2>2. PICK n \in bad : \A j \in bad : n <= j
    <3> HIDE DEF bad
    <3> QED
      BY <1>2, <2>1, LeastNatural
  <2>3. n \in 0 .. m /\ n \in Nat /\ ~Sorted(f[n], S \cap (1 .. n))
    BY <2>1, <2>2
  <2>4. n # 0
    <3> SUFFICES ASSUME n = 0 PROVE FALSE
      OBVIOUS
    <3>1. f[n] = <<>> /\ S \cap (1 .. n) = {}
      BY <1>1, <2>3
    <3>2. Sorted(<<>>, {})
      BY DEF Sorted
    <3> QED
      BY <2>3, <3>1, <3>2
  <2>5. n - 1 \in 0 .. m /\ ~(n <= n - 1) /\ n >= 1
    BY <2>3, <2>4
  <2> DEFINE s == f[n - 1]
             P == S \cap (1 .. n - 1)
             Q == S \cap (1 .. n)
  <2>6. Sorted(s, P)
    BY <2>2, <2>5
  <2>7. s \in Seq(Nat) /\ Len(s) \in Nat
    BY <2>6 DEF Sorted
  <2>8. CASE n \notin S
    <3>1. f[n] = s
      BY <1>1, <2>3, <2>4, <2>8
    <3>2. P = Q
      BY <2>3, <2>5, <2>8
    <3> QED
      BY <2>3, <2>6, <3>1, <3>2
  <2>9. CASE n \in S
    <3> DEFINE t == f[n]
    <3>1. t = Append(s, n)
      BY <1>1, <2>3, <2>4, <2>9
    <3>2. \A k : k \in Q <=> k \in P \/ k = n
      BY <2>3, <2>5, <2>9
    <3>3. \A k \in P : k \in Nat /\ k < n
      BY <2>3
    <3> HIDE DEF s, P, Q, t
    <3>4. t \in Seq(Nat) /\ Len(t) = Len(s) + 1 /\ t[Len(s) + 1] = n /\ \A i \in 1 .. Len(s) : t[i] = s[i]
      BY <2>3, <2>7, <3>1
    <3>5. ASSUME NEW i \in 1 .. Len(t), NEW j \in 1 .. Len(t), i < j
          PROVE  t[i] < t[j]
      <4>1. i \in 1 .. Len(s) /\ (j \in 1 .. Len(s) \/ j = Len(s) + 1)
        <5> DEFINE l == Len(s)
        <5>1. i \in 1 .. l + 1 /\ j \in 1 .. l + 1 /\ i < j /\ l \in Nat
          BY <2>7, <3>4, <3>5
        <5> HIDE DEF l
        <5>2. i \in 1 .. l /\ (j \in 1 .. l \/ j = l + 1)
          BY <5>1
        <5> QED
          BY <5>2 DEF l
      <4>2. CASE j \in 1 .. Len(s)
        BY <2>6, <3>4, <3>5, <4>1, <4>2 DEF Sorted
      <4>3. CASE j = Len(s) + 1
        <5>1. s[i] \in P
          BY <2>6, <4>1 DEF Sorted
        <5> QED
          BY <3>3, <3>4, <4>1, <4>3, <5>1
      <4> QED
        BY <4>1, <4>2, <4>3
    <3>6. ASSUME NEW i \in 1 .. Len(t)
          PROVE  t[i] \in Q
      <4>1. i \in 1 .. Len(s) \/ i = Len(s) + 1
        BY <2>7, <3>4
      <4>2. i \in 1 .. Len(s) => s[i] \in P
        BY <2>6 DEF Sorted
      <4> QED
        BY <3>2, <3>4, <4>1, <4>2
    <3>7. ASSUME NEW k \in Q
          PROVE  \E i \in 1 .. Len(t) : t[i] = k
      <4>1. CASE k = n
        <5>1. Len(s) + 1 \in 1 .. Len(t)
          BY <2>7, <3>4
        <5> QED
          BY <3>4, <4>1, <5>1
      <4>2. CASE k \in P
        <5>1. PICK i \in 1 .. Len(s) : s[i] = k
          BY <2>6, <4>2 DEF Sorted
        <5>2. i \in 1 .. Len(t)
          BY <2>7, <3>4, <5>1
        <5> QED
          BY <3>4, <5>1, <5>2
      <4> QED
        BY <3>2, <4>1, <4>2
    <3>8. Sorted(t, Q)
      BY <3>4, <3>5, <3>6, <3>7 DEF Sorted
    <3> QED
      BY <2>3, <3>8 DEF t, Q
  <2> QED
    BY <2>8, <2>9
<1> QED
  BY <1>2

\* The numbers of a set come in their order, and every one of them does.
LEMMA AscendingSorted ==
  ASSUME NEW S, NEW m \in Nat, S \subseteq 1 .. m
  PROVE  Sorted(Ascending(S, m), S)
<1> DEFINE found == CHOOSE f : Collected(f, S, m)
<1>1. Collected(found, S, m)
  BY CollectedEach
<1>2. Ascending(S, m) = found[m]
  BY DEF Ascending, Collected
<1>3. m \in 0 .. m /\ S \cap (1 .. m) = S
  <2>1. m \in 0 .. m
    OBVIOUS
  <2>2. S \cap (1 .. m) = S
    BY Zenon
  <2> QED
    BY <2>1, <2>2
<1>4. Sorted(found[m], S \cap (1 .. m))
  <2> HIDE DEF found
  <2> QED
    BY <1>1, <1>3, CollectedSorted
<1> QED
  BY <1>2, <1>3, <1>4

\* There is only one such list.
LEMMA SortedUnique ==
  ASSUME NEW S, NEW s, NEW t, Sorted(s, S), Sorted(t, S)
  PROVE  s = t
<1>1. /\ s \in Seq(Nat) /\ Len(s) \in Nat /\ t \in Seq(Nat) /\ Len(t) \in Nat
      /\ \A i \in 1 .. Len(s) : s[i] \in Nat
      /\ \A i \in 1 .. Len(t) : t[i] \in Nat
  BY DEF Sorted
<1> DEFINE bad == {i \in 1 .. Len(s) : i \in 1 .. Len(t) /\ s[i] # t[i]}
<1>2. ASSUME bad # {}
      PROVE  FALSE
  <2>1. bad \subseteq Nat
    BY <1>1
  <2>2. PICK i \in bad : \A j \in bad : i <= j
    <3> HIDE DEF bad
    <3> QED
      BY <1>2, <2>1, LeastNatural
  <2>3. i \in 1 .. Len(s) /\ i \in 1 .. Len(t) /\ s[i] # t[i] /\ i \in Nat /\ s[i] \in Nat /\ t[i] \in Nat
    BY <1>1, <2>2
  <2>4. ASSUME NEW j \in 1 .. Len(s), j \in 1 .. Len(t), j < i
        PROVE  s[j] = t[j]
    <3>1. ~(i <= j)
      BY <1>1, <2>3, <2>4
    <3> QED
      BY <2>2, <2>4, <3>1
  <2>5. ~(s[i] < t[i])
    <3> SUFFICES ASSUME s[i] < t[i] PROVE FALSE
      OBVIOUS
    <3>1. s[i] \in S
      BY <2>3 DEF Sorted
    <3>2. PICK j \in 1 .. Len(t) : t[j] = s[i]
      BY <3>1 DEF Sorted
    <3>3. j < i
      <4>1. i < j => t[i] < t[j]
        BY <2>3, <3>2 DEF Sorted
      <4>2. j \in Nat /\ j # i
        BY <1>1, <2>3, <3>2
      <4>3. t[j] \in Nat
        BY <1>1, <3>2
      <4> QED
        BY <2>3, <3>2, <4>1, <4>2, <4>3
    <3>4. j \in 1 .. Len(s)
      BY <1>1, <2>3, <3>2, <3>3
    <3>5. s[j] = s[i] /\ s[j] < s[i]
      BY <2>3, <2>4, <3>2, <3>3, <3>4 DEF Sorted
    <3> QED
      BY <2>3, <3>5
  <2>6. ~(t[i] < s[i])
    <3> SUFFICES ASSUME t[i] < s[i] PROVE FALSE
      OBVIOUS
    <3>1. t[i] \in S
      BY <2>3 DEF Sorted
    <3>2. PICK j \in 1 .. Len(s) : s[j] = t[i]
      BY <3>1 DEF Sorted
    <3>3. j < i
      <4>1. i < j => s[i] < s[j]
        BY <2>3, <3>2 DEF Sorted
      <4>2. j \in Nat /\ j # i
        BY <1>1, <2>3, <3>2
      <4>3. s[j] \in Nat
        BY <1>1, <3>2
      <4> QED
        BY <2>3, <3>2, <4>1, <4>2, <4>3
    <3>4. j \in 1 .. Len(t)
      BY <1>1, <2>3, <3>2, <3>3
    <3>5. t[j] = t[i] /\ t[j] < t[i]
      BY <2>3, <2>4, <3>2, <3>3, <3>4 DEF Sorted
    <3> QED
      BY <2>3, <3>5
  <2> QED
    BY <2>3, <2>5, <2>6
<1>3. ~(Len(s) < Len(t))
  <2> SUFFICES ASSUME Len(s) < Len(t) PROVE FALSE
    OBVIOUS
  <2>1. Len(t) \in 1 .. Len(t) /\ t[Len(t)] \in Nat
    BY <1>1
  <2>2. t[Len(t)] \in S
    BY <2>1 DEF Sorted
  <2>3. PICK j \in 1 .. Len(s) : s[j] = t[Len(t)]
    BY <2>2 DEF Sorted
  <2>4. j \in 1 .. Len(t) /\ j < Len(t)
    BY <1>1, <2>3
  <2>5. t[j] < t[Len(t)] /\ t[j] = s[j]
    BY <1>2, <2>1, <2>3, <2>4 DEF Sorted
  <2> QED
    BY <2>1, <2>3, <2>5
<1>4. ~(Len(t) < Len(s))
  <2> SUFFICES ASSUME Len(t) < Len(s) PROVE FALSE
    OBVIOUS
  <2>1. Len(s) \in 1 .. Len(s) /\ s[Len(s)] \in Nat
    BY <1>1
  <2>2. s[Len(s)] \in S
    BY <2>1 DEF Sorted
  <2>3. PICK j \in 1 .. Len(t) : t[j] = s[Len(s)]
    BY <2>2 DEF Sorted
  <2>4. j \in 1 .. Len(s) /\ j < Len(s)
    BY <1>1, <2>3
  <2>5. s[j] < s[Len(s)] /\ t[j] = s[j]
    BY <1>2, <2>1, <2>3, <2>4 DEF Sorted
  <2> QED
    BY <2>1, <2>3, <2>5
<1>5. Len(s) = Len(t) /\ \A i \in 1 .. Len(s) : s[i] = t[i]
  BY <1>1, <1>2, <1>3, <1>4
<1> HIDE DEF bad
<1> QED
  BY <1>1, <1>5, SeqEqual

(***************************************************************************)
(* Lookups in the tree of a document that was written from a record.       *)
(***************************************************************************)
\* A function on 1 .. n is a sequence.
LEMMA FunctionIsSeq ==
  ASSUME NEW m \in Nat, NEW f, f = [i \in 1 .. m |-> f[i]]
  PROVE  /\ f \in Seq({f[i] : i \in 1 .. m}) /\ Len(f) = m /\ DOMAIN f = 1 .. m
         /\ f = <<>> <=> m = 0
<1> DEFINE S == {f[i] : i \in 1 .. m}
<1>1. f \in [1 .. m -> S]
  OBVIOUS
<1>2. f \in Seq(S)
  <2> HIDE DEF S
  <2> QED
    BY <1>1
<1>3. DOMAIN f = 1 .. m
  OBVIOUS
<1>4. Len(f) = m
  <2> HIDE DEF S
  <2> QED
    BY <1>2, <1>3
<1>5. f = <<>> <=> m = 0
  <2> HIDE DEF S
  <2> QED
    BY <1>2, <1>4
<1> QED
  BY <1>2, <1>3, <1>4, <1>5

Named(E, name) == {k \in 1 .. Len(E) : E[k].name = name}

\* The elements of one name, in their order.
LEMMA PlacesFacts ==
  ASSUME NEW E, Len(E) \in Nat, DOMAIN E = 1 .. Len(E), NEW name
  PROVE  /\ Sorted(Places(E, name), Named(E, name))
         /\ Len(Places(E, name)) \in Nat /\ DOMAIN Places(E, name) = 1 .. Len(Places(E, name))
         /\ \A i \in 1 .. Len(Places(E, name)) :
              /\ Places(E, name)[i] \in 1 .. Len(E) /\ E[Places(E, name)[i]].name = name
              /\ Elements(E, name)[i] = E[Places(E, name)[i]]
         /\ DOMAIN Elements(E, name) = 1 .. Len(Places(E, name)) /\ Len(Elements(E, name)) = Len(Places(E, name))
         /\ Wrote(E, name) <=> Len(Places(E, name)) # 0
         /\ Wrote(E, name) <=> \E k \in 1 .. Len(E) : E[k].name = name
<1> DEFINE p == Places(E, name)
           q == Elements(E, name)
           S == Named(E, name)
<1>1. p = Ascending(S, Len(E))
  BY DEF Places, Named
<1>2. Sorted(p, S)
  <2>1. S \subseteq 1 .. Len(E)
    BY DEF Named
  <2> HIDE DEF S, p
  <2> QED
    BY <1>1, <2>1, AscendingSorted
<1>3. p \in Seq(Nat) /\ Len(p) \in Nat /\ DOMAIN p = 1 .. Len(p)
  <2> HIDE DEF p, S
  <2> QED
    BY <1>2 DEF Sorted
<1>4. q = [i \in 1 .. Len(p) |-> E[p[i]]]
  BY <1>3 DEF Elements
<1>5. DOMAIN q = 1 .. Len(p) /\ Len(q) = Len(p) /\ (q = <<>> <=> Len(p) = 0) /\ \A i \in 1 .. Len(p) : q[i] = E[p[i]]
  <2> HIDE DEF p, q
  <2>1. \A i \in 1 .. Len(p) : q[i] = E[p[i]]
    BY <1>4
  <2>2. q = [i \in 1 .. Len(p) |-> q[i]]
    BY <1>4, <2>1
  <2> QED
    BY <1>3, <2>1, <2>2, FunctionIsSeq
<1>6. \A i \in 1 .. Len(p) : p[i] \in S
  <2> HIDE DEF p, S
  <2> QED
    BY <1>2 DEF Sorted
<1>7. \A k \in S : \E i \in 1 .. Len(p) : p[i] = k
  <2> HIDE DEF p, S
  <2> QED
    BY <1>2 DEF Sorted
<1>8. Wrote(E, name) <=> Len(p) # 0
  BY <1>5 DEF Wrote
<1>9. Len(p) # 0 <=> \E k \in 1 .. Len(E) : E[k].name = name
  <2>1. ASSUME Len(p) # 0
        PROVE  \E k \in 1 .. Len(E) : E[k].name = name
    <3>1. 1 \in 1 .. Len(p)
      <4> HIDE DEF p
      <4> QED
        BY <1>3, <2>1
    <3>2. p[1] \in S
      BY <1>6, <3>1
    <3> QED
      BY <3>2 DEF Named
  <2>2. ASSUME NEW k \in 1 .. Len(E), E[k].name = name
        PROVE  Len(p) # 0
    <3>1. k \in S
      BY <2>2 DEF Named
    <3>2. PICK i \in 1 .. Len(p) : p[i] = k
      BY <1>7, <3>1
    <3> HIDE DEF p
    <3> QED
      BY <1>3, <3>2
  <2> QED
    BY <2>1, <2>2
<1>10. \A i \in 1 .. Len(p) : p[i] \in 1 .. Len(E) /\ E[p[i]].name = name
  BY <1>6 DEF Named
<1> HIDE DEF p, q, S
<1>11. /\ Sorted(p, S) /\ Len(p) \in Nat /\ DOMAIN p = 1 .. Len(p)
       /\ \A i \in 1 .. Len(p) : p[i] \in 1 .. Len(E) /\ E[p[i]].name = name /\ q[i] = E[p[i]]
       /\ DOMAIN q = 1 .. Len(p) /\ Len(q) = Len(p)
       /\ Wrote(E, name) <=> Len(p) # 0
       /\ Wrote(E, name) <=> \E k \in 1 .. Len(E) : E[k].name = name
  BY <1>2, <1>3, <1>5, <1>8, <1>9, <1>10
<1> QED
  BY <1>11 DEF p, q, S

\* The children of node n are the elements E, the k-th of them node at[k].
Shown(n, E, at) ==
  /\ Len(E) \in Nat /\ DOMAIN E = 1 .. Len(E)
  /\ \A k \in 1 .. Len(E) : at[k] \in Nat \ {0} /\ Text(at[k]) = E[k].text /\ nodes[at[k]].value # <<>>
  /\ \A j, k \in 1 .. Len(E) : j < k => at[j] < at[k]
  /\ \A name, c : c \in Children(n, name) <=> \E k \in 1 .. Len(E) : E[k].name = name /\ c = at[k]

\* A name leads to the first element that has it.
LEMMA Lookup ==
  ASSUME NEW n, NEW E, NEW at, Shown(n, E, at), NEW name
  PROVE  /\ Has(n, name) <=> Wrote(E, name)
         /\ Wrote(E, name) => TextOf(n, name) = Said(E, name)
<1> DEFINE p == Places(E, name)
           C == Children(n, name)
<1>1. Len(E) \in Nat /\ DOMAIN E = 1 .. Len(E)
  BY DEF Shown
<1>2. /\ Sorted(p, Named(E, name)) /\ Len(p) \in Nat
      /\ \A i \in 1 .. Len(p) :
           p[i] \in 1 .. Len(E) /\ E[p[i]].name = name /\ Elements(E, name)[i] = E[p[i]]
      /\ Wrote(E, name) <=> Len(p) # 0
      /\ Wrote(E, name) <=> \E k \in 1 .. Len(E) : E[k].name = name
  BY <1>1, PlacesFacts
<1>3. \A c : c \in C <=> \E k \in 1 .. Len(E) : E[k].name = name /\ c = at[k]
  BY DEF Shown
<1>4. CASE ~Wrote(E, name)
  <2>1. C = {}
    BY <1>2, <1>3, <1>4
  <2>2. Find(n, name) = 0
    BY <2>1 DEF Find
  <2> QED
    BY <1>4, <2>2 DEF Has
<1>5. CASE Wrote(E, name)
  <2> HIDE DEF p, C
  <2>1. 1 \in 1 .. Len(p)
    BY <1>2, <1>5
  <2> DEFINE f == p[1]
  <2>2. f \in 1 .. Len(E) /\ E[f].name = name /\ Elements(E, name)[1] = E[f]
    BY <1>2, <2>1
  <2>3. at[f] \in Nat \ {0} /\ Text(at[f]) = E[f].text /\ nodes[at[f]].value # <<>>
    BY <2>2 DEF Shown
  <2>4. at[f] \in C
    BY <1>3, <2>2
  <2>5. ASSUME NEW c \in C
        PROVE  at[f] <= c /\ c \in Nat
    <3>1. PICK k \in 1 .. Len(E) : E[k].name = name /\ c = at[k]
      BY <1>3
    <3>2. at[k] \in Nat
      BY <3>1 DEF Shown
    <3>3. k \in Named(E, name)
      BY <3>1 DEF Named
    <3>4. PICK i \in 1 .. Len(p) : p[i] = k
      BY <1>2, <3>3 DEF Sorted
    <3>5. i = 1 \/ f < k
      <4>1. i = 1 \/ 1 < i
        BY <1>2, <3>4
      <4>2. 1 < i => p[1] < p[i]
        BY <1>2, <2>1, <3>4 DEF Sorted
      <4> QED
        BY <3>4, <4>1, <4>2
    <3>6. CASE i = 1
      BY <2>3, <3>1, <3>2, <3>4, <3>6
    <3>7. CASE f < k
      <4>1. at[f] < at[k]
        BY <2>2, <3>1, <3>7 DEF Shown
      <4> QED
        BY <2>3, <3>1, <3>2, <4>1
    <3> QED
      BY <3>5, <3>6, <3>7
  <2> HIDE DEF f
  <2>6. Find(n, name) = at[f]
    <3> DEFINE g == CHOOSE c \in C : \A d \in C : c <= d
    <3>1. C # {} /\ \A d \in C : at[f] <= d
      BY <2>4, <2>5
    <3>2. Find(n, name) = g
      BY <3>1 DEF Find, C
    <3>3. g \in C /\ \A d \in C : g <= d
      BY <2>4, <3>1
    <3>4. g <= at[f] /\ at[f] <= g /\ g \in Nat
      BY <2>4, <2>5, <3>3
    <3> HIDE DEF g
    <3> QED
      BY <2>3, <3>2, <3>4
  <2>7. Has(n, name)
    BY <2>3, <2>6 DEF Has
  <2>8. TextOf(n, name) = Said(E, name)
    BY <2>2, <2>3, <2>6 DEF TextOf, Said
  <2> QED
    BY <1>5, <2>7, <2>8
<1> QED
  BY <1>4, <1>5

\* All elements of a name, in their order.
LEMMA AllFacts ==
  ASSUME NEW E, NEW at, Shown(Record, E, at), NEW name, Len(nodes) \in Nat, DOMAIN nodes = 1 .. Len(nodes)
  PROVE  /\ Len(Elements(E, name)) \in Nat /\ DOMAIN All(name) = 1 .. Len(Elements(E, name))
         /\ DOMAIN Elements(E, name) = 1 .. Len(Elements(E, name))
         /\ \A i \in 1 .. Len(Elements(E, name)) :
              \E k \in 1 .. Len(E) : E[k].name = name /\ All(name)[i] = at[k] /\ Elements(E, name)[i] = E[k]
         /\ \A k \in 1 .. Len(E) : E[k].name = name => \E i \in 1 .. Len(Elements(E, name)) : Elements(E, name)[i] = E[k]
<1> DEFINE p == Places(E, name)
           S == Named(E, name)
           C == Children(Record, name)
           a == [i \in 1 .. Len(p) |-> at[p[i]]]
<1>1. Len(E) \in Nat /\ DOMAIN E = 1 .. Len(E)
  BY DEF Shown
<1>2. /\ Sorted(p, S) /\ Len(p) \in Nat /\ DOMAIN p = 1 .. Len(p)
      /\ \A i \in 1 .. Len(p) :
           p[i] \in 1 .. Len(E) /\ E[p[i]].name = name /\ Elements(E, name)[i] = E[p[i]]
      /\ DOMAIN Elements(E, name) = 1 .. Len(p) /\ Len(Elements(E, name)) = Len(p)
  BY <1>1, PlacesFacts
<1>3. \A c : c \in C <=> \E k \in 1 .. Len(E) : E[k].name = name /\ c = at[k]
  BY DEF Shown
<1>4. /\ \A k \in 1 .. Len(E) : at[k] \in Nat
      /\ \A j, k \in 1 .. Len(E) : j < k => at[j] < at[k]
  BY DEF Shown
<1>5. Sorted(All(name), C)
  <2>1. C \subseteq 1 .. Len(nodes)
    BY DEF Children
  <2>2. All(name) = Ascending(C, Len(nodes))
    BY DEF All
  <2> HIDE DEF C
  <2> QED
    BY <2>1, <2>2, AscendingSorted
<1> HIDE DEF C, p
<1>6. Sorted(a, C)
  <2>1. \A i \in 1 .. Len(p) : a[i] = at[p[i]] /\ at[p[i]] \in Nat
    BY <1>2, <1>4
  <2>2. a = [i \in 1 .. Len(p) |-> a[i]]
    OBVIOUS
  <2> HIDE DEF a
  <2>3. a \in Seq({a[i] : i \in 1 .. Len(p)}) /\ Len(a) = Len(p)
    BY <1>2, <2>2, FunctionIsSeq
  <2>4. a \in Seq(Nat)
    <3>1. {a[i] : i \in 1 .. Len(p)} \subseteq Nat
      BY <2>1
    <3>2. a \in [1 .. Len(p) -> Nat]
      BY <2>1, <2>2
    <3> QED
      BY <1>2, <3>2
  <2>5. ASSUME NEW i \in 1 .. Len(a), NEW j \in 1 .. Len(a), i < j
        PROVE  a[i] < a[j]
    <3>1. i \in 1 .. Len(p) /\ j \in 1 .. Len(p)
      BY <2>3
    <3>2. p[i] < p[j]
      BY <1>2, <2>5, <3>1 DEF Sorted
    <3>3. p[i] \in 1 .. Len(E) /\ p[j] \in 1 .. Len(E)
      BY <1>2, <3>1
    <3> QED
      BY <1>4, <2>1, <3>1, <3>2, <3>3
  <2>6. ASSUME NEW i \in 1 .. Len(a)
        PROVE  a[i] \in C
    BY <1>2, <1>3, <2>1, <2>3
  <2>7. ASSUME NEW c \in C
        PROVE  \E i \in 1 .. Len(a) : a[i] = c
    <3>1. PICK k \in 1 .. Len(E) : E[k].name = name /\ c = at[k]
      BY <1>3
    <3>2. k \in S
      BY <3>1 DEF Named
    <3>3. PICK i \in 1 .. Len(p) : p[i] = k
      BY <1>2, <3>2 DEF Sorted
    <3> QED
      BY <2>1, <2>3, <3>1, <3>3
  <2> QED
    BY <2>4, <2>5, <2>6, <2>7 DEF Sorted
<1>7. All(name) = a
  <2> HIDE DEF a
  <2> QED
    BY <1>5, <1>6, SortedUnique
<1>8. DOMAIN All(name) = 1 .. Len(p) /\ \A i \in 1 .. Len(p) : All(name)[i] = at[p[i]]
  BY <1>7
<1>9. ASSUME NEW k \in 1 .. Len(E), E[k].name = name
      PROVE  \E i \in 1 .. Len(p) : Elements(E, name)[i] = E[k]
  <2>1. k \in S
    BY <1>9 DEF Named
  <2>2. PICK i \in 1 .. Len(p) : p[i] = k
    BY <1>2, <2>1 DEF Sorted
  <2> QED
    BY <1>2, <2>2
<1>10. ASSUME NEW i \in 1 .. Len(p)
       PROVE  \E k \in 1 .. Len(E) : E[k].name = name /\ All(name)[i] = at[k] /\ Elements(E, name)[i] = E[k]
  <2>1. p[i] \in 1 .. Len(E) /\ E[p[i]].name = name /\ Elements(E, name)[i] = E[p[i]] /\ All(name)[i] = at[p[i]]
    BY <1>2, <1>8
  <2> QED
    BY <2>1
<1> HIDE DEF a, S
<1> QED
  BY <1>2, <1>8, <1>9, <1>10

(***************************************************************************)
(* The tree of a document shows the record it was written from.            *)
(***************************************************************************)
\* The entries of the list, one by one.
Rows(E, home, N) ==
  /\ Size(N) \in Nat /\ Size(N) >= 2 /\ N[1].parent = 0 /\ N[2].parent = 1 /\ N[2].name = "record"
  /\ \A k \in 1 .. Len(E) :
       /\ home[k] \in 1 .. Size(N) /\ home[k] >= 3 /\ N[home[k]].parent = 2
       /\ N[home[k]].name = E[k].name /\ N[home[k]].text = E[k].text
       /\ \A j \in 1 .. Len(E[k].elements) :
            /\ home[k] + j \in 1 .. Size(N) /\ N[home[k] + j].parent = home[k]
            /\ N[home[k] + j].name = E[k].elements[j].name /\ N[home[k] + j].text = E[k].elements[j].text
  /\ \A m, k \in 1 .. Len(E) : k < m => home[k] < home[m]
  /\ \A m, k \in 1 .. Len(E) : home[k] = home[m] => k = m
  /\ \A n \in 1 .. Size(N) :
       n = 1 \/ n = 2 \/ \E k \in 1 .. Len(E) : n = home[k] \/ \E j \in 1 .. Len(E[k].elements) : n = home[k] + j

\* The list shows the entries at their places.
LEMMA ListedRows ==
  ASSUME NEW E, PlainRecord(E), NEW home, Homes(E, home), NEW N, Listed(E, home, N)
  PROVE  Rows(E, home, N)
<1>1. /\ Len(E) \in Nat /\ DOMAIN E = 1 .. Len(E)
      /\ \A k \in 1 .. Len(E) :
           /\ Len(E[k].elements) \in Nat /\ DOMAIN E[k].elements = 1 .. Len(E[k].elements)
  BY RecordTypes
<1>2. /\ \A k \in 1 .. Len(E) + 1 : home[k] \in Nat /\ home[k] >= 3
      /\ \A m \in 1 .. Len(E) + 1 : \A k \in 1 .. Len(E) : k < m => home[k] + Len(E[k].elements) + 1 <= home[m]
  BY HomesGrow
<1>3. Size(N) = home[Len(E) + 1] - 1 /\ Size(N) \in Nat /\ Size(N) >= 2
  BY ListedFacts DEF ListFacts
<1>4. /\ N[1] = Entry([name |-> "report", text |-> <<>>], 0, Size(N))
      /\ N[2] = Entry([name |-> "record", text |-> <<>>], 1, Size(N))
      /\ \A k \in 1 .. Len(E) :
           /\ N[home[k]] = Entry(E[k], 2, home[k + 1] - 1)
           /\ \A j \in 1 .. Len(E[k].elements) : N[home[k] + j] = Entry(E[k].elements[j], home[k], home[k] + j)
  BY <1>1, <1>3 DEF Listed
<1>5. N[1].parent = 0 /\ N[2].parent = 1 /\ N[2].name = "record"
  BY <1>4 DEF Entry
<1>6. ASSUME NEW k \in 1 .. Len(E)
      PROVE  /\ home[k] \in 1 .. Size(N) /\ home[k] >= 3 /\ N[home[k]].parent = 2
             /\ N[home[k]].name = E[k].name /\ N[home[k]].text = E[k].text
  <2>0. N[home[k]] = Entry(E[k], 2, home[k + 1] - 1)
    BY <1>4
  <2>1. N[home[k]].parent = 2 /\ N[home[k]].name = E[k].name /\ N[home[k]].text = E[k].text
    BY <2>0 DEF Entry
  <2>2. /\ home[k] + Len(E[k].elements) + 1 <= home[Len(E) + 1]
        /\ home[k] \in Nat /\ home[k] >= 3 /\ home[Len(E) + 1] \in Nat /\ Len(E[k].elements) \in Nat
    <3>1. Len(E) + 1 \in 1 .. Len(E) + 1 /\ k \in 1 .. Len(E) + 1 /\ k < Len(E) + 1
      BY <1>1
    <3> QED
      BY <1>1, <1>2, <3>1
  <2> QED
    BY <1>3, <2>1, <2>2
<1>7. ASSUME NEW k \in 1 .. Len(E), NEW j \in 1 .. Len(E[k].elements)
      PROVE  /\ home[k] + j \in 1 .. Size(N) /\ N[home[k] + j].parent = home[k]
             /\ N[home[k] + j].name = E[k].elements[j].name /\ N[home[k] + j].text = E[k].elements[j].text
  <2>0. N[home[k] + j] = Entry(E[k].elements[j], home[k], home[k] + j)
    BY <1>4
  <2>1. /\ N[home[k] + j].parent = home[k]
        /\ N[home[k] + j].name = E[k].elements[j].name /\ N[home[k] + j].text = E[k].elements[j].text
    BY <2>0 DEF Entry
  <2>2. /\ home[k] + Len(E[k].elements) + 1 <= home[Len(E) + 1]
        /\ home[k] \in Nat /\ home[Len(E) + 1] \in Nat /\ Len(E[k].elements) \in Nat
    <3>1. Len(E) + 1 \in 1 .. Len(E) + 1 /\ k \in 1 .. Len(E) + 1 /\ k < Len(E) + 1
      BY <1>1
    <3> QED
      BY <1>1, <1>2, <3>1
  <2>3. home[k] + j \in 1 .. Size(N)
    <3> DEFINE h == home[k]
               b == home[Len(E) + 1]
               w == Len(E[k].elements)
    <3>1. j \in 1 .. w /\ h \in Nat /\ b \in Nat /\ w \in Nat /\ h + w + 1 <= b
      BY <1>7, <2>2
    <3>2. Size(N) = b - 1
      BY <1>3
    <3> HIDE DEF h, b, w
    <3>3. h + j \in 1 .. b - 1
      BY <3>1
    <3> QED
      BY <3>2, <3>3 DEF h
  <2> QED
    BY <2>1, <2>3
<1>8. ASSUME NEW m \in 1 .. Len(E), NEW k \in 1 .. Len(E), k < m
      PROVE  home[k] < home[m]
  <2>1. home[k] + Len(E[k].elements) + 1 <= home[m] /\ home[k] \in Nat /\ home[m] \in Nat /\ Len(E[k].elements) \in Nat
    BY <1>1, <1>2, <1>8
  <2> QED
    BY <2>1
<1>9. ASSUME NEW m \in 1 .. Len(E), NEW k \in 1 .. Len(E), home[k] = home[m]
      PROVE  k = m
  <2>1. ~(k < m) /\ ~(m < k) /\ k \in Int /\ m \in Int
    BY <1>1, <1>2, <1>8, <1>9
  <2> QED
    BY <2>1
<1>10. ASSUME NEW n \in 1 .. Size(N), n # 1, n # 2
       PROVE  \E k \in 1 .. Len(E) : n = home[k] \/ \E j \in 1 .. Len(E[k].elements) : n = home[k] + j
  <2>1. n \in Nat /\ n >= 3 /\ n <= home[Len(E) + 1] - 1
    BY <1>3, <1>10
  <2> QED
    BY <2>1, HomesCover
<1>11. \A n \in 1 .. Size(N) :
         n = 1 \/ n = 2 \/ \E k \in 1 .. Len(E) : n = home[k] \/ \E j \in 1 .. Len(E[k].elements) : n = home[k] + j
  BY <1>10
<1>12. \A k \in 1 .. Len(E) :
         /\ home[k] \in 1 .. Size(N) /\ home[k] >= 3 /\ N[home[k]].parent = 2
         /\ N[home[k]].name = E[k].name /\ N[home[k]].text = E[k].text
         /\ \A j \in 1 .. Len(E[k].elements) :
              /\ home[k] + j \in 1 .. Size(N) /\ N[home[k] + j].parent = home[k]
              /\ N[home[k] + j].name = E[k].elements[j].name /\ N[home[k] + j].text = E[k].elements[j].text
  BY <1>6, <1>7
<1> QED
  BY <1>3, <1>5, <1>8, <1>9, <1>11, <1>12 DEF Rows

\* Names are equal if the sequences of one name are.
LEMMA SingleName ==
  ASSUME NEW a, NEW b
  PROVE  <<a>> = <<b>> <=> a = b
<1>1. <<a>>[1] = a /\ <<b>>[1] = b
  OBVIOUS
<1> QED
  BY <1>1

\* The children of a node are the entries with that parent, and its text is the one of its entry.
LEMMA BuiltNode ==
  ASSUME ParserInv, NEW N, Size(N) \in Nat, Built(N)
  PROVE  /\ \A n, name, c : c \in Children(n, name) <=> c \in 1 .. Size(N) /\ N[c].parent = n /\ N[c].name = name
         /\ \A n \in 1 .. Size(N) : N[n].text \in Seq(STRING) => Text(n) = N[n].text /\ nodes[n].value # <<>>
<1>1. nodes \in Seq(Node) /\ DOMAIN nodes = 1 .. Size(N)
  BY DEF ParserInv, ParserTypeOK, Built
<1>2. ASSUME NEW n, NEW name, NEW c
      PROVE  c \in Children(n, name) <=> c \in 1 .. Size(N) /\ N[c].parent = n /\ N[c].name = name
  <2>1. c \in Children(n, name) <=> c \in 1 .. Size(N) /\ nodes[c].parent = n /\ nodes[c].name = <<name>>
    BY <1>1 DEF Children
  <2>2. c \in 1 .. Size(N) => nodes[c].parent = N[c].parent /\ nodes[c].name = <<N[c].name>>
    BY DEF Built
  <2>3. <<N[c].name>> = <<name>> <=> N[c].name = name
    BY SingleName
  <2> QED
    BY <2>1, <2>2, <2>3
<1>3. ASSUME NEW n \in 1 .. Size(N), N[n].text \in Seq(STRING)
      PROVE  Text(n) = N[n].text /\ nodes[n].value # <<>>
  <2>1. /\ Len(nodes[n].value) \in Nat \ {0} /\ nodes[n].value[1] = N[n].text
        /\ \A i \in 2 .. Len(nodes[n].value) : nodes[n].value[i] = <<>>
    BY DEF Built
  <2>2. Text(n) = N[n].text
    BY <1>3, <2>1, TextIs
  <2>3. nodes[n].value # <<>>
    <3>1. Len(<<>>) = 0
      OBVIOUS
    <3> QED
      BY <2>1, <3>1
  <2> QED
    BY <2>2, <2>3
<1> QED
  BY <1>2, <1>3

\* The tree shows the record, each element with its own.
Mirrors(E) ==
  /\ Record # 0
  /\ \E at : /\ Shown(Record, E, at)
             /\ \A k \in 1 .. Len(E) : \E bt : Shown(at[k], E[k].elements, bt)

\* The record is the second entry of the list.
LEMMA RecordIsTwo ==
  ASSUME NEW E, NEW home, NEW N, Rows(E, home, N), root = 1,
         \A k \in 1 .. Len(E) : Len(E[k].elements) \in Nat,
         \A n, name, c : c \in Children(n, name) <=> c \in 1 .. Size(N) /\ N[c].parent = n /\ N[c].name = name
  PROVE  Record = 2
<1> DEFINE C == Children(1, "record")
<1>1. 2 \in C
  <2>1. 2 \in 1 .. Size(N)
    BY DEF Rows
  <2> QED
    BY <2>1 DEF Rows
<1>2. ASSUME NEW c \in C
      PROVE  c = 2
  <2>1. c \in 1 .. Size(N) /\ N[c].parent = 1
    OBVIOUS
  <2>2. c # 1
    BY <2>1 DEF Rows
  <2>3. \A k \in 1 .. Len(E) : c # home[k] /\ \A j \in 1 .. Len(E[k].elements) : c # home[k] + j
    <3>1. \A k \in 1 .. Len(E) : /\ N[home[k]].parent = 2 /\ home[k] >= 3
                                 /\ \A j \in 1 .. Len(E[k].elements) : N[home[k] + j].parent = home[k]
      BY DEF Rows
    <3>2. \A k \in 1 .. Len(E) : c # home[k]
      BY <2>1, <3>1
    <3>3. \A k \in 1 .. Len(E) : home[k] # 1
      BY <3>1
    <3>4. \A k \in 1 .. Len(E) : \A j \in 1 .. Len(E[k].elements) : c # home[k] + j
      <4> SUFFICES ASSUME NEW k \in 1 .. Len(E), NEW j \in 1 .. Len(E[k].elements), c = home[k] + j
                   PROVE FALSE
        OBVIOUS
      <4>1. N[home[k] + j].parent = home[k] /\ home[k] # 1
        BY <3>1, <3>3
      <4> QED
        BY <2>1, <4>1
    <3> QED
      BY <3>2, <3>4
  <2>4. c = 1 \/ c = 2 \/ \E k \in 1 .. Len(E) : c = home[k] \/ \E j \in 1 .. Len(E[k].elements) : c = home[k] + j
    BY <2>1 DEF Rows
  <2> QED
    BY <2>2, <2>3, <2>4
<1>3. C = {2}
  BY <1>1, <1>2
<1>4. (CHOOSE c \in {2} : \A d \in {2} : c <= d) = 2
  OBVIOUS
<1>5. Find(1, "record") = 2
  <2>1. Find(1, "record") = CHOOSE c \in C : \A d \in C : c <= d
    BY <1>3 DEF Find
  <2> HIDE DEF C
  <2> QED
    BY <1>3, <1>4, <2>1
<1> QED
  BY <1>5 DEF Record

\* Each element of the record is a child of its node, with its own elements below it.
LEMMA BuiltMirrors ==
  ASSUME ParserInv, NEW E, PlainRecord(E), NEW home, Homes(E, home), NEW N, Listed(E, home, N), Built(N)
  PROVE  Mirrors(E)
<1>1. Rows(E, home, N)
  BY ListedRows
<1>2. /\ Len(E) \in Nat /\ DOMAIN E = 1 .. Len(E)
      /\ \A k \in 1 .. Len(E) :
           /\ E[k].text \in Seq(STRING) /\ Len(E[k].elements) \in Nat
           /\ DOMAIN E[k].elements = 1 .. Len(E[k].elements)
           /\ \A j \in 1 .. Len(E[k].elements) : E[k].elements[j].text \in Seq(STRING)
  BY RecordTypes
<1>3. Size(N) \in Nat /\ root = 1
  BY <1>1 DEF Rows, Built
<1>4. /\ \A n, name, c : c \in Children(n, name) <=> c \in 1 .. Size(N) /\ N[c].parent = n /\ N[c].name = name
      /\ \A n \in 1 .. Size(N) : N[n].text \in Seq(STRING) => Text(n) = N[n].text /\ nodes[n].value # <<>>
  BY <1>3, BuiltNode
<1>5. Record = 2
  BY <1>1, <1>2, <1>3, <1>4, RecordIsTwo
<1>6. /\ \A k \in 1 .. Len(E) :
           /\ home[k] \in 1 .. Size(N) /\ home[k] >= 3 /\ N[home[k]].parent = 2
           /\ N[home[k]].name = E[k].name /\ N[home[k]].text = E[k].text
           /\ \A j \in 1 .. Len(E[k].elements) :
                /\ home[k] + j \in 1 .. Size(N) /\ N[home[k] + j].parent = home[k]
                /\ N[home[k] + j].name = E[k].elements[j].name /\ N[home[k] + j].text = E[k].elements[j].text
      /\ \A m, k \in 1 .. Len(E) : k < m => home[k] < home[m]
      /\ \A m, k \in 1 .. Len(E) : home[k] = home[m] => k = m
      /\ N[1].parent = 0 /\ N[2].parent = 1
      /\ \A n \in 1 .. Size(N) :
           n = 1 \/ n = 2 \/ \E k \in 1 .. Len(E) : n = home[k] \/ \E j \in 1 .. Len(E[k].elements) : n = home[k] + j
  BY <1>1 DEF Rows
<1>7. Shown(2, E, home)
  <2>1. ASSUME NEW k \in 1 .. Len(E)
        PROVE  home[k] \in Nat \ {0} /\ Text(home[k]) = E[k].text /\ nodes[home[k]].value # <<>>
    <3>1. home[k] \in 1 .. Size(N) /\ N[home[k]].text = E[k].text /\ E[k].text \in Seq(STRING)
      BY <1>2, <1>6
    <3> QED
      BY <1>3, <1>4, <3>1
  <2>2. ASSUME NEW name, NEW c
        PROVE  c \in Children(2, name) <=> \E k \in 1 .. Len(E) : E[k].name = name /\ c = home[k]
    <3>1. ASSUME c \in Children(2, name)
          PROVE  \E k \in 1 .. Len(E) : E[k].name = name /\ c = home[k]
      <4>1. c \in 1 .. Size(N) /\ N[c].parent = 2 /\ N[c].name = name
        BY <1>4, <3>1
      <4>2. c # 1 /\ c # 2
        BY <1>6, <4>1
      <4>3. PICK k \in 1 .. Len(E) : c = home[k] \/ \E j \in 1 .. Len(E[k].elements) : c = home[k] + j
        BY <1>6, <4>1, <4>2
      <4>4. c = home[k]
        <5> SUFFICES ASSUME NEW j \in 1 .. Len(E[k].elements), c = home[k] + j PROVE FALSE
          BY <4>3
        <5>1. N[home[k] + j].parent = home[k] /\ home[k] >= 3 /\ home[k] # 2
          BY <1>6
        <5> QED
          BY <4>1, <5>1
      <4> QED
        BY <1>6, <4>1, <4>4
    <3>2. ASSUME NEW k \in 1 .. Len(E), E[k].name = name, c = home[k]
          PROVE  c \in Children(2, name)
      BY <1>4, <1>6, <3>2
    <3> QED
      BY <3>1, <3>2
  <2> QED
    BY <1>2, <1>6, <2>1, <2>2 DEF Shown
<1>8. ASSUME NEW k \in 1 .. Len(E)
      PROVE  \E bt : Shown(home[k], E[k].elements, bt)
  <2> DEFINE F == E[k].elements
             bt == [j \in 1 .. Len(F) |-> home[k] + j]
  <2>0. /\ home[k] \in Nat /\ Len(F) \in Nat /\ DOMAIN F = 1 .. Len(F) /\ \A j \in 1 .. Len(F) : bt[j] = home[k] + j
        /\ home[k] # 0 /\ home[k] # 1 /\ home[k] # 2 /\ \A j \in 1 .. Len(F) : F[j].text \in Seq(STRING)
    <3>1. home[k] \in 1 .. Size(N) /\ home[k] >= 3
      BY <1>6
    <3>2. home[k] \in Nat /\ home[k] # 0 /\ home[k] # 1 /\ home[k] # 2
      BY <1>3, <3>1
    <3> QED
      BY <1>2, <3>2
  <2>1. \A j \in 1 .. Len(F) :
          /\ bt[j] \in 1 .. Size(N) /\ N[bt[j]].parent = home[k]
          /\ N[bt[j]].name = F[j].name /\ N[bt[j]].text = F[j].text
    BY <1>6
  <2> HIDE DEF F, bt
  <2>2. ASSUME NEW j \in 1 .. Len(F)
        PROVE  bt[j] \in Nat \ {0} /\ Text(bt[j]) = F[j].text /\ nodes[bt[j]].value # <<>>
    <3>1. bt[j] \in 1 .. Size(N) /\ N[bt[j]].text = F[j].text /\ F[j].text \in Seq(STRING)
      BY <2>0, <2>1
    <3> QED
      BY <1>3, <1>4, <3>1
  <2>3. \A i, j \in 1 .. Len(F) : i < j => bt[i] < bt[j]
    BY <2>0
  <2>4. ASSUME NEW name, NEW c
        PROVE  c \in Children(home[k], name) <=> \E j \in 1 .. Len(F) : F[j].name = name /\ c = bt[j]
    <3>1. ASSUME c \in Children(home[k], name)
          PROVE  \E j \in 1 .. Len(F) : F[j].name = name /\ c = bt[j]
      <4>1. c \in 1 .. Size(N) /\ N[c].parent = home[k] /\ N[c].name = name
        BY <1>4, <3>1
      <4>2. c # 1 /\ c # 2
        BY <1>6, <2>0, <4>1
      <4>3. PICK m \in 1 .. Len(E) : c = home[m] \/ \E j \in 1 .. Len(E[m].elements) : c = home[m] + j
        BY <1>6, <4>1, <4>2
      <4>4. c # home[m]
        BY <1>6, <2>0, <4>1
      <4>5. PICK j \in 1 .. Len(E[m].elements) : c = home[m] + j
        BY <4>3, <4>4
      <4>6. home[m] = home[k]
        BY <1>6, <4>1, <4>5
      <4>7. m = k
        BY <1>6, <4>6
      <4>8. j \in 1 .. Len(F) /\ c = bt[j]
        BY <2>0, <4>5, <4>7 DEF F
      <4> QED
        BY <2>1, <4>1, <4>8
    <3>2. ASSUME NEW j \in 1 .. Len(F), F[j].name = name, c = bt[j]
          PROVE  c \in Children(home[k], name)
      BY <1>4, <2>1, <3>2
    <3> QED
      BY <3>1, <3>2
  <2>5. Shown(home[k], F, bt)
    BY <2>0, <2>2, <2>3, <2>4 DEF Shown
  <2> QED
    BY <2>5 DEF F
<1> QED
  BY <1>5, <1>7, <1>8 DEF Mirrors

(***************************************************************************)
(* One field of an element, and what is taken from it.                     *)
(***************************************************************************)
Fit(E, f) ==
  CASE f.kind = "string" -> Wrote(E, f.name)
    [] f.kind = "int" -> Wrote(E, f.name) /\ IsNumber(Said(E, f.name))
    [] f.kind = "date" -> Wrote(E, f.name) /\ Said(E, f.name) # NoDate
    [] f.kind = "optional" -> TRUE

Stored(E, f) ==
  CASE f.kind = "int" -> <<Said(E, f.name)[1]>>
    [] f.kind = "optional" -> IF Wrote(E, f.name) /\ IsNumber(Said(E, f.name)) THEN <<Said(E, f.name)[1]>>
                              ELSE Default(f.name)
    [] f.name = "status" -> IF Said(E, f.name) \in {<<"none">>, <<"Available">>} THEN <<"Installed">>
                            ELSE Said(E, f.name)
    [] OTHER -> Said(E, f.name)

IsField(f) == f.kind \in {"string", "int", "date", "optional"} /\ (f.name = "status" => f.kind = "string")

\* A lookup succeeds exactly if the element is there and fits, and returns what was written.
LEMMA WorksFits ==
  ASSUME NEW n, NEW E, NEW at, Shown(n, E, at), NEW f, IsField(f)
  PROVE  /\ Works(n, f) <=> Fit(E, f)
         /\ Works(n, f) => Value(n, f) = Stored(E, f)
<1>1. /\ Has(n, f.name) <=> Wrote(E, f.name)
      /\ Wrote(E, f.name) => TextOf(n, f.name) = Said(E, f.name)
  BY Lookup
<1>2. CASE f.kind = "string" /\ f.name = "status"
  BY <1>1, <1>2 DEF Works, Fit, Value, Stored
<1>3. CASE f.kind = "string" /\ f.name # "status"
  BY <1>1, <1>3 DEF Works, Fit, Value, Stored
<1>4. CASE f.kind = "int"
  <2>1. f.name # "status"
    BY <1>4 DEF IsField
  <2> QED
    BY <1>1, <1>4, <2>1 DEF Works, Fit, Value, Stored
<1>5. CASE f.kind = "date"
  <2>1. f.name # "status"
    BY <1>5 DEF IsField
  <2> QED
    BY <1>1, <1>5, <2>1 DEF Works, Fit, Value, Stored
<1>6. CASE f.kind = "optional"
  <2>1. f.name # "status"
    BY <1>6 DEF IsField
  <2> QED
    BY <1>1, <1>6, <2>1 DEF Works, Fit, Value, Stored
<1> QED
  BY <1>2, <1>3, <1>4, <1>5, <1>6 DEF IsField

(***************************************************************************)
(* The tables of the fields.                                               *)
(***************************************************************************)
\* The fields of the record, one by one.
LEMMA FieldFacts ==
  /\ Len(Fields) = 11 /\ DOMAIN Fields = 1 .. 11
  /\ Fields[1] = Field("recordid", "string") /\ Fields[2] = Field("recordtype", "string")
  /\ Fields[3] = Field("status", "string") /\ Fields[4] = Field("remainingrealactivations", "int")
  /\ Fields[5] = Field("remainingtestactivations", "int") /\ Fields[6] = Field("recordexpiration", "date")
  /\ Fields[7] = Field("activationstart", "date") /\ Fields[8] = Field("processorinfo", "array")
  /\ Fields[9] = Field("target", "array") /\ Fields[10] = Field("remainingrealdays", "int")
  /\ Fields[11] = Field("remainingtestdays", "int")
BY DEF Fields

\* Every field of the record, by its place.
FieldAt(i) ==
  \/ Fields[i].kind = "array" /\ i \in {8, 9} /\ Fields[i].name \in DOMAIN ArrayFields
  \/ Fields[i].kind # "array" /\ i \notin {8, 9} /\ IsField(Fields[i])

\* What the invariant needs of each field.
LEMMA FieldPlaces ==
  ASSUME NEW i \in 1 .. 11
  PROVE  /\ FieldAt(i) /\ Fields[i].kind # "optional"
         /\ Fields[i].name = "status" <=> i = 3
         /\ Fields[i].name = "activationstart" <=> i = 7
         /\ Fields[i].kind = "date" <=> i \in {6, 7}
         /\ Fields[i].name = "recordexpiration" <=> i = 6
         /\ Fields[i].name = "processorinfo" <=> i = 8
         /\ Fields[i].name = "target" <=> i = 9
<1>1. i \in {1, 2, 3, 4, 5, 6, 7, 8, 9, 10, 11}
  OBVIOUS
<1>2. DOMAIN ArrayFields = {"processorinfo", "target"}
  BY DEF ArrayFields
<1> QED
  BY <1>1, <1>2, FieldFacts DEF FieldAt, IsField, Field

\* No two fields of the record have the same name.
LEMMA FieldNames ==
  ASSUME NEW i \in 1 .. 11, NEW j \in 1 .. 11, Fields[i].name = Fields[j].name
  PROVE  i = j
<1>1. i \in {1, 2, 3, 4, 5, 6, 7, 8, 9, 10, 11} /\ j \in {1, 2, 3, 4, 5, 6, 7, 8, 9, 10, 11}
  OBVIOUS
<1> QED
  BY <1>1, FieldFacts DEF Field

\* The fields of an array have different names, and none of them is a date or the status.
LEMMA ArrayFacts ==
  ASSUME NEW a \in DOMAIN ArrayFields
  PROVE  /\ \A f \in Range(ArrayFields[a]) : IsField(f) /\ f.kind \in {"string", "int", "optional"} /\ f.name # "status"
         /\ \A f, g \in Range(ArrayFields[a]) : f.name = g.name => f = g
<1>1. a = "processorinfo" \/ a = "target"
  BY DEF ArrayFields
<1>2. CASE a = "processorinfo"
  <2>1. ArrayFields[a] = << Field("type", "string"), Field("procstep", "optional"), Field("speedstep", "optional"),
                            Field("max", "int"), Field("remainingprocdays", "int"),
                            Field("remainingmsudays", "optional") >>
    BY <1>2 DEF ArrayFields
  <2>2. Range(ArrayFields[a]) =
          { Field("type", "string"), Field("procstep", "optional"), Field("speedstep", "optional"),
            Field("max", "int"), Field("remainingprocdays", "int"), Field("remainingmsudays", "optional") }
    <3> DEFINE s == ArrayFields[a]
    <3>1. /\ DOMAIN s = {1, 2, 3, 4, 5, 6}
          /\ s[1] = Field("type", "string") /\ s[2] = Field("procstep", "optional")
          /\ s[3] = Field("speedstep", "optional") /\ s[4] = Field("max", "int")
          /\ s[5] = Field("remainingprocdays", "int") /\ s[6] = Field("remainingmsudays", "optional")
      BY <2>1
    <3> HIDE DEF s
    <3>2. Range(s) = {s[1], s[2], s[3], s[4], s[5], s[6]}
      BY <3>1 DEF Range
    <3> QED
      BY <3>1, <3>2 DEF s
  <2> QED
    BY <2>2 DEF Field, IsField
<1>3. CASE a = "target"
  <2>1. ArrayFields[a] = << Field("procstep", "int"), Field("speedstep", "int"), Field("softwaremodel", "string"),
                            Field("billablemsucost", "int"), Field("billablemsudelta", "int") >>
    BY <1>3 DEF ArrayFields
  <2>2. Range(ArrayFields[a]) =
          { Field("procstep", "int"), Field("speedstep", "int"), Field("softwaremodel", "string"),
            Field("billablemsucost", "int"), Field("billablemsudelta", "int") }
    <3> DEFINE s == ArrayFields[a]
    <3>1. /\ DOMAIN s = {1, 2, 3, 4, 5}
          /\ s[1] = Field("procstep", "int") /\ s[2] = Field("speedstep", "int")
          /\ s[3] = Field("softwaremodel", "string") /\ s[4] = Field("billablemsucost", "int")
          /\ s[5] = Field("billablemsudelta", "int")
      BY <2>1
    <3> HIDE DEF s
    <3>2. Range(s) = {s[1], s[2], s[3], s[4], s[5]}
      BY <3>1 DEF Range
    <3> QED
      BY <3>1, <3>2 DEF s
  <2> QED
    BY <2>2 DEF Field, IsField
<1> QED
  BY <1>1, <1>2, <1>3

\* The record is complete if every field is.
FieldComplete(E, f, active) ==
  f.kind = "array" \/ (f.kind = "date" /\ f.name = "activationstart" /\ ~active) \/ Fit(E, f)

\* A record is complete if every field is.
LEMMA CompleteEach ==
  ASSUME NEW E, NEW fields, NEW active \in BOOLEAN,
         \A f \in Range(fields) : f.kind \in {"string", "int", "date", "optional", "array"}
  PROVE  Complete(E, fields, active) <=> \A f \in Range(fields) : FieldComplete(E, f, active)
<1> DEFINE C(f) ==
             CASE f.kind = "string" -> Wrote(E, f.name)
               [] f.kind = "int" -> Wrote(E, f.name) /\ IsNumber(Said(E, f.name))
               [] f.kind = "date" -> \/ f.name = "activationstart" /\ ~active
                                     \/ Wrote(E, f.name) /\ Said(E, f.name) # NoDate
               [] f.kind = "optional" -> TRUE
               [] f.kind = "array" -> TRUE
<1>1. ASSUME NEW f \in Range(fields)
      PROVE  C(f) <=> FieldComplete(E, f, active)
  <2>1. CASE f.kind = "string"
    BY <2>1 DEF FieldComplete, Fit
  <2>2. CASE f.kind = "int"
    BY <2>2 DEF FieldComplete, Fit
  <2>3. CASE f.kind = "date"
    BY <2>3 DEF FieldComplete, Fit
  <2>4. CASE f.kind = "optional"
    BY <2>4 DEF FieldComplete, Fit
  <2>5. CASE f.kind = "array"
    BY <2>5 DEF FieldComplete, Fit
  <2> QED
    BY <2>1, <2>2, <2>3, <2>4, <2>5
<1>2. Complete(E, fields, active) <=> \A f \in Range(fields) : C(f)
  BY DEF Complete
<1> HIDE DEF C
<1> QED
  BY <1>1, <1>2

(***************************************************************************)
(* The arrays.                                                             *)
(***************************************************************************)
\* What is taken for a field of an array.
Taken(E, f) ==
  IF Wrote(E, f.name) /\ (f.kind = "string" \/ IsNumber(Said(E, f.name))) THEN Meant(E, f) ELSE Default(f.name)

\* What is taken for a field of an array is what was meant.
LEMMA TakenIsStored ==
  ASSUME NEW E, NEW f, f.kind \in {"string", "int", "optional"}, f.name # "status", Fit(E, f)
  PROVE  Stored(E, f) = Taken(E, f)
<1>1. CASE f.kind = "string"
  BY <1>1 DEF Stored, Taken, Fit, Meant
<1>2. CASE f.kind = "int"
  BY <1>2 DEF Stored, Taken, Fit, Meant
<1>3. CASE f.kind = "optional"
  BY <1>3 DEF Stored, Taken, Fit, Meant
<1> QED
  BY <1>1, <1>2, <1>3

ElementsComplete(E, a) == \A e \in Range(Elements(E, a)) : Complete(e.elements, ArrayFields[a], FALSE)

ArrayAt(E, a, t) ==
  /\ Len(t) = Len(Elements(E, a)) /\ DOMAIN t = 1 .. Len(Elements(E, a))
  /\ \A k \in DOMAIN t : \A f \in Range(ArrayFields[a]) : t[k][f.name] = Taken(Elements(E, a)[k].elements, f)

\* An array is taken exactly if each of its elements is complete, and each text is its own.
LEMMA ArrayWorks ==
  ASSUME NEW E, Mirrors(E), NEW a \in DOMAIN ArrayFields, Len(nodes) \in Nat, DOMAIN nodes = 1 .. Len(nodes)
  PROVE  /\ (\A n \in Children(Record, a) : \A f \in Range(ArrayFields[a]) : Works(n, f)) <=> ElementsComplete(E, a)
         /\ Wanted.name = a /\ ElementsComplete(E, a)
            => ArrayAt(E, a, [k \in DOMAIN All(a) |-> FieldsOf(All(a)[k])])
<1> DEFINE R == Range(ArrayFields[a])
           Q == Elements(E, a)
           t == [k \in DOMAIN All(a) |-> FieldsOf(All(a)[k])]
<1>1. PICK at : /\ Shown(Record, E, at)
                /\ \A k \in 1 .. Len(E) : \E bt : Shown(at[k], E[k].elements, bt)
  BY DEF Mirrors
<1>2. /\ \A f \in R : IsField(f) /\ f.kind \in {"string", "int", "optional"} /\ f.name # "status"
      /\ \A f, g \in R : f.name = g.name => f = g
  BY ArrayFacts
<1>3. /\ Len(Q) \in Nat /\ DOMAIN All(a) = 1 .. Len(Q) /\ DOMAIN Q = 1 .. Len(Q)
      /\ \A i \in 1 .. Len(Q) : \E k \in 1 .. Len(E) : E[k].name = a /\ All(a)[i] = at[k] /\ Q[i] = E[k]
      /\ \A k \in 1 .. Len(E) : E[k].name = a => \E i \in 1 .. Len(Q) : Q[i] = E[k]
  BY <1>1, AllFacts
<1>4. \A c : c \in Children(Record, a) <=> \E k \in 1 .. Len(E) : E[k].name = a /\ c = at[k]
  BY <1>1 DEF Shown
<1> HIDE DEF R, Q
<1>5. ASSUME NEW k \in 1 .. Len(E), NEW f \in R
      PROVE  /\ Works(at[k], f) <=> Fit(E[k].elements, f)
             /\ Works(at[k], f) => Value(at[k], f) = Taken(E[k].elements, f)
  <2>1. PICK bt : Shown(at[k], E[k].elements, bt)
    BY <1>1
  <2>2. /\ Works(at[k], f) <=> Fit(E[k].elements, f)
        /\ Works(at[k], f) => Value(at[k], f) = Stored(E[k].elements, f)
    BY <1>2, <2>1, WorksFits
  <2>3. Fit(E[k].elements, f) => Stored(E[k].elements, f) = Taken(E[k].elements, f)
    BY <1>2, TakenIsStored
  <2> QED
    BY <2>2, <2>3
<1>6. ASSUME NEW F
      PROVE  Complete(F, ArrayFields[a], FALSE) <=> \A f \in R : Fit(F, f)
  <2>1. \A f \in R : f.kind \in {"string", "int", "date", "optional", "array"}
    BY <1>2
  <2>2. Complete(F, ArrayFields[a], FALSE) <=> \A f \in R : FieldComplete(F, f, FALSE)
    BY <2>1, CompleteEach DEF R
  <2>3. \A f \in R : FieldComplete(F, f, FALSE) <=> Fit(F, f)
    BY <1>2 DEF FieldComplete
  <2> QED
    BY <2>2, <2>3
<1>7. ElementsComplete(E, a) <=> \A k \in 1 .. Len(E) : E[k].name = a => \A f \in R : Fit(E[k].elements, f)
  <2>1. ElementsComplete(E, a) <=> \A i \in 1 .. Len(Q) : \A f \in R : Fit(Q[i].elements, f)
    <3>1. Range(Q) = {Q[i] : i \in 1 .. Len(Q)}
      BY <1>3 DEF Range
    <3> QED
      BY <1>6, <3>1 DEF ElementsComplete, Q
  <2>2. ASSUME ElementsComplete(E, a), NEW k \in 1 .. Len(E), E[k].name = a, NEW f \in R
        PROVE  Fit(E[k].elements, f)
    <3>1. PICK i \in 1 .. Len(Q) : Q[i] = E[k]
      BY <1>3, <2>2
    <3>2. Fit(Q[i].elements, f)
      BY <2>1, <2>2
    <3> QED
      BY <3>1, <3>2
  <2>3. ASSUME \A k \in 1 .. Len(E) : E[k].name = a => \A f \in R : Fit(E[k].elements, f), NEW i \in 1 .. Len(Q), NEW f \in R
        PROVE  Fit(Q[i].elements, f)
    <3>1. PICK k \in 1 .. Len(E) : E[k].name = a /\ Q[i] = E[k]
      BY <1>3
    <3> QED
      BY <2>3, <3>1
  <2> QED
    BY <2>1, <2>2, <2>3
<1>8. (\A n \in Children(Record, a) : \A f \in R : Works(n, f)) <=> ElementsComplete(E, a)
  <2>1. ASSUME \A n \in Children(Record, a) : \A f \in R : Works(n, f), NEW k \in 1 .. Len(E), E[k].name = a, NEW f \in R
        PROVE  Fit(E[k].elements, f)
    <3>1. at[k] \in Children(Record, a)
      BY <1>4, <2>1
    <3> QED
      BY <1>5, <2>1, <3>1
  <2>2. ASSUME ElementsComplete(E, a), NEW n \in Children(Record, a), NEW f \in R
        PROVE  Works(n, f)
    <3>1. PICK k \in 1 .. Len(E) : E[k].name = a /\ n = at[k]
      BY <1>4
    <3>2. Fit(E[k].elements, f)
      BY <1>7, <2>2, <3>1
    <3> QED
      BY <1>5, <3>1, <3>2
  <2> QED
    BY <1>7, <2>1, <2>2
<1>9. ASSUME Wanted.name = a, ElementsComplete(E, a)
      PROVE  ArrayAt(E, a, t)
  <2>1. t = [k \in 1 .. Len(Q) |-> FieldsOf(All(a)[k])] /\ \A k \in 1 .. Len(Q) : t[k] = FieldsOf(All(a)[k])
    BY <1>3
  <2>2. DOMAIN t = 1 .. Len(Q) /\ Len(t) = Len(Q)
    <3>1. t = [k \in 1 .. Len(Q) |-> t[k]]
      BY <2>1
    <3> HIDE DEF t
    <3> QED
      BY <1>3, <3>1, FunctionIsSeq
  <2>3. ASSUME NEW k \in 1 .. Len(Q), NEW f \in R
        PROVE  t[k][f.name] = Taken(Q[k].elements, f)
    <3>1. PICK m \in 1 .. Len(E) : E[m].name = a /\ All(a)[k] = at[m] /\ Q[k] = E[m]
      BY <1>3
    <3>2. Works(at[m], f)
      BY <1>5, <1>7, <1>9, <3>1
    <3>3. Value(at[m], f) = Taken(E[m].elements, f)
      BY <1>5, <3>2
    <3>4. FieldsOf(at[m])[f.name] = Value(at[m], f)
      <4>1. FieldsOf(at[m]) = [name \in {g.name : g \in R} |-> Value(at[m], CHOOSE g \in R : g.name = name)]
        BY <1>9 DEF FieldsOf, R
      <4>2. f.name \in {g.name : g \in R}
        OBVIOUS
      <4>3. (CHOOSE g \in R : g.name = f.name) = f
        BY <1>2
      <4>4. FieldsOf(at[m])[f.name] = Value(at[m], CHOOSE g \in R : g.name = f.name)
        BY <4>1, <4>2
      <4> QED
        BY <4>3, <4>4
    <3>5. t[k] = FieldsOf(at[m])
      BY <2>1, <3>1
    <3> QED
      BY <3>1, <3>3, <3>4, <3>5
  <2> HIDE DEF t
  <2> QED
    BY <2>2, <2>3 DEF ArrayAt, Q, R
<1> QED
  BY <1>8, <1>9 DEF R

(***************************************************************************)
(* The record as a whole.                                                  *)
(***************************************************************************)
ActiveIn(E) == Wrote(E, "status") /\ Said(E, "status") \in {<<"Real">>, <<"Test">>}

\* Field i of the record is there and can be understood, or is not needed.
FitAt(E, i) ==
  IF Fields[i].kind = "array" THEN ElementsComplete(E, Fields[i].name)
  ELSE (i = 7 /\ ~ActiveIn(E)) \/ Fit(E, Fields[i])

CompleteRecord(E) ==
  /\ Complete(E, Fields, ActiveIn(E))
  /\ \A a \in DOMAIN ArrayFields : \A e \in Range(Elements(E, a)) : Complete(e.elements, ArrayFields[a], FALSE)

\* A record is complete exactly if each of its fields fits.
LEMMA AllFit ==
  ASSUME NEW E
  PROVE  CompleteRecord(E) <=> \A i \in 1 .. 11 : FitAt(E, i)
<1>1. Range(Fields) = {Fields[i] : i \in 1 .. 11}
  BY FieldFacts DEF Range
<1>2. ASSUME NEW i \in 1 .. 11
      PROVE  Fields[i].kind \in {"string", "int", "date", "optional", "array"}
  BY FieldPlaces DEF FieldAt, IsField
<1>3. Complete(E, Fields, ActiveIn(E)) <=> \A f \in Range(Fields) : FieldComplete(E, f, ActiveIn(E))
  <2>1. ActiveIn(E) \in BOOLEAN
    BY DEF ActiveIn
  <2>2. \A f \in Range(Fields) : f.kind \in {"string", "int", "date", "optional", "array"}
    BY <1>1, <1>2
  <2> QED
    BY <2>1, <2>2, CompleteEach
<1>4. Complete(E, Fields, ActiveIn(E)) <=> \A i \in 1 .. 11 : FieldComplete(E, Fields[i], ActiveIn(E))
  BY <1>1, <1>3
<1>5. ASSUME NEW i \in 1 .. 11
      PROVE  FieldComplete(E, Fields[i], ActiveIn(E)) <=> Fields[i].kind = "array" \/ FitAt(E, i)
  <2>1. Fields[i].name = "activationstart" <=> i = 7
    BY FieldPlaces
  <2>2. i = 7 => Fields[i].kind = "date"
    BY FieldPlaces
  <2> QED
    BY <2>1, <2>2 DEF FieldComplete, FitAt
<1>6. (\A a \in DOMAIN ArrayFields : ElementsComplete(E, a)) <=> ElementsComplete(E, Fields[8].name) /\ ElementsComplete(E, Fields[9].name)
  <2>1. DOMAIN ArrayFields = {"processorinfo", "target"}
    BY DEF ArrayFields
  <2>2. Fields[8].name = "processorinfo" /\ Fields[9].name = "target"
    BY FieldFacts DEF Field
  <2> QED
    BY <2>1, <2>2
<1>7. \A i \in 1 .. 11 : Fields[i].kind = "array" <=> i = 8 \/ i = 9
  BY FieldPlaces DEF FieldAt
<1>8. (\A i \in 1 .. 11 : Fields[i].kind = "array" => FitAt(E, i))
        <=> ElementsComplete(E, Fields[8].name) /\ ElementsComplete(E, Fields[9].name)
  <2>1. FitAt(E, 8) <=> ElementsComplete(E, Fields[8].name)
    BY <1>7 DEF FitAt
  <2>2. FitAt(E, 9) <=> ElementsComplete(E, Fields[9].name)
    BY <1>7 DEF FitAt
  <2>3. 8 \in 1 .. 11 /\ 9 \in 1 .. 11
    OBVIOUS
  <2> QED
    BY <1>7, <2>1, <2>2, <2>3
<1>9. CompleteRecord(E) <=> Complete(E, Fields, ActiveIn(E)) /\ \A a \in DOMAIN ArrayFields : ElementsComplete(E, a)
  BY DEF CompleteRecord, ElementsComplete
<1> QED
  BY <1>4, <1>5, <1>6, <1>8, <1>9

\* Field i was taken, as it was meant.
StoredIn(E, i, v) ==
  IF Fields[i].kind = "array" THEN ElementsComplete(E, Fields[i].name) /\ ArrayAt(E, Fields[i].name, v)
  ELSE (i = 7 /\ ~ActiveIn(E)) \/ (Fit(E, Fields[i]) /\ v = Stored(E, Fields[i]))

NamesUpTo(E, n) == {Fields[i].name : i \in {k \in 1 .. n - 1 : k = 7 => ActiveIn(E)}}

FieldInv ==
  Undamaged /\ pc \in {"get", "adjust"} =>
    /\ Mirrors(written) /\ code = "OK" /\ DOMAIN tcr = NamesUpTo(written, next)
    /\ \A i \in 1 .. next - 1 : StoredIn(written, i, tcr[Fields[i].name])
    /\ pc = "adjust" => next = 12

\* A field that was stored fits.
LEMMA StoredFits ==
  ASSUME NEW E, NEW i, NEW v, StoredIn(E, i, v)
  PROVE  FitAt(E, i)
BY DEF StoredIn, FitAt

\* What the tree shows is the same as long as the tree is,
LEMMA ShownStays ==
  ASSUME NEW n, NEW E, NEW at, Shown(n, E, at), nodes' = nodes
  PROVE  Shown(n, E, at)'
<1>1. ASSUME NEW m
      PROVE  Text(m)' = Text(m)
  BY DEF Text
<1>2. /\ Len(E) \in Nat /\ DOMAIN E = 1 .. Len(E)
      /\ \A k \in 1 .. Len(E) : at[k] \in Nat \ {0} /\ Text(at[k])' = E[k].text /\ nodes'[at[k]].value # <<>>
      /\ \A j, k \in 1 .. Len(E) : j < k => at[j] < at[k]
  BY <1>1 DEF Shown
<1>3. \A name, c : c \in Children(n, name)' <=> \E k \in 1 .. Len(E) : E[k].name = name /\ c = at[k]
  <2>1. \A name, c : c \in Children(n, name) <=> \E k \in 1 .. Len(E) : E[k].name = name /\ c = at[k]
    BY DEF Shown
  <2>2. ASSUME NEW name
        PROVE  Children(n, name)' = Children(n, name)
    BY DEF Children
  <2> QED
    BY <2>1, <2>2
<1> QED
  BY <1>2, <1>3 DEF Shown

\* for the whole record, too.
LEMMA MirrorsStay ==
  ASSUME Mirrors(written), UNCHANGED <<nodes, root, written>>
  PROVE  Mirrors(written)'
<1>1. nodes' = nodes /\ root' = root /\ written' = written
  OBVIOUS
<1>2. Children(root, "record")' = Children(root, "record")
  BY <1>1 DEF Children
<1>3. Record' = Record
  <2> DEFINE First(C) == IF C = {} THEN 0 ELSE CHOOSE c \in C : \A d \in C : c <= d
  <2>1. Record = First(Children(root, "record"))
    BY DEF Record, Find
  <2>2. Record' = First(Children(root, "record")')
    BY DEF Record, Find
  <2> HIDE DEF First
  <2> QED
    BY <1>2, <2>1, <2>2
<1>4. ASSUME NEW n
      PROVE  Text(n)' = Text(n)
  BY <1>1 DEF Text
<1>5. PICK at : /\ Shown(Record, written, at)
                /\ \A k \in 1 .. Len(written) : \E bt : Shown(at[k], written[k].elements, bt)
  BY DEF Mirrors
<1>6. Shown(Record, written, at)'
  <2>1. PICK r, E : r = Record /\ E = written
    OBVIOUS
  <2>2. Shown(r, E, at)
    BY <1>5, <2>1
  <2>3. r = Record' /\ E = written'
    BY <1>1, <1>3, <2>1
  <2>4. Shown(r, E, at)'
    BY <1>1, <2>2, ShownStays
  <2> DEFINE Below(n, name) == {c \in DOMAIN nodes' : nodes'[c].parent = n /\ nodes'[c].name = <<name>>}
  <2>5. \A name : Children(r, name)' = Below(r, name) /\ Children(Record, name)' = Below(Record', name)
    BY DEF Children
  <2>6. \A name : Children(Record, name)' = Children(r, name)'
    <3> HIDE DEF Below
    <3> QED
      BY <2>3, <2>5
  <2> QED
    BY <2>3, <2>4, <2>6 DEF Shown
<1>7. ASSUME NEW k \in 1 .. Len(written)
      PROVE  \E bt : Shown(at[k], written[k].elements, bt)'
  <2>1. PICK bt : Shown(at[k], written[k].elements, bt)
    BY <1>5
  <2>2. PICK F : F = written[k].elements
    OBVIOUS
  <2>3. Shown(at[k], F, bt)'
    BY <1>1, <2>1, <2>2, ShownStays
  <2>4. Shown(at[k], written[k].elements, bt)'
    BY <1>1, <2>2, <2>3
  <2> QED
    BY <2>4
<1>8. Record' # 0
  BY <1>3 DEF Mirrors
<1> QED
  BY <1>1, <1>6, <1>7, <1>8 DEF Mirrors

\* Whether the record is active is known when its status was taken.
LEMMA KnownActive ==
  ASSUME StoredIn(written, 3, tcr["status"])
  PROVE  (Active(tcr) <=> ActiveIn(written)) /\ (WroteActive <=> ActiveIn(written))
<1>1. Fields[3] = Field("status", "string")
  BY FieldFacts
<1>2. Fields[3].kind = "string" /\ Fields[3].name = "status"
  BY <1>1 DEF Field
<1>3. Wrote(written, "status") /\ tcr["status"] = Stored(written, Fields[3])
  BY <1>2 DEF StoredIn, Fit
<1>4. Stored(written, Fields[3]) = IF Said(written, "status") \in {<<"none">>, <<"Available">>} THEN <<"Installed">>
                                   ELSE Said(written, "status")
  BY <1>2 DEF Stored
<1>5. /\ <<"Installed">> # <<"Real">> /\ <<"Installed">> # <<"Test">> /\ <<"none">> # <<"Real">> /\ <<"none">> # <<"Test">>
      /\ <<"Available">> # <<"Real">> /\ <<"Available">> # <<"Test">>
  BY SingleName
<1> QED
  BY <1>3, <1>4, <1>5 DEF Active, ActiveIn, WroteActive

\* One more field is taken.
LEMMA StoreKeeps ==
  ASSUME FieldInv, Undamaged, pc = "get", next \in 1 .. 11, NEW v, Store(v),
         StoredIn(written, next, v), next = 7 => ActiveIn(written)
  PROVE  FieldInv'
<1>1. /\ tcr' = [name \in DOMAIN tcr \cup {Fields[next].name} |-> IF name = Fields[next].name THEN v ELSE tcr[name]]
      /\ next' = next + 1 /\ pc' = pc /\ code' = code /\ written' = written /\ nodes' = nodes /\ root' = root
  BY DEF Store, Wanted, parserVars
<1>2. /\ Mirrors(written) /\ code = "OK" /\ DOMAIN tcr = NamesUpTo(written, next)
      /\ \A i \in 1 .. next - 1 : StoredIn(written, i, tcr[Fields[i].name])
  BY DEF FieldInv
<1>3. Mirrors(written)'
  BY <1>1, <1>2, MirrorsStay
<1>4. DOMAIN tcr' = NamesUpTo(written, next + 1)
  <2>1. DOMAIN tcr' = NamesUpTo(written, next) \cup {Fields[next].name}
    BY <1>1, <1>2
  <2>2. {k \in 1 .. next : k = 7 => ActiveIn(written)} = {k \in 1 .. next - 1 : k = 7 => ActiveIn(written)} \cup {next}
    OBVIOUS
  <2>3. next + 1 - 1 = next
    OBVIOUS
  <2>4. NamesUpTo(written, next + 1) = {Fields[i].name : i \in {k \in 1 .. next : k = 7 => ActiveIn(written)}}
    BY <2>3 DEF NamesUpTo
  <2> QED
    BY <2>1, <2>2, <2>4 DEF NamesUpTo
<1>5. ASSUME NEW i \in 1 .. next
      PROVE  StoredIn(written, i, tcr'[Fields[i].name])
  <2>1. CASE i = next
    <3>1. tcr'[Fields[i].name] = v
      BY <1>1, <2>1
    <3> QED
      BY <2>1, <3>1
  <2>2. CASE i # next
    <3>1. i \in 1 .. next - 1 /\ i \in 1 .. 11
      BY <2>2
    <3>2. StoredIn(written, i, tcr[Fields[i].name])
      BY <1>2, <3>1
    <3>3. Fields[i].name # Fields[next].name
      BY <2>2, <3>1, FieldNames
    <3>4. CASE i = 7 /\ ~ActiveIn(written)
      <4>1. Fields[i].kind # "array"
        BY <3>1, <3>4, FieldPlaces
      <4> QED
        BY <3>4, <4>1 DEF StoredIn
    <3>5. CASE i = 7 => ActiveIn(written)
      <4>1. Fields[i].name \in DOMAIN tcr
        BY <1>2, <3>1, <3>5 DEF NamesUpTo
      <4>2. tcr'[Fields[i].name] = tcr[Fields[i].name]
        BY <1>1, <3>3, <4>1
      <4> QED
        BY <3>2, <4>2
    <3> QED
      BY <3>4, <3>5
  <2> QED
    BY <2>1, <2>2
<1>6. next' - 1 = next /\ pc' # "adjust"
  BY <1>1
<1> QED
  BY <1>1, <1>2, <1>3, <1>4, <1>5, <1>6 DEF FieldInv

(***************************************************************************)
(* The invariant.                                                          *)
(***************************************************************************)
\* What the documents are assumed to be: those of records are written from them, and the stack
\* has room for four open elements.
Truthful ==
  /\ Deep
  /\ \A s \in Sent : s.record # NoRecord => PlainRecord(s.record) /\ WrittenFrom(s.doc, s.record)

\* The list of a document that is being read, and how far the parser is in it.
Follows(E, home, N, open, close) ==
  Homes(E, home) /\ Listed(E, home, N) /\ Listing(N, open, close) /\ Progress(N, open, close)

TreeInv ==
  /\ Undamaged => pc # "crash"
  /\ pc = "parse" => next = 1 /\ code = "OK" /\ tcr = <<>>
  /\ Undamaged /\ pc = "parse" =>
       PlainRecord(written) /\ \E home, N, open, close : Follows(written, home, N, open, close)

TcrInv ==
  /\ TypeOK /\ ParserInv /\ TreeInv /\ FieldInv
  /\ FieldsAsWritten /\ ArraysAsWritten /\ CompleteIsAccepted

\* It holds in the beginning,
LEMMA InitTcr ==
  ASSUME Truthful, Init
  PROVE  TcrInv
<1>1. ParserInit /\ pc = "parse" /\ next = 1 /\ code = "OK" /\ tcr = <<>>
  BY DEF Init
<1>2. PICK s \in Sent : doc = s.doc /\ written = s.record
  BY DEF Init
<1>3. ParserInv
  BY <1>1 DEF ParserInit, ParserInv, ParserTypeOK, StackIsPath, NoTagBehindRoot, State
<1>4. TypeOK
  <2>1. DOMAIN tcr = {}
    BY <1>1
  <2>2. next \in 1 .. Len(Fields) + 1
    BY <1>1, FieldFacts
  <2> QED
    BY <1>1, <1>3, <2>1, <2>2 DEF TypeOK, ParserInv
<1>5. ASSUME Undamaged
      PROVE  PlainRecord(written) /\ \E home, N, open, close : Follows(written, home, N, open, close)
  <2>1. PlainRecord(written) /\ WrittenFrom(doc, written)
    BY <1>2, <1>5 DEF Truthful, Undamaged
  <2>2. PICK home, N, open, close : Homes(written, home) /\ Listed(written, home, N) /\ Placed(doc, N, open, close)
    BY <2>1 DEF WrittenFrom
  <2>3. PICK E : E = written
    OBVIOUS
  <2>4. ListFacts(N)
    BY <2>1, <2>2, <2>3, ListedFacts
  <2>5. Listing(N, open, close)
    BY <2>2, <2>4 DEF Listing
  <2>6. Progress(N, open, close)
    BY <1>1, <2>5, ParserStarts
  <2> QED
    BY <2>1, <2>2, <2>5, <2>6 DEF Follows
<1> QED
  BY <1>1, <1>3, <1>4, <1>5 DEF TcrInv, TreeInv, FieldInv, FieldsAsWritten, ArraysAsWritten, CompleteIsAccepted

\* The parser does not change the document.
LEMMA DocumentStays ==
  ASSUME Parse
  PROVE  doc' = doc
BY DEF Parse, FirstTag, TagStart, BehindRoot, MisplacedStart, OpenNode, Overflow, CloseNode, Mismatch, MisplacedEnd,
       Slash, Space, Letter, Goes, Put, Fail

\* A character of the document keeps it.
LEMMA ParsingKeeps ==
  ASSUME Truthful, TcrInv, Parsing
  PROVE  TcrInv'
<1>1. /\ pc = "parse" /\ Parse /\ doc' = doc
      /\ written' = written /\ pc' = pc /\ next' = next /\ code' = code /\ tcr' = tcr
  BY DocumentStays DEF Parsing
<1>2. ParserInv /\ TypeOK /\ TreeInv
  BY DEF TcrInv
<1>3. ParserInv'
  BY <1>1, <1>2, ParseKeeps
<1>4. TypeOK'
  BY <1>1, <1>2, <1>3 DEF TypeOK, ParserInv
<1>5. ASSUME Undamaged
      PROVE  PlainRecord(written)' /\ (\E home, N, open, close : Follows(written, home, N, open, close))'
  <2>1. PICK home, N, open, close : Follows(written, home, N, open, close)
    BY <1>1, <1>2, <1>5 DEF TreeInv
  <2>2. Reading
    BY <1>1 DEF Parse, FirstTag, TagStart, BehindRoot, MisplacedStart, OpenNode, Overflow, CloseNode, Mismatch, MisplacedEnd,
                Slash, Space, Letter, InTag
  <2>3. Listing(N, open, close) /\ Progress(N, open, close)
    BY <2>1 DEF Follows
  <2>4. Progress(N, open, close)'
    BY <1>1, <1>2, <2>2, <2>3, ParseProgress DEF Truthful
  <2>5. Listing(N, open, close)'
    BY <1>1, <2>3 DEF Listing
  <2>6. Homes(written, home)' /\ Listed(written, home, N)' /\ PlainRecord(written)'
    BY <1>1, <1>2, <1>5, <2>1 DEF Follows, TreeInv
  <2> QED
    BY <2>4, <2>5, <2>6 DEF Follows
<1>6. TreeInv'
  BY <1>1, <1>2, <1>5 DEF TreeInv, Undamaged
<1> QED
  BY <1>1, <1>3, <1>4, <1>6 DEF TcrInv, FieldInv, FieldsAsWritten, ArraysAsWritten, CompleteIsAccepted

\* The document has been read.
LEMMA ParsedKeeps ==
  ASSUME TcrInv, Parsed
  PROVE  TcrInv'
<1>1. /\ pc = "parse" /\ ~Reading /\ UNCHANGED parserVars /\ written' = written /\ next' = next /\ tcr' = tcr
      /\ \/ ret # "OK" /\ pc' = "done" /\ code' = "PROGRAM_ERROR"
         \/ ret = "OK" /\ code' = code /\ pc' = IF root = 0 THEN "crash" ELSE "get"
  BY DEF Parsed, Exit
<1>2. ParserInv /\ TypeOK /\ TreeInv
  BY DEF TcrInv
<1>3. ParserInv'
  BY <1>1, <1>2 DEF parserVars, ParserInv, ParserTypeOK, StackIsPath, NoTagBehindRoot
<1>4. TypeOK'
  BY <1>1, <1>2, <1>3 DEF TypeOK, ParserInv
<1>5. (Undamaged' => pc' # "crash") => TreeInv'
  BY <1>1 DEF TreeInv
<1>6. CASE ~Undamaged
  <2>1. ~Undamaged'
    BY <1>1, <1>6 DEF Undamaged
  <2> QED
    BY <1>3, <1>4, <1>5, <2>1 DEF TcrInv, FieldInv, FieldsAsWritten, ArraysAsWritten, CompleteIsAccepted
<1>7. CASE Undamaged
  <2>1. PICK home, N, open, close : Follows(written, home, N, open, close)
    BY <1>1, <1>2, <1>7 DEF TreeInv
  <2>2. Listing(N, open, close) /\ Progress(N, open, close) /\ Homes(written, home) /\ Listed(written, home, N)
    BY <2>1 DEF Follows
  <2>3. Built(N)
    BY <1>1, <1>2, <2>2, ParsedIsBuilt
  <2>4. Mirrors(written)
    <3>1. PICK E : E = written
      OBVIOUS
    <3>2. PlainRecord(E)
      BY <1>1, <1>2, <1>7, <3>1 DEF TreeInv
    <3>3. Mirrors(E)
      BY <1>2, <2>2, <2>3, <3>1, <3>2, BuiltMirrors
    <3> QED
      BY <3>1, <3>3
  <2>5. pc' = "get" /\ code' = "OK" /\ next' = 1 /\ tcr' = <<>>
    BY <1>1, <1>2, <2>3 DEF Built, TreeInv
  <2>6. Mirrors(written)'
    <3>1. nodes' = nodes /\ root' = root
      BY <1>1 DEF parserVars
    <3> QED
      BY <1>1, <2>4, <3>1, MirrorsStay
  <2>7. DOMAIN tcr' = NamesUpTo(written, next)' /\ \A i \in 1 .. next' - 1 : StoredIn(written, i, tcr[Fields[i].name])'
    BY <2>5 DEF NamesUpTo
  <2>8. FieldInv'
    BY <2>5, <2>6, <2>7 DEF FieldInv
  <2> QED
    BY <1>3, <1>4, <1>5, <2>5, <2>8 DEF TcrInv, FieldsAsWritten, ArraysAsWritten, CompleteIsAccepted
<1> QED
  BY <1>6, <1>7

(***************************************************************************)
(* The fields, one by one.                                                 *)
(***************************************************************************)
\* A field that cannot be understood ends the program, and rightly so.
LEMMA FailsKeeps ==
  ASSUME TcrInv, pc = "get", Fails, next \in 1 .. 11, Undamaged => ~FitAt(written, next)
  PROVE  TcrInv'
<1>1. /\ pc' = "done" /\ code' = "PROGRAM_ERROR" /\ UNCHANGED parserVars
      /\ written' = written /\ next' = next /\ tcr' = tcr
  BY DEF Fails, Exit
<1>2. ParserInv /\ TypeOK /\ TreeInv
  BY DEF TcrInv
<1>3. ParserInv'
  BY <1>1, <1>2 DEF parserVars, ParserInv, ParserTypeOK, StackIsPath, NoTagBehindRoot
<1>4. TypeOK'
  BY <1>1, <1>2, <1>3 DEF TypeOK, ParserInv
<1>5. Undamaged => ~CompleteRecord(written)
  <2>1. PICK E : E = written
    OBVIOUS
  <2> QED
    BY <2>1, AllFit
<1>6. CompleteIsAccepted'
  BY <1>1, <1>5 DEF CompleteIsAccepted, CompleteRecord, ActiveIn, WroteActive, Undamaged
<1> QED
  BY <1>1, <1>3, <1>4, <1>6 DEF TcrInv, TreeInv, FieldInv, FieldsAsWritten, ArraysAsWritten

\* What every field that is taken leaves as it was.
LEMMA StoreRest ==
  ASSUME TcrInv, pc = "get", next \in 1 .. 11, NEW v, Store(v), FieldInv'
  PROVE  TcrInv'
<1>1. /\ tcr' = [name \in DOMAIN tcr \cup {Fields[next].name} |-> IF name = Fields[next].name THEN v ELSE tcr[name]]
      /\ next' = next + 1 /\ pc' = pc /\ code' = code /\ written' = written /\ UNCHANGED parserVars
  BY DEF Store, Wanted
<1>2. ParserInv /\ TypeOK
  BY DEF TcrInv
<1>3. ParserInv'
  BY <1>1, <1>2 DEF parserVars, ParserInv, ParserTypeOK, StackIsPath, NoTagBehindRoot
<1>4. TypeOK'
  <2>1. DOMAIN tcr' \subseteq {Fields[n].name : n \in 1 .. next}
    <3>1. DOMAIN tcr \subseteq {Fields[n].name : n \in 1 .. next - 1}
      BY <1>2 DEF TypeOK
    <3> QED
      BY <1>1, <3>1
  <2>2. next' - 1 = next /\ next' \in 1 .. Len(Fields) + 1
    BY <1>1, FieldFacts
  <2> QED
    BY <1>1, <1>2, <1>3, <2>1, <2>2 DEF TypeOK, ParserInv
<1> QED
  BY <1>1, <1>3, <1>4 DEF TcrInv, TreeInv, FieldsAsWritten, ArraysAsWritten, CompleteIsAccepted

\* Field 7 is skipped exactly if the record was not written as active.
LEMMA SkippedIsMeant ==
  ASSUME FieldInv, Undamaged, pc = "get", next \in 1 .. 11
  PROVE  Skipped <=> next = 7 /\ ~ActiveIn(written)
<1>1. Wanted.name = "activationstart" <=> next = 7
  BY FieldPlaces DEF Wanted
<1>2. next = 7 => (Active(tcr) <=> ActiveIn(written))
  <2> SUFFICES ASSUME next = 7 PROVE Active(tcr) <=> ActiveIn(written)
    OBVIOUS
  <2>1. StoredIn(written, 3, tcr[Fields[3].name])
    BY DEF FieldInv
  <2>2. Fields[3].name = "status"
    BY FieldFacts DEF Field
  <2> QED
    BY <2>1, <2>2, KnownActive
<1> QED
  BY <1>1, <1>2 DEF Skipped

\* A field is taken, or the program ends.
LEMMA GetFieldKeeps ==
  ASSUME TcrInv, GetField
  PROVE  TcrInv'
<1>1. /\ pc = "get" /\ next \in 1 .. 11 /\ Wanted.kind # "array" /\ ~Skipped
      /\ IF Record # 0 /\ Works(Record, Wanted) THEN Store(Value(Record, Wanted)) ELSE Fails
  BY FieldFacts DEF GetField, Getting, TcrInv, TypeOK
<1>2. FieldInv
  BY DEF TcrInv
<1>3. IsField(Wanted) /\ Wanted = Fields[next]
  BY <1>1, FieldPlaces DEF FieldAt, Wanted
<1>4. Undamaged => /\ Record # 0
                   /\ Works(Record, Wanted) <=> Fit(written, Wanted)
                   /\ Works(Record, Wanted) => Value(Record, Wanted) = Stored(written, Wanted)
                   /\ ~(next = 7 /\ ~ActiveIn(written))
  <2> SUFFICES ASSUME Undamaged
               PROVE  /\ Record # 0
                      /\ Works(Record, Wanted) <=> Fit(written, Wanted)
                      /\ Works(Record, Wanted) => Value(Record, Wanted) = Stored(written, Wanted)
                      /\ ~(next = 7 /\ ~ActiveIn(written))
    OBVIOUS
  <2>1. Mirrors(written)
    BY <1>1, <1>2 DEF FieldInv
  <2>2. PICK at : Shown(Record, written, at)
    BY <2>1 DEF Mirrors
  <2>3. Works(Record, Wanted) <=> Fit(written, Wanted)
    BY <1>3, <2>2, WorksFits
  <2>4. Works(Record, Wanted) => Value(Record, Wanted) = Stored(written, Wanted)
    BY <1>3, <2>2, WorksFits
  <2>5. ~(next = 7 /\ ~ActiveIn(written))
    BY <1>1, <1>2, SkippedIsMeant
  <2> QED
    BY <2>1, <2>3, <2>4, <2>5 DEF Mirrors
<1>5. CASE Record # 0 /\ Works(Record, Wanted)
  <2>1. Store(Value(Record, Wanted))
    BY <1>1, <1>5
  <2>2. FieldInv'
    <3>1. CASE Undamaged
      <4>1. StoredIn(written, next, Value(Record, Wanted))
        BY <1>1, <1>3, <1>4, <1>5, <3>1 DEF StoredIn
      <4> QED
        BY <1>1, <1>2, <1>4, <2>1, <3>1, <4>1, StoreKeeps
    <3>2. CASE ~Undamaged
      BY <2>1, <3>2 DEF Store, FieldInv, Undamaged
    <3> QED
      BY <3>1, <3>2
  <2> QED
    BY <1>1, <2>1, <2>2, StoreRest
<1>6. CASE ~(Record # 0 /\ Works(Record, Wanted))
  <2>1. Fails
    BY <1>1, <1>6
  <2>2. Undamaged => ~FitAt(written, next)
    BY <1>1, <1>3, <1>4, <1>6 DEF FitAt
  <2> QED
    BY <1>1, <2>1, <2>2, FailsKeeps
<1> QED
  BY <1>5, <1>6

\* The start of an activation is not looked for if the record is not active.
LEMMA SkipFieldKeeps ==
  ASSUME TcrInv, SkipField
  PROVE  TcrInv'
<1>1. /\ pc = "get" /\ next \in 1 .. 11 /\ Skipped /\ UNCHANGED parserVars
      /\ next' = next + 1 /\ pc' = pc /\ code' = code /\ written' = written /\ tcr' = tcr
  BY FieldFacts DEF SkipField, Getting, TcrInv, TypeOK
<1>2. FieldInv /\ ParserInv /\ TypeOK
  BY DEF TcrInv
<1>3. ParserInv'
  BY <1>1, <1>2 DEF parserVars, ParserInv, ParserTypeOK, StackIsPath, NoTagBehindRoot
<1>4. next' - 1 = next /\ next' \in 1 .. Len(Fields) + 1
  BY <1>1, FieldFacts
<1>5. TypeOK'
  <2>1. DOMAIN tcr \subseteq {Fields[n].name : n \in 1 .. next}
    <3>1. DOMAIN tcr \subseteq {Fields[n].name : n \in 1 .. next - 1}
      BY <1>2 DEF TypeOK
    <3> QED
      BY <1>1, <3>1
  <2> QED
    BY <1>1, <1>2, <1>3, <1>4, <2>1 DEF TypeOK, ParserInv
<1>6. FieldInv'
  <2> SUFFICES ASSUME Undamaged PROVE FieldInv'
    BY <1>1 DEF FieldInv, Undamaged
  <2>1. next = 7 /\ ~ActiveIn(written)
    BY <1>1, <1>2, SkippedIsMeant
  <2>2. /\ Mirrors(written) /\ code = "OK" /\ DOMAIN tcr = NamesUpTo(written, 7)
        /\ \A i \in 1 .. 6 : StoredIn(written, i, tcr[Fields[i].name])
    BY <1>1, <1>2, <2>1 DEF FieldInv
  <2>3. Mirrors(written)'
    BY <1>1, <2>2, MirrorsStay DEF parserVars
  <2>4. NamesUpTo(written, 8) = NamesUpTo(written, 7)
    <3>1. {k \in 1 .. 8 - 1 : k = 7 => ActiveIn(written)} = {k \in 1 .. 7 - 1 : k = 7 => ActiveIn(written)}
      BY <2>1
    <3> QED
      BY <3>1 DEF NamesUpTo
  <2>5. StoredIn(written, 7, tcr[Fields[7].name])
    <3>1. Fields[7].kind # "array"
      BY FieldFacts DEF Field
    <3> QED
      BY <2>1, <3>1 DEF StoredIn
  <2>6. \A i \in 1 .. 7 : StoredIn(written, i, tcr[Fields[i].name])
    <3>1. \A i \in 1 .. 7 : i \in 1 .. 6 \/ i = 7
      OBVIOUS
    <3> QED
      BY <2>2, <2>5, <3>1
  <2>7. next' = 8 /\ next' - 1 = 7
    BY <1>1, <2>1
  <2> QED
    BY <1>1, <2>2, <2>3, <2>4, <2>6, <2>7 DEF FieldInv
<1> QED
  BY <1>1, <1>3, <1>5, <1>6 DEF TcrInv, TreeInv, FieldsAsWritten, ArraysAsWritten, CompleteIsAccepted

\* An array is taken, or the program ends.
LEMMA GetArrayKeeps ==
  ASSUME TcrInv, GetArray
  PROVE  TcrInv'
<1> DEFINE a == Wanted.name
           t == [k \in DOMAIN All(a) |-> FieldsOf(All(a)[k])]
<1>1. /\ pc = "get" /\ next \in 1 .. 11 /\ Wanted.kind = "array"
      /\ IF Record # 0 /\ \A n \in Children(Record, a) : \A f \in Range(ArrayFields[a]) : Works(n, f) THEN Store(t) ELSE Fails
  BY FieldFacts DEF GetArray, Getting, TcrInv, TypeOK
<1>2. FieldInv /\ ParserInv
  BY DEF TcrInv
<1>3. a \in DOMAIN ArrayFields /\ Wanted = Fields[next] /\ next # 7
  BY <1>1, FieldPlaces DEF FieldAt, Wanted
<1>4. Len(nodes) \in Nat /\ DOMAIN nodes = 1 .. Len(nodes)
  <2>1. nodes \in Seq(Node)
    BY <1>2 DEF ParserInv, ParserTypeOK
  <2> QED
    BY <2>1
<1> HIDE DEF t
<1>5. ASSUME Undamaged
      PROVE  /\ Record # 0
             /\ (\A n \in Children(Record, a) : \A f \in Range(ArrayFields[a]) : Works(n, f)) <=> ElementsComplete(written, a)
             /\ ElementsComplete(written, a) => ArrayAt(written, a, t)
  <2>1. Mirrors(written)
    BY <1>1, <1>2, <1>5 DEF FieldInv
  <2>2. PICK E, b : E = written /\ b = a
    OBVIOUS
  <2>3. /\ (\A n \in Children(Record, b) : \A f \in Range(ArrayFields[b]) : Works(n, f)) <=> ElementsComplete(E, b)
        /\ ElementsComplete(E, b) => ArrayAt(E, b, [k \in DOMAIN All(b) |-> FieldsOf(All(b)[k])])
    <3>1. Mirrors(E) /\ b \in DOMAIN ArrayFields /\ Wanted.name = b
      BY <1>3, <2>1, <2>2
    <3> HIDE <2>2
    <3> QED
      BY <1>4, <3>1, ArrayWorks
  <2> QED
    BY <2>1, <2>2, <2>3 DEF Mirrors, t
<1>6. CASE Record # 0 /\ \A n \in Children(Record, a) : \A f \in Range(ArrayFields[a]) : Works(n, f)
  <2>1. Store(t)
    BY <1>1, <1>6
  <2>2. FieldInv'
    <3>1. CASE Undamaged
      <4>1. StoredIn(written, next, t)
        BY <1>1, <1>3, <1>5, <1>6, <3>1 DEF StoredIn
      <4> QED
        BY <1>1, <1>2, <1>3, <2>1, <3>1, <4>1, StoreKeeps
    <3>2. CASE ~Undamaged
      BY <2>1, <3>2 DEF Store, FieldInv, Undamaged
    <3> QED
      BY <3>1, <3>2
  <2> QED
    BY <1>1, <2>1, <2>2, StoreRest
<1>7. CASE ~(Record # 0 /\ \A n \in Children(Record, a) : \A f \in Range(ArrayFields[a]) : Works(n, f))
  <2>1. Fails
    BY <1>1, <1>7
  <2>2. Undamaged => ~FitAt(written, next)
    BY <1>1, <1>3, <1>5, <1>7 DEF FitAt
  <2> QED
    BY <1>1, <2>1, <2>2, FailsKeeps
<1> QED
  BY <1>6, <1>7

\* When all fields were taken, the record is complete and the fields are the ones that were meant.
LEMMA AllTaken ==
  ASSUME FieldInv, Undamaged, pc \in {"get", "adjust"}, next = 12
  PROVE  /\ CompleteRecord(written)
         /\ \A n \in DOMAIN Fields :
              LET f == Fields[n]
              IN  f.kind # "array" /\ f.name \notin {"status", "recordexpiration"} /\ f.name \in DOMAIN tcr
                  => tcr[f.name] = Meant(written, f)
         /\ \A b \in DOMAIN ArrayFields : ArrayAt(written, b, tcr[b]) /\ b \in DOMAIN tcr
         /\ "status" \in DOMAIN tcr /\ "recordexpiration" \in DOMAIN tcr
<1>1. /\ DOMAIN tcr = NamesUpTo(written, 12)
      /\ \A i \in 1 .. 11 : StoredIn(written, i, tcr[Fields[i].name])
  BY DEF FieldInv
<1>2. CompleteRecord(written)
  <2>1. \A i \in 1 .. 11 : FitAt(written, i)
    BY <1>1, StoredFits
  <2>2. PICK E : E = written
    OBVIOUS
  <2> QED
    BY <2>1, <2>2, AllFit
<1>3. \A i \in 1 .. 11 : Fields[i].name \in DOMAIN tcr <=> (i = 7 => ActiveIn(written))
  <2> SUFFICES ASSUME NEW i \in 1 .. 11 PROVE Fields[i].name \in DOMAIN tcr <=> (i = 7 => ActiveIn(written))
    OBVIOUS
  <2>1. 12 - 1 = 11
    OBVIOUS
  <2>2. DOMAIN tcr = {Fields[k].name : k \in {m \in 1 .. 11 : m = 7 => ActiveIn(written)}}
    BY <1>1, <2>1 DEF NamesUpTo
  <2>3. ASSUME Fields[i].name \in DOMAIN tcr
        PROVE  i = 7 => ActiveIn(written)
    <3>1. PICK k \in 1 .. 11 : (k = 7 => ActiveIn(written)) /\ Fields[i].name = Fields[k].name
      BY <2>2, <2>3
    <3>2. i = k
      BY <3>1, FieldNames
    <3> QED
      BY <3>1, <3>2
  <2> QED
    BY <2>2, <2>3
<1>4. ASSUME NEW n \in 1 .. 11, Fields[n].kind # "array", Fields[n].name \notin {"status", "recordexpiration"},
             Fields[n].name \in DOMAIN tcr
      PROVE  tcr[Fields[n].name] = Meant(written, Fields[n])
  <2>1. n = 7 => ActiveIn(written)
    BY <1>3, <1>4
  <2>2. tcr[Fields[n].name] = Stored(written, Fields[n])
    BY <1>1, <1>4, <2>1 DEF StoredIn
  <2>3. Fields[n].kind \in {"string", "int", "date"}
    BY <1>4, FieldPlaces DEF FieldAt, IsField
  <2>4. Stored(written, Fields[n]) = Meant(written, Fields[n])
    <3> DEFINE f == Fields[n]
    <3>1. CASE f.kind = "string"
      BY <1>4, <3>1 DEF Stored, Meant
    <3>2. CASE f.kind = "int"
      BY <1>4, <3>2 DEF Stored, Meant
    <3>3. CASE f.kind = "date"
      BY <1>4, <3>3 DEF Stored, Meant
    <3> QED
      BY <2>3, <3>1, <3>2, <3>3
  <2> QED
    BY <2>2, <2>4
<1>5. \A b \in DOMAIN ArrayFields : ArrayAt(written, b, tcr[b]) /\ b \in DOMAIN tcr
  <2> SUFFICES ASSUME NEW b \in DOMAIN ArrayFields PROVE ArrayAt(written, b, tcr[b]) /\ b \in DOMAIN tcr
    OBVIOUS
  <2>1. PICK i \in {8, 9} : b = Fields[i].name /\ Fields[i].kind = "array"
    <3>1. b = "processorinfo" \/ b = "target"
      BY DEF ArrayFields
    <3> QED
      BY <3>1, FieldFacts DEF Field
  <2>2. i \in 1 .. 11 /\ i # 7
    OBVIOUS
  <2> QED
    BY <1>1, <1>3, <2>1, <2>2 DEF StoredIn
<1>6. "status" \in DOMAIN tcr /\ "recordexpiration" \in DOMAIN tcr
  <2>1. Fields[3].name = "status" /\ Fields[6].name = "recordexpiration"
    BY FieldFacts DEF Field
  <2>2. 3 \in 1 .. 11 /\ 6 \in 1 .. 11
    OBVIOUS
  <2> QED
    BY <1>3, <2>1, <2>2
<1> QED
  BY <1>2, <1>4, <1>5, <1>6, FieldFacts

\* The last field was taken.
LEMMA GotAllKeeps ==
  ASSUME TcrInv, GotAll
  PROVE  TcrInv'
<1>1. /\ pc = "get" /\ next = 12 /\ pc' = "adjust" /\ UNCHANGED parserVars
      /\ next' = next /\ code' = code /\ written' = written /\ tcr' = tcr
  BY FieldFacts DEF GotAll, TcrInv, TypeOK
<1>2. FieldInv /\ ParserInv /\ TypeOK
  BY DEF TcrInv
<1>3. ParserInv'
  BY <1>1, <1>2 DEF parserVars, ParserInv, ParserTypeOK, StackIsPath, NoTagBehindRoot
<1>4. TypeOK'
  BY <1>1, <1>2, <1>3 DEF TypeOK, ParserInv
<1>5. FieldInv'
  <2> SUFFICES ASSUME Undamaged PROVE FieldInv'
    BY <1>1 DEF FieldInv, Undamaged
  <2>1. Mirrors(written)
    BY <1>1, <1>2 DEF FieldInv
  <2>2. Mirrors(written)'
    BY <1>1, <2>1, MirrorsStay DEF parserVars
  <2> QED
    BY <1>1, <1>2, <2>2 DEF FieldInv
<1>6. FieldsAsWritten'
  <2> SUFFICES ASSUME Undamaged PROVE FieldsAsWritten'
    BY <1>1 DEF FieldsAsWritten, Undamaged
  <2>1. \A n \in DOMAIN Fields :
          LET f == Fields[n]
          IN  f.kind # "array" /\ f.name \notin {"status", "recordexpiration"} /\ f.name \in DOMAIN tcr
              => tcr[f.name] = Meant(written, f)
    BY <1>1, <1>2, AllTaken
  <2> QED
    BY <1>1, <2>1 DEF FieldsAsWritten
<1> QED
  BY <1>1, <1>3, <1>4, <1>5, <1>6 DEF TcrInv, TreeInv, ArraysAsWritten, CompleteIsAccepted

\* The expiration may be replaced by the days, every other field stays as it is.
LEMMA AdjustKeeps ==
  ASSUME TcrInv, Adjust
  PROVE  TcrInv'
<1>1. /\ pc = "adjust" /\ pc' = "done" /\ code' = "OK" /\ UNCHANGED parserVars /\ next' = next /\ written' = written
      /\ \/ tcr' = tcr
         \/ \E v : tcr' = [tcr EXCEPT !["recordexpiration"] = v]
  BY DEF Adjust, Exit
<1>2. FieldInv /\ ParserInv /\ TypeOK
  BY DEF TcrInv
<1>3. DOMAIN tcr' = DOMAIN tcr /\ \A name \in DOMAIN tcr : name # "recordexpiration" => tcr'[name] = tcr[name]
  BY <1>1
<1>4. ParserInv'
  BY <1>1, <1>2 DEF parserVars, ParserInv, ParserTypeOK, StackIsPath, NoTagBehindRoot
<1>5. TypeOK'
  BY <1>1, <1>2, <1>3, <1>4 DEF TypeOK, ParserInv
<1>6. CASE ~Undamaged
  <2>1. ~Undamaged'
    BY <1>1, <1>6 DEF Undamaged
  <2> QED
    BY <1>1, <1>4, <1>5, <2>1 DEF TcrInv, TreeInv, FieldInv, FieldsAsWritten, ArraysAsWritten, CompleteIsAccepted
<1>7. CASE Undamaged
  <2>1. next = 12
    BY <1>1, <1>2, <1>7 DEF FieldInv
  <2>2. /\ CompleteRecord(written)
        /\ \A n \in DOMAIN Fields :
             LET f == Fields[n]
             IN  f.kind # "array" /\ f.name \notin {"status", "recordexpiration"} /\ f.name \in DOMAIN tcr
                 => tcr[f.name] = Meant(written, f)
        /\ \A b \in DOMAIN ArrayFields : ArrayAt(written, b, tcr[b]) /\ b \in DOMAIN tcr
    BY <1>1, <1>2, <1>7, <2>1, AllTaken
  <2>3. FieldsAsWritten'
    BY <1>1, <1>3, <2>2 DEF FieldsAsWritten
  <2>4. ArraysAsWritten'
    <3>1. ASSUME NEW b \in DOMAIN ArrayFields
          PROVE  ArrayAt(written, b, tcr'[b])
      <4>1. b # "recordexpiration"
        BY DEF ArrayFields
      <4>2. tcr'[b] = tcr[b]
        BY <1>3, <2>2, <4>1
      <4> QED
        BY <2>2, <4>2
    <3> QED
      BY <1>1, <3>1 DEF ArraysAsWritten, ArrayAt, Taken
  <2>5. CompleteIsAccepted'
    BY <1>1, <2>2 DEF CompleteIsAccepted, CompleteRecord, ActiveIn, WroteActive, Undamaged
  <2> QED
    BY <1>1, <1>4, <1>5, <2>3, <2>4, <2>5 DEF TcrInv, TreeInv, FieldInv
<1> QED
  BY <1>6, <1>7

\* Nothing happens any more.
LEMMA StaysTcr ==
  ASSUME TcrInv, UNCHANGED vars
  PROVE  TcrInv'
<1>1. /\ UNCHANGED parserVars /\ pc' = pc /\ next' = next /\ code' = code /\ written' = written /\ tcr' = tcr
      /\ doc' = doc /\ pos' = pos /\ state' = state /\ buffer' = buffer /\ ret' = ret /\ nodes' = nodes
      /\ stack' = stack /\ root' = root
  BY DEF vars, parserVars
<1>2. FieldInv /\ ParserInv /\ TypeOK /\ TreeInv
  BY DEF TcrInv
<1>3. ParserInv'
  BY <1>1, <1>2 DEF ParserInv, ParserTypeOK, StackIsPath, NoTagBehindRoot
<1>4. TypeOK'
  BY <1>1, <1>2, <1>3 DEF TypeOK, ParserInv
<1>5. FieldInv'
  <2> SUFFICES ASSUME Undamaged, pc \in {"get", "adjust"} PROVE FieldInv'
    BY <1>1 DEF FieldInv, Undamaged
  <2>1. Mirrors(written)
    BY <1>2 DEF FieldInv
  <2>2. Mirrors(written)'
    BY <1>1, <2>1, MirrorsStay
  <2> QED
    BY <1>1, <1>2, <2>2 DEF FieldInv
<1>6. TreeInv'
  <2> SUFFICES ASSUME Undamaged, pc = "parse"
               PROVE  PlainRecord(written)' /\ (\E home, N, open, close : Follows(written, home, N, open, close))'
    BY <1>1, <1>2 DEF TreeInv, Undamaged
  <2>1. PICK home, N, open, close : Follows(written, home, N, open, close)
    BY <1>2 DEF TreeInv
  <2>2. Listing(N, open, close)' /\ Homes(written, home)' /\ Listed(written, home, N)' /\ PlainRecord(written)'
    BY <1>1, <1>2, <2>1 DEF Follows, TreeInv, Listing
  <2>3. Progress(N, open, close)'
    <3>1. Progress(N, open, close)
      BY <2>1 DEF Follows
    <3> QED
      BY <1>1, <3>1 DEF Progress, Filled, Counted, Copied, Nested, Around, Somewhere, AtStart, InStartTag, InEndTag, InText,
                        InBlanks, Left, Top, Input
  <2> QED
    BY <2>2, <2>3 DEF Follows
<1>7. FieldsAsWritten'
  BY <1>1 DEF TcrInv, FieldsAsWritten, Undamaged
<1>8. ArraysAsWritten'
  BY <1>1 DEF TcrInv, ArraysAsWritten, Undamaged
<1>9. CompleteIsAccepted'
  BY <1>1 DEF TcrInv, CompleteIsAccepted, Undamaged, WroteActive
<1> QED
  BY <1>3, <1>4, <1>5, <1>6, <1>7, <1>8, <1>9 DEF TcrInv

\* The invariant holds of every document that was written from a record.
LEMMA TcrInvariant == Truthful => (Spec => []TcrInv)
<1> SUFFICES ASSUME Truthful PROVE Spec => []TcrInv
  OBVIOUS
<1>1. Init => TcrInv
  BY InitTcr
<1>2. TcrInv /\ [Next]_vars => TcrInv'
  <2> SUFFICES ASSUME TcrInv, [Next]_vars PROVE TcrInv'
    OBVIOUS
  <2>1. CASE Parsing
    BY <2>1, ParsingKeeps
  <2>2. CASE Parsed
    BY <2>2, ParsedKeeps
  <2>3. CASE GetField
    BY <2>3, GetFieldKeeps
  <2>4. CASE SkipField
    BY <2>4, SkipFieldKeeps
  <2>5. CASE GetArray
    BY <2>5, GetArrayKeeps
  <2>6. CASE GotAll
    BY <2>6, GotAllKeeps
  <2>7. CASE Adjust
    BY <2>7, AdjustKeeps
  <2>8. CASE UNCHANGED vars
    BY <2>8, StaysTcr
  <2> QED
    BY <2>1, <2>2, <2>3, <2>4, <2>5, <2>6, <2>7, <2>8 DEF Next, Stopped
<1> QED
  BY <1>1, <1>2, PTL DEF Spec

\* Every document that was written from a record is parsed without an error, and to its end.
THEOREM WrittenIsParsed == Truthful => (Spec => [](Undamaged /\ pc = "parse" /\ ~Reading => ret = "OK" /\ root = 1))
<1> SUFFICES ASSUME Truthful PROVE Spec => [](Undamaged /\ pc = "parse" /\ ~Reading => ret = "OK" /\ root = 1)
  OBVIOUS
<1>1. Spec => []TcrInv
  BY TcrInvariant
<1>2. ASSUME TcrInv, Undamaged, pc = "parse", ~Reading
      PROVE  ret = "OK" /\ root = 1
  <2>1. PICK home, N, open, close : Listing(N, open, close) /\ Progress(N, open, close)
    BY <1>2 DEF TcrInv, TreeInv, Follows
  <2>2. Built(N)
    BY <1>2, <2>1, ParsedIsBuilt DEF TcrInv
  <2> QED
    BY <2>2 DEF Built
<1> QED
  BY <1>1, <1>2, PTL

\* A record never crashes the program, whatever is missing in it (see NeverCrashes).
THEOREM WrittenNeverCrashes == Truthful => (Spec => [](Undamaged => NeverCrashes))
<1> SUFFICES ASSUME Truthful PROVE Spec => [](Undamaged => NeverCrashes)
  OBVIOUS
<1>1. Spec => []TcrInv
  BY TcrInvariant
<1>2. TcrInv => (Undamaged => NeverCrashes)
  BY DEF TcrInv, TreeInv, NeverCrashes
<1> QED
  BY <1>1, <1>2, PTL

\* All fields of the record and of its processors and targets are the ones that were written.
THEOREM RecordStaysAsWritten == Truthful => (Spec => []RecordAsWritten)
<1> SUFFICES ASSUME Truthful PROVE Spec => []RecordAsWritten
  OBVIOUS
<1>1. Spec => []TcrInv
  BY TcrInvariant
<1>2. TcrInv => RecordAsWritten
  BY DEF TcrInv, RecordAsWritten
<1> QED
  BY <1>1, <1>2, PTL

\* A record is accepted if and only if nothing it must have is missing.
THEOREM CompleteStaysAccepted == Truthful => (Spec => []CompleteIsAccepted)
<1> SUFFICES ASSUME Truthful PROVE Spec => []CompleteIsAccepted
  OBVIOUS
<1>1. Spec => []TcrInv
  BY TcrInvariant
<1>2. TcrInv => CompleteIsAccepted
  BY DEF TcrInv
<1> QED
  BY <1>1, <1>2, PTL
=============================================================================
