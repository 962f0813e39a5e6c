----------------------------- MODULE DsmParser -----------------------------
(***************************************************************************)
(* The parser of sncap for the documents the SE describes its records with *)
(* (sncapdsm.c): an automaton over the characters, and the nodes it opens  *)
(* and closes on a stack.  A run of letters that belong together is one    *)
(* character here.                                                         *)
(***************************************************************************)
EXTENDS Integers, Sequences

CONSTANT DSM_STACK_DEPTH   \* entries of the stack

ASSUME DsmAssumption == DSM_STACK_DEPTH \in Nat \ {0}

VARIABLES
  doc,     \* dsm_parse_xml's input
  pos,     \* its i, from 1
  state,   \* parser.state
  buffer,  \* the characters in parser.buffer
  ret,     \* its ret
  nodes,   \* the nodes in the order of their allocation: the children of a node are those with
           \* it as parent, in this order; value has one part for each time text was added,
           \* and none while it is NULL
  stack,   \* parser.dom.stack up to its head, as indices of nodes
  root     \* *root, 0 for NULL

parserVars == <<doc, pos, state, buffer, ret, nodes, stack, root>>

State == {"START", "TAG_START", "TAG_BODY", "TAG_END", "VALUE", "ERROR", "CRASH"}
Special == {"<", ">", "/"}
Blank == " "

ParserInit ==
  /\ doc \in Seq(STRING) /\ pos = 1 /\ state = "START" /\ buffer = <<>> /\ ret = "OK"
  /\ nodes = <<>> /\ stack = <<>> /\ root = 0

Top == stack[Len(stack)]
Reading == pos <= Len(doc)
Input == doc[pos]

\* What follows a character: in state ERROR the loop ends, in every other one the next character
\* is read, whatever ret says.
Goes(s, r) ==
  /\ state' = s
  /\ ret' = IF s = "ERROR" THEN "SYNTAX_ERROR" ELSE r
  /\ pos' = IF s = "ERROR" THEN Len(doc) + 1 ELSE pos + 1
  /\ UNCHANGED doc

\* dsm_parser_buffer_put: the buffer has one place less than the document has characters.
Put(s) ==
  /\ IF Len(buffer) + 1 < Len(doc) THEN buffer' = Append(buffer, Input) /\ Goes(s, "OK")
     ELSE Goes(s, "BUFFER_OVERFLOW") /\ UNCHANGED buffer
  /\ UNCHANGED <<nodes, stack, root>>

Fail == Goes("ERROR", "OK") /\ UNCHANGED <<buffer, nodes, stack, root>>

(***************************************************************************)
(* handle_tag_start.                                                       *)
(***************************************************************************)
FirstTag ==
  /\ Reading /\ Input = "<" /\ state = "START"
  /\ buffer' = <<>> /\ Goes("TAG_START", "OK") /\ UNCHANGED <<nodes, stack, root>>

\* dsm_create_value: the text so far belongs to the innermost node.
TagStart ==
  /\ Reading /\ Input = "<" /\ state \in {"TAG_END", "VALUE"} /\ stack # <<>>
  /\ nodes' = [nodes EXCEPT ![Top].value = Append(@, buffer)]
  /\ buffer' = <<>> /\ Goes("TAG_START", "OK") /\ UNCHANGED <<stack, root>>

\* Mutated form: a further tag is read behind the last one.
BugBehindRoot ==
  /\ Reading /\ Input = "<" /\ state \in {"TAG_END", "VALUE"} /\ stack = <<>>
  /\ buffer' = <<>> /\ Goes("TAG_START", "SYNTAX_ERROR") /\ UNCHANGED <<nodes, stack, root>>

\* Behind the end of the document there is no such node.
BehindRoot ==
  /\ Reading /\ Input = "<" /\ state \in {"TAG_END", "VALUE"} /\ stack = <<>>
  /\ Goes(state, "SYNTAX_ERROR") /\ UNCHANGED <<buffer, nodes, stack, root>>

MisplacedStart == Reading /\ Input = "<" /\ state \in {"TAG_START", "TAG_BODY"} /\ Fail

(***************************************************************************)
(* handle_tag_end, with dsm_open_node and dsm_close_node.                  *)
(***************************************************************************)
InTag == Reading /\ Input = ">" /\ state = "TAG_BODY"

\* Mutated form: only the outermost node becomes the innermost one.
BugPushed(n) == IF stack = <<>> THEN <<n>> ELSE stack

Pushed(n) == Append(stack, n)

\* A node is opened: it becomes a child of the innermost node, and then that node itself.
OpenNode ==
  /\ InTag /\ buffer[1] # "/" /\ Len(stack) < DSM_STACK_DEPTH
  /\ nodes' = Append(nodes, [name |-> buffer, value |-> <<>>, parent |-> IF stack = <<>> THEN 0 ELSE Top])
  /\ stack' = Pushed(Len(nodes'))
  /\ buffer' = <<>> /\ Goes("TAG_END", "OK") /\ UNCHANGED root

\* head, the index of the last entry, is compared with the number of entries: the node is
\* written behind the array, where head itself is.  The next access to the stack is anywhere.
Overflow ==
  /\ InTag /\ buffer[1] # "/" /\ Len(stack) = DSM_STACK_DEPTH
  /\ state' = "CRASH" /\ pos' = Len(doc) + 1
  /\ UNCHANGED <<doc, buffer, ret, nodes, stack, root>>

Closes == stack # <<>> /\ nodes[Top].name = Tail(buffer)

\* Mutated form: every node that is closed becomes the root.
BugCloseNode ==
  /\ InTag /\ buffer[1] = "/" /\ Closes
  /\ root' = Top
  /\ stack' = SubSeq(stack, 1, Len(stack) - 1)
  /\ buffer' = <<>> /\ Goes("TAG_END", "OK") /\ UNCHANGED nodes

CloseNode ==
  /\ InTag /\ buffer[1] = "/" /\ Closes
  /\ root' = IF Len(stack) = 1 THEN Top ELSE root
  /\ stack' = SubSeq(stack, 1, Len(stack) - 1)
  /\ buffer' = <<>> /\ Goes("TAG_END", "OK") /\ UNCHANGED nodes

\* The tag is still in the buffer and can be continued.
Mismatch ==
  /\ InTag /\ buffer[1] = "/" /\ ~Closes
  /\ Goes("TAG_BODY", "SYNTAX_ERROR") /\ UNCHANGED <<buffer, nodes, stack, root>>

MisplacedEnd == Reading /\ Input = ">" /\ state # "TAG_BODY" /\ Fail

(***************************************************************************)
(* handle_slash and handle_letter.                                         *)
(***************************************************************************)
Slash ==
  /\ Reading /\ Input = "/"
  /\ CASE state = "TAG_START" -> Put("TAG_BODY")
       [] state = "TAG_BODY" -> Fail
       [] OTHER -> Put(state)

Space ==
  /\ Reading /\ Input = Blank
  /\ CASE state = "TAG_START" -> Fail
       [] state = "TAG_END" -> Goes(state, "OK") /\ UNCHANGED <<buffer, nodes, stack, root>>
       [] OTHER -> Put(state)

Letter ==
  /\ Reading /\ Input \notin Special \cup {Blank}
  /\ CASE state = "START" -> Fail
       [] state \in {"TAG_START", "TAG_BODY"} -> Put("TAG_BODY")
       [] OTHER -> Put("VALUE")

Parse ==
  \/ FirstTag \/ TagStart \/ BehindRoot \/ MisplacedStart
  \/ OpenNode \/ Overflow \/ CloseNode \/ Mismatch \/ MisplacedEnd
  \/ Slash \/ Space \/ Letter

ParserSpec == ParserInit /\ [][Parse]_parserVars

(***************************************************************************)
(* Lookups.                                                                *)
(***************************************************************************)
Children(n, name) == {c \in DOMAIN nodes : nodes[c].parent = n /\ nodes[c].name = <<name>>}

\* dsm_list_find: the first of them, 0 if there is none.
Find(n, name) ==
  IF Children(n, name) = {} THEN 0
  ELSE CHOOSE c \in Children(n, name) : \A d \in Children(n, name) : c <= d

\* The text of a node: its parts one behind the other.
Text(n) ==
  LET joined[k \in 0 .. Len(nodes[n].value)] ==
        IF k = 0 THEN <<>> ELSE joined[k - 1] \o nodes[n].value[k]
  IN  joined[Len(nodes[n].value)]

(***************************************************************************)
(* Properties.                                                             *)
(***************************************************************************)
Node == [name : Seq(STRING), value : Seq(Seq(STRING)), parent : Nat]

\* Type invariant.
ParserTypeOK ==
  /\ doc \in Seq(STRING) /\ pos \in 1 .. Len(doc) + 1 /\ state \in State
  /\ buffer \in Seq(STRING) /\ (buffer # <<>> => Len(buffer) < Len(doc)) /\ ret \in {"OK", "SYNTAX_ERROR", "BUFFER_OVERFLOW"}
  /\ nodes \in Seq(Node) /\ stack \in Seq(1 .. Len(nodes)) /\ root \in 0 .. Len(nodes)

\* The stack is the path from the outermost node to the innermost open one, and what is not on
\* it is closed: whichever tags the document has, in whichever order (dsm_open_node and
\* dsm_close_node are the only ones to touch it).
StackIsPath ==
  /\ stack # <<>> => stack[1] = 1 /\ root = 0
  /\ \A k \in 2 .. Len(stack) : nodes[stack[k]].parent = stack[k - 1]
  /\ \A n \in DOMAIN nodes : nodes[n].parent < n /\ (nodes[n].parent = 0 => n = 1)
  /\ root \in {0, 1}

\* The tree is finished when its outermost node is closed: whatever follows is not part of it
\* (BehindRoot leaves the automaton where it is).
RootIsFinal == [][root # 0 => UNCHANGED <<nodes, stack, root>>]_parserVars
=============================================================================
