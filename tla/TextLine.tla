------------------------------ MODULE TextLine ------------------------------
(***************************************************************************)
(* What the input line of a dialog promises: an endless line of blanks, a  *)
(* cursor that writes over what it stands on, and commands that are sent   *)
(* exactly as they stand on the line.                                      *)
(***************************************************************************)
EXTENDS Integers

CONSTANTS
  Char,    \* characters that can be typed
  Blank,   \* the blank
  Width    \* number of columns looked at

VARIABLES tape, cursor, sent

Column == 0..Width - 1
Empty == [i \in Column |-> Blank]

Init == tape = Empty /\ cursor = 0 /\ sent = Empty

Put(c) ==
  /\ cursor < Width
  /\ tape' = [tape EXCEPT ![cursor] = c]
  /\ cursor' = cursor + 1
  /\ UNCHANGED sent

Right == cursor < Width /\ cursor' = cursor + 1 /\ UNCHANGED <<tape, sent>>

Left == cursor > 0 /\ cursor' = cursor - 1 /\ UNCHANGED <<tape, sent>>

\* The character in column i goes, the rest moves up.
Without(i) ==
  [j \in Column |-> IF j < i THEN tape[j] ELSE IF j < Width - 1 THEN tape[j + 1] ELSE Blank]

Backspace ==
  /\ cursor > 0
  /\ tape' = Without(cursor - 1) /\ cursor' = cursor - 1
  /\ UNCHANGED sent

Delete == tape' = Without(cursor) /\ UNCHANGED <<cursor, sent>>

\* An empty line need not be sent.
Enter ==
  /\ tape' = Empty /\ cursor' = 0
  /\ sent' = tape \/ (tape = Empty /\ sent' = sent)

Next ==
  \/ \E c \in Char \cup {Blank} : Put(c)
  \/ Right \/ Left \/ Backspace \/ Delete \/ Enter

Spec == Init /\ [][Next]_<<tape, cursor, sent>>
=============================================================================
