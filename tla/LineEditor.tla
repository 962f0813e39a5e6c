----------------------------- MODULE LineEditor -----------------------------
(***************************************************************************)
(* The input line of snipl --dialog: the loop of snipl_image_dialog that   *)
(* reads the terminal character by character, with handle_del and          *)
(* handle_esc of sniplapi.c.  What is echoed to the terminal is left out;  *)
(* the end of the input is in LparDialog.                                  *)
(***************************************************************************)
EXTENDS Integers, FiniteSets

CONSTANTS
  Char,    \* characters that can be typed
  Blank,   \* the blank
  Nul,     \* the character that ends a string
  Width,   \* bound: columns a user fills
  Keys,    \* the keys a user has
  MaxSent  \* bound: lines sent

KeyKind == {"char", "left", "right", "backspace", "delete", "delete_at_end", "enter"}

ASSUME LineEditorAssumption ==
  /\ Width \in Nat \ {0} /\ Keys \subseteq KeyKind /\ MaxSent \in Nat
  /\ Blank \notin Char /\ Nul \notin Char \cup {Blank}

VARIABLES
  command_string, \* the buffer; column Width is there for the end of the string
  current,        \* the cursor
  last,           \* number of columns in use
  sent,           \* the command sent last
  lines           \* number of lines read

lineVars == <<command_string, current, last, sent, lines>>

Column == 0..Width - 1
Empty == [i \in Column |-> Blank]

LineInit ==
  /\ command_string = [i \in 0..Width |-> Nul]
  /\ current = 0 /\ last = 0
  /\ sent = Empty /\ lines = 0

\* A character is written at the cursor.
Type(c) ==
  /\ "char" \in Keys /\ current < Width
  /\ command_string' = [command_string EXCEPT ![current] = c]
  /\ last' = IF current = last THEN last + 1 ELSE last
  /\ current' = current + 1
  /\ UNCHANGED <<sent, lines>>

ArrowRight ==
  /\ "right" \in Keys /\ current < Width
  /\ IF current = last
     THEN command_string' = [command_string EXCEPT ![current] = Blank] /\ last' = last + 1
     ELSE UNCHANGED <<command_string, last>>
  /\ current' = current + 1
  /\ UNCHANGED <<sent, lines>>

ArrowLeft ==
  /\ "left" \in Keys
  /\ current' = IF current > 0 THEN current - 1 ELSE current
  /\ UNCHANGED <<command_string, last, sent, lines>>

\* Mutated form: the last column keeps its character.
BugLastStays(i) ==
  [j \in 0..Width |-> IF j \in i..last - 2 THEN command_string[j + 1] ELSE command_string[j]]

\* The columns from i on move up; the last one becomes blank.
Shifted(i) ==
  [j \in 0..Width |->
    IF j \in i..last - 2 THEN command_string[j + 1]
    ELSE IF j = last - 1 THEN Blank ELSE command_string[j]]

\* Mutated form: the cursor stays behind.
BugCursorStays ==
  /\ "backspace" \in Keys /\ current > 0
  /\ command_string' = Shifted(current - 1) /\ last' = last - 1
  /\ UNCHANGED <<current, sent, lines>>

Backspace ==
  /\ "backspace" \in Keys
  /\ IF current > 0
     THEN command_string' = Shifted(current - 1) /\ current' = current - 1
     ELSE UNCHANGED <<command_string, current>>
  /\ UNCHANGED <<last, sent, lines>>

\* ESC [ 3 ~.  Behind the last column nothing moves, but the last column is made blank; on an
\* empty line the character before the buffer is overwritten.
Delete ==
  /\ ("delete" \in Keys /\ current < last) \/ "delete_at_end" \in Keys
  /\ command_string' = Shifted(current)
  /\ UNCHANGED <<current, last, sent, lines>>

\* The string in a buffer, padded with blanks.
Length(buffer) == CHOOSE n \in 0..Width + 1 :
  (n = Width + 1 \/ buffer[n] = Nul) /\ \A i \in 0..n - 1 : buffer[i] # Nul

Padded(buffer) == [i \in Column |-> IF i < Length(buffer) THEN buffer[i] ELSE Blank]

\* Send a command that is not empty and begin the next line: only the first character of the
\* buffer is cleared.
Send(buffer) ==
  /\ lines < MaxSent /\ lines' = lines + 1
  /\ sent' = IF Length(buffer) > 0 THEN Padded(buffer) ELSE sent
  /\ command_string' = [buffer EXCEPT ![0] = Nul]
  /\ current' = 0 /\ last' = 0

Enter == "enter" \in Keys /\ Send([command_string EXCEPT ![last] = Nul])

LineNext ==
  \/ \E c \in Char \cup {Blank} : Type(c)
  \/ ArrowRight \/ ArrowLeft \/ Backspace \/ Delete \/ Enter

LineSpec == LineInit /\ [][LineNext]_lineVars

(***************************************************************************)
(* Properties.                                                             *)
(***************************************************************************)

\* The cursor stands on the line or right behind it, and the line holds no end of string.
LineTypeOK ==
  /\ command_string \in [0..Width -> Char \cup {Blank, Nul}]
  /\ last \in 0..Width /\ current \in 0..last
  /\ sent \in [Column -> Char \cup {Blank}]
  /\ lines \in 0..MaxSent
  /\ \A i \in 0..last - 1 : command_string[i] # Nul

Tape == [i \in Column |-> IF i < last THEN command_string[i] ELSE Blank]

\* The editor does what TextLine promises, though it knows only two numbers and a buffer that
\* still holds what earlier lines left there (snipl_image_dialog, handle_del, handle_esc).
Promise == INSTANCE TextLine WITH tape <- Tape, cursor <- current

ImplementsTextLine == Promise!Spec
=============================================================================
