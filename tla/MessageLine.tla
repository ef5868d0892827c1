------------------------------ MODULE MessageLine ------------------------------
(***************************************************************************)
(* The operator error line of a display: Write Error Code covers a row of  *)
(* the screen with a message, and the row is put back when the input       *)
(* inhibited light goes out.  Which row it is depends on the size of the   *)
(* screen and on the header of the format table, both of which the host    *)
(* may change while the message is shown.                                  *)
(*                                                                         *)
(* A row is the text it shows as a whole; the keyboard is what module      *)
(* Keyboard makes of it, without the keys that leave the light alone.      *)
(***************************************************************************)
EXTENDS Naturals

CONSTANTS Height80,   (* rows of the 24x80 screen  *)
          Height132,  (* rows of the 27x132 screen *)
          Text,       (* what the host may write in a row            *)
          Message,    (* the texts of Write Error Code               *)
          Blank,      (* a row of nulls                              *)
          Debris,     (* 132 columns read from a copy of 80          *)
          Nothing     (* a null pointer                              *)

(* What a row shows, a copy of it, and the history of one that is covered. *)
Row == Text \cup Message \cup {Blank, Debris}
Copy == [text : Row, wide : BOOLEAN]
Covered == [row : Nat, text : Row]

ASSUME MessageLineAssumption ==
    /\ Height80 \in Nat \ {0}
    /\ Height132 \in Nat \ {0}
    /\ Text \cap Message = {}
    /\ Blank \notin Message
    /\ Debris \notin Message
    /\ Nothing \notin Message \cup Copy \cup Covered

VARIABLES
    keystate,   (* display->keystate                                        *)
    inhibited,  (* the indicator INHIBIT (X II)                             *)
    wide,       (* the display buffer is 27x132                             *)
    headerRow,  (* byte 4 of the header of the format table, 0 if it has none *)
    screen,     (* the rows of the display buffer                           *)
    saved,      (* display->saved_msg_line                                  *)
    message,    (* display->msg_line                                        *)
    covered     (* history: the row the one error since the light went on   *)
                (* has covered, with what it showed                         *)

lineVars == <<keystate, inhibited, wide, headerRow, screen, saved, message, covered>>

Height == IF wide THEN Height132 ELSE Height80
(* A header may name any row, also one the screen does not have. *)
HeaderRows == 0 .. Height132 + 1

(* dbuffer_msg_line: the row of the header, or the last one. *)
MsgLine == IF headerRow \in 1 .. Height THEN headerRow ELSE Height

LineTypeOK ==
    /\ keystate \in {"UNLOCKED", "LOCKED", "PREHELP", "POSTHELP"}
    /\ inhibited \in BOOLEAN
    /\ wide \in BOOLEAN
    /\ headerRow \in HeaderRows
    /\ screen \in [1 .. Height -> Row]
    /\ saved \in Copy \cup {Nothing}
    /\ message \in Message \cup {Nothing}
    /\ covered \in Covered \cup {Nothing}

LineInit ==
    /\ keystate = "UNLOCKED"
    /\ inhibited = FALSE
    /\ wide = FALSE
    /\ headerRow = 0
    /\ screen = [r \in 1 .. Height80 |-> Blank]
    /\ saved = Nothing
    /\ message = Nothing
    /\ covered = Nothing
------------------------------------------------------------------------------
(* What is put back: a copy of the 80 columns does not fill a row of 132. *)
Restored == IF wide /\ ~saved.wide THEN Debris ELSE saved.text

(* A mutant: the light goes out and the pointers are kept. *)
UninhibitKeepsPointers ==
    /\ inhibited' = FALSE
    /\ screen' = IF saved = Nothing THEN screen
                                    ELSE [screen EXCEPT ![MsgLine] = Restored]
    /\ covered' = Nothing
    /\ UNCHANGED <<saved, message>>

(* tn5250_display_indicator_clear (INHIBIT) on a screen that keeps its size *)
Uninhibit ==
    /\ inhibited' = FALSE
    /\ screen' = IF saved = Nothing THEN screen
                                    ELSE [screen EXCEPT ![MsgLine] = Restored]
    /\ saved' = Nothing
    /\ message' = IF saved = Nothing THEN message ELSE Nothing
    /\ covered' = Nothing

(* A mutant: the line is saved after it was covered. *)
WriteThenSave(m) ==
    /\ saved' = [text |-> m, wide |-> wide]
    /\ message' = m
    /\ screen' = [screen EXCEPT ![MsgLine] = m]
    /\ keystate' = "POSTHELP"
    /\ inhibited' = TRUE
    /\ covered' = IF message = Nothing
                  THEN [row |-> MsgLine, text |-> screen[MsgLine]]
                  ELSE Nothing
    /\ UNCHANGED <<wide, headerRow>>

(* The error message of the host.  The line is saved before it is covered,  *)
(* an earlier copy is freed.                                               *)
WriteErrorCode(m) ==
    /\ saved' = [text |-> screen[MsgLine], wide |-> wide]
    /\ message' = m
    /\ screen' = [screen EXCEPT ![MsgLine] = m]
    /\ keystate' = "POSTHELP"
    /\ inhibited' = TRUE
    /\ covered' = IF message = Nothing
                  THEN [row |-> MsgLine, text |-> screen[MsgLine]]
                  ELSE Nothing
    /\ UNCHANGED <<wide, headerRow>>

(* display_update: whatever was written over the message is covered again. *)
Update ==
    /\ message # Nothing
    /\ screen' = [screen EXCEPT ![MsgLine] = message]
    /\ UNCHANGED <<keystate, inhibited, wide, headerRow, saved, message, covered>>

(* Write to Display: a row of text, and control codes that lock or unlock. *)
WriteText(r, t, lock, unlock) ==
    /\ screen' = [screen EXCEPT ![r] = t]
    /\ LET ks == IF lock THEN "LOCKED" ELSE keystate
       IN keystate' = IF unlock /\ ks = "LOCKED" THEN "UNLOCKED" ELSE ks
    /\ UNCHANGED <<inhibited, wide, headerRow, saved, message, covered>>

(* The format table, and with it the header, is cleared; an error message  *)
(* stays.                                                                  *)
NewHeader(row) ==
    /\ headerRow' = row
    /\ covered' = IF headerRow' = headerRow THEN covered ELSE Nothing
    /\ UNCHANGED <<inhibited, wide, screen, saved, message>>

(* The order Start of Header of Write to Display; an invalid length leaves *)
(* the header cleared.                                                     *)
StartOfHeader(row) ==
    /\ NewHeader(row)
    /\ keystate' = IF keystate = "UNLOCKED" THEN "LOCKED" ELSE keystate

ClearFormatTable ==
    /\ NewHeader(0)
    /\ keystate' = "LOCKED"

(* A read unlocks a locked keyboard, and then the light goes out. *)
Read ==
    /\ keystate = "LOCKED"
    /\ keystate' = "UNLOCKED"
    /\ Uninhibit
    /\ UNCHANGED <<wide, headerRow>>

(* A mutant: the buffer is cleared and not resized. *)
ClearSameSize(toWide) ==
    /\ wide' = toWide
    /\ headerRow' = 0
    /\ screen' = [r \in 1 .. Height |-> Blank]
    /\ saved' = Nothing
    /\ message' = Nothing
    /\ covered' = Nothing
    /\ inhibited' = FALSE
    /\ keystate' = "LOCKED"

(* Clear Unit resizes and clears the buffer first; the light that goes out *)
(* then puts the saved line back, on the last row of the new screen.       *)
ClearTo(toWide) ==
    /\ wide' = toWide
    /\ headerRow' = 0
    /\ LET rows == IF toWide THEN Height132 ELSE Height80
           last == IF saved = Nothing THEN Blank
                   ELSE IF toWide /\ ~saved.wide THEN Debris ELSE saved.text
       IN screen' = [r \in 1 .. rows |-> IF r = rows THEN last ELSE Blank]
    /\ saved' = Nothing
    /\ message' = Nothing
    /\ covered' = Nothing
    /\ inhibited' = FALSE
    /\ keystate' = "LOCKED"

ClearUnit == ClearTo(FALSE)

ClearUnitAlternate == ClearTo(TRUE)
------------------------------------------------------------------------------
(* The assertion of display_do_key: a key in this state ends the program. *)
Alive == ~(keystate = "UNLOCKED" /\ inhibited)

(* Reset, Attention, or with the option uninhibited a cursor or function key *)
(* of the post-help state: the keyboard is unlocked and the light goes out.  *)
ResetKey ==
    /\ Alive
    /\ keystate' = "UNLOCKED"
    /\ Uninhibit
    /\ UNCHANGED <<wide, headerRow>>

(* A key is refused: in the field exit required state also one of the keys *)
(* that are acted upon while the keyboard is locked.                       *)
OperatorError ==
    /\ Alive
    /\ keystate' = "PREHELP"
    /\ inhibited' = TRUE
    /\ UNCHANGED <<wide, headerRow, screen, saved, message, covered>>

(* System Request unlocks a locked keyboard and leaves the light on. *)
SystemRequest ==
    /\ keystate = "LOCKED"
    /\ keystate' = "UNLOCKED"
    /\ UNCHANGED <<inhibited, wide, headerRow, screen, saved, message, covered>>

(* The Help record, sent by the key or by the event loop itself. *)
Help ==
    /\ keystate = "PREHELP"
    /\ keystate' = "POSTHELP"
    /\ UNCHANGED <<inhibited, wide, headerRow, screen, saved, message, covered>>

LineNext ==
    \/ \E m \in Message : WriteErrorCode(m)
    \/ Update
    \/ \E r \in 1 .. Height, t \in Text, lock, unlock \in BOOLEAN :
          WriteText(r, t, lock, unlock)
    \/ \E row \in HeaderRows : StartOfHeader(row)
    \/ ClearFormatTable
    \/ Read
    \/ ClearUnit
    \/ ClearUnitAlternate
    \/ ResetKey
    \/ OperatorError
    \/ SystemRequest
    \/ Help

LineSpec == LineInit /\ [][LineNext]_lineVars
------------------------------------------------------------------------------
(* A message on the error line, and a copy of what it covers, exist only    *)
(* together and only while the light is on: no path that puts the light out *)
(* forgets the message or leaks the copy.                                   *)
MessageNeedsLight ==
    /\ message # Nothing <=> saved # Nothing
    /\ message # Nothing => inhibited

(* After a single error the operator gets the row back as it was, whatever  *)
(* the host wrote over the message, however the light goes out and whichever *)
(* row the header names, unless the header changed or the whole screen goes. *)
OneErrorIsUndone ==
    [][covered # Nothing /\ inhibited /\ ~inhibited' /\ ~ClearUnit
           /\ ~ClearUnitAlternate
       => screen'[covered.row] = covered.text]_lineVars
==============================================================================
