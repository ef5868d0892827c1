----------------------------- MODULE FieldEditing -----------------------------
(***************************************************************************)
(* What the keys of a 5250 keyboard do to the fields of a screen, and what *)
(* the host gets to see of it.  The host has written a format and waits    *)
(* for an answer (a read is pending), the user edits, Enter sends the      *)
(* fields, and the host answers with a Write to Display that resets or     *)
(* clears what it has seen and unlocks the keyboard.  The key states that  *)
(* module Keyboard treats are reduced to three: keys are acted upon, an    *)
(* operator error inhibits them, the keyboard is locked.                   *)
(***************************************************************************)
EXTENDS WordWrap, Orders

CONSTANTS Formats,              (* the formats the host may write *)
          HeaderOf,             (* the format table header sent with each *)
          Contents,             (* and the text it writes into the fields *)
          Typed,                (* the characters on the keyboard *)
          FunctionKeys,         (* and the numbers of its function keys *)
          ReadOps,              (* the reads the host may issue *)
          Cc1s,                 (* what the host's control character clears *)
          SignKeyHack,          (* '+' and '-' act as Field+ and Field- *)
          FieldMinusInChar,     (* Field- leaves fields that have no sign *)
          DestructiveBackspace

(* A format the fields of which have room on the screen and do not overlap. *)
(* A continued field has a first part, middle ones and a last one, each but *)
(* the last within a row and not at its end, and word wrap is marked in all *)
(* but the last part.                                                       *)

IsFormat(format) ==
    /\ format \in Seq(Field)
    /\ \A i \in DOMAIN format :
          LET f == format[i]
          IN /\ f.len > 0 /\ EndPos(f) < Size
             /\ \A j \in DOMAIN format : j # i => FieldCells(f) \cap FieldCells(format[j]) = {}
             /\ IsContinuation(f) => i # 1
             /\ Continues(f) => /\ i < Len(format) /\ IsContinuation(format[i + 1])
                                /\ Row(EndPos(f)) = Row(f.start) /\ Col(EndPos(f)) < w - 1
             /\ f.wordwrap => Continues(f)

ASSUME FieldEditingAssumption ==
    /\ Size > 1
    /\ \A f \in Formats : IsFormat(f)
    /\ Contents \subseteq [Cells -> Chars] /\ Typed \subseteq Chars
    /\ SignKeyHack \in BOOLEAN /\ FieldMinusInChar \in BOOLEAN
    /\ DestructiveBackspace \in BOOLEAN
    /\ FunctionKeys \subseteq 1 .. 24
    /\ \A f \in Formats : HeaderOf[f] \in Seq(0 .. 255) /\ Len(HeaderOf[f]) \in 0 .. 7
    /\ ReadOps \subseteq {"input", "mdt", "mdt_alt"}
    /\ Cc1s \subseteq {"nothing", "reset", "reset_all", "null_modified",
                       "reset_null", "reset_null_modified", "reset_all_null"}

VARIABLES screen,    (* the display buffer *)
          insert,    (* insert mode *)
          fer,       (* the field exit required indicator *)
          phase,     (* "input", "inhibited", "locked", or "hung" *)
          src,       (* the error reported, while phase is "inhibited" *)
          record,    (* the fields sent with the last answer *)
          aid,       (* the key it was sent for: 0 for Enter, or n for Fn *)
          unseen     (* ghost: the fields whose text the host does not know *)

vars == <<screen, insert, fer, phase, src, record, aid, unseen>>

(***************************************************************************)
(* Fields as the user and the host see them: the parts of a continued      *)
(* field are one field, named by its first part.                           *)
(***************************************************************************)
Logical(d) == {i \in DOMAIN d.fields : d.fields[i].part \in {"none", "first"}}
PartsOf(d, i) ==
    {j \in DOMAIN d.fields :
        \/ j = i
        \/ /\ d.fields[i].part = "first" /\ j > i
           /\ \A k \in i + 1 .. j : d.fields[k].part \in {"middle", "last"}
           /\ \A k \in i + 1 .. j - 1 : d.fields[k].part = "middle"}
Text(d, i) == [k \in 1 .. d.fields[i].len |-> d.data[d.fields[i].start + k - 1]]
FieldText(d, i) ==
    LET parts == PartsOf(d, i)
        join[j \in Nat] == IF j \in parts THEN Text(d, j) \o join[j + 1] ELSE <<>>
    IN join[i]

Here == FieldYX(screen, screen.cur)
HereField == screen.fields[Here]
Enterable == Here # 0 /\ ~HereField.bypass
At(p) == [screen EXCEPT !.cur = p]

(***************************************************************************)
(* How a key ends: with a changed screen, with an operator error, or with  *)
(* the fields sent to the host.                                            *)
(***************************************************************************)
Done(d) ==
    /\ screen' = d
    /\ phase' = IF d.cur = Hung THEN "hung" ELSE "input"
    /\ UNCHANGED <<insert, src, record, aid>>

ErrorOn(d, code) ==
    /\ screen' = d /\ phase' = "inhibited" /\ src' = code
    /\ UNCHANGED <<insert, record, aid>>
Error(code) == ErrorOn(screen, code)

(* The bytes of one field in the answer. *)
Blanked(text) == [k \in DOMAIN text |-> IF text[k] = Nul THEN Blank ELSE text[k]]
WithoutTrailingNuls(text) ==
    SubSeq(text, 1, Largest({0} \cup {k \in DOMAIN text : text[k] # Nul}))
SendField(d, i, op) ==
    LET text == FieldText(d, i)
        size == Len(text)
        signed == d.fields[i].type = "signed_num"
        negative == signed /\ text[size] = Minus
        digits == IF signed THEN SubSeq(text, 1, size - 1) ELSE text
        zoned == IF negative /\ size > 2 /\ text[size - 1] \in Digits
                 THEN [digits EXCEPT ![size - 1] = Zoned(@)] ELSE digits
    IN CASE op = "input" /\ signed ->
              Blanked(digits) \o <<IF negative THEN Zoned(text[size - 1])
                                   ELSE text[size - 1]>>
         [] op = "input" /\ ~signed -> Blanked(text)
         [] op = "mdt" -> Blanked(WithoutTrailingNuls(zoned))
         [] op = "mdt_alt" -> WithoutTrailingNuls(zoned)

(* The header has a bit for each function key that sends no fields, F1 in    *)
(* the last bit of its seventh byte; shorter headers have none.              *)
SendDataForAidKey(d, k) ==
    (k > 0 /\ Len(d.header) > 6) =>
        (d.header[7 - (k - 1) \div 8] \div 2 ^ ((k - 1) % 8)) % 2 = 0

(* The fields of the answer, in the order of the table. *)
SendFields(d, op, k) ==
    LET sent == {i \in Logical(d) : /\ SendDataForAidKey(d, k)
                                    /\ IF op = "input" THEN d.mdt ELSE d.fields[i].mdt}
        nth[n \in Nat] == Smallest({i \in sent : n = Cardinality({j \in sent : j <= i})})
    IN [n \in 1 .. Cardinality(sent) |->
            [field |-> nth[n], text |-> SendField(d, nth[n], op)]]

SendFor(d, k) ==
    \E op \in ReadOps :
        /\ screen' = d
        /\ record' = SendFields(d, op, k) /\ aid' = k
        /\ phase' = "locked" /\ insert' = FALSE
        /\ UNCHANGED src
Send(d) == SendFor(d, 0)

(***************************************************************************)
(* Field exit required.  Typing the last character of such a field, or     *)
(* Dup in it, leaves the cursor there until a key that leaves the field.   *)
(***************************************************************************)
FieldExitRequiredError ==
    /\ phase = "input" /\ fer
    /\ Error("fer") /\ UNCHANGED fer

FieldExitRequiredUndone ==
    /\ phase = "input" /\ fer
    /\ fer' = FALSE
    /\ UNCHANGED <<screen, insert, phase, src, record, aid>>

(* A key that is refused while the indicator is on, or that turns it off. *)
Refused == phase = "input" /\ ~fer
Clearing == phase = "input" /\ fer' = FALSE

(***************************************************************************)
(* Typing                                                                  *)
(***************************************************************************)
ValidChar(type, c) ==
    CASE type = "alpha_only" -> c \in Letters \cup {Minus, Blank}
      [] type = "num_only" -> c \in Digits \cup {Minus, Blank}
      [] type \in {"digit_only", "signed_num"} -> c \in Digits
      [] type = "mag_reader" -> FALSE
      [] OTHER -> TRUE
CharError(type) ==
    CASE type = "alpha_only" -> "alpha_only"
      [] type = "num_only" -> "num_only"
      [] type \in {"digit_only", "signed_num"} -> "only_09"
      [] OTHER -> "data_disallowed"

LastPart(d, i) == Largest(PartsOf(d, i) \cup {j \in DOMAIN d.fields :
    \E k \in Logical(d) : {i, j} \subseteq PartsOf(d, k)})
NoRoom(d, i) ==
    LET last == d.fields[LastPart(d, i)]
        p == EndPos(last) - (IF d.fields[i].type = "signed_num" THEN 1 ELSE 0)
    IN ~Empty(d.data[p])

InsertChar(d, i, c) ==
    IF d.fields[i].wordwrap THEN WrapInsert(d, i, c)
    ELSE Ins(d, i, c, CountRight(d.fields[i], d.cur))
TypeOver(d, i, c) ==
    IF \/ d.fields[i].wordwrap
       \/ d.fields[i].part = "last" /\ d.fields[PrevIn(d, i)].wordwrap
    THEN WrapAddCh(d, i, c) ELSE AddCh(d, c)

(* After the last character of a field the cursor goes to the next one. *)
LeaveAtEnd(d, i) ==
    LET f == d.fields[i]
        adjusted == FieldAdjust(d, i)
    IN IF f.auto_enter THEN Send(adjusted)
       ELSE Done([adjusted EXCEPT !.cur =
                    IF f.nextfield # 0
                    THEN NextProgressionField(adjusted, adjusted.cur, f.nextfield)
                    ELSE CursorNextField(adjusted, LeftOf(adjusted.cur))])

(* The character is put; it was the last of its field or not. *)
Placed(d, i, atEnd) ==
    LET f == HereField
    IN IF ~atEnd \/ f.wordwrap \/ d.cur = Hung THEN Done(d) /\ UNCHANGED fer
       ELSE IF f.fer THEN Done([d EXCEPT !.cur = EndPos(f)]) /\ fer' = TRUE
       ELSE LeaveAtEnd(d, i) /\ UNCHANGED fer

PutChar(c) ==
    LET i == Here
        f == HereField
        atEnd == screen.cur = EndPos(f)
    IN CASE ~ValidChar(f.type, c) -> Error(CharError(f.type)) /\ UNCHANGED fer
         [] ValidChar(f.type, c) /\ f.type = "signed_num" /\ atEnd ->
                Error("sign_position") /\ UNCHANGED fer
         [] OTHER ->
            CASE insert /\ NoRoom(screen, i) -> Error("no_room") /\ UNCHANGED fer
              [] OTHER ->
                 Placed(SetMdt(IF insert THEN InsertChar(screen, i, c)
                               ELSE TypeOver(screen, i, c), i), i, atEnd)

(* Field Exit, Field+, Field-: the rest of the field is cleared, its text  *)
(* adjusted, the sign set, and the cursor leaves the field.                *)
PadAndAdjust(d, i) ==
    LET f == d.fields[i]
        end == EndPos(f) - (IF f.type = "signed_num" THEN 1 ELSE 0)
        rest == (d.cur .. end) \cup
                UNION {FieldCells(d.fields[j]) : j \in
                    {k \in DOMAIN d.fields : k > i /\ \E l \in Logical(d) :
                        {i, k} \subseteq PartsOf(d, l)}}
    IN FieldAdjust(IF fer THEN d
                   ELSE [d EXCEPT !.data = [p \in Cells |->
                            IF p \in rest THEN Nul ELSE @[p]]], i)

Leave(d, i) ==
    IF d.fields[i].auto_enter THEN Send(d)
    ELSE Done([d EXCEPT !.cur = CursorNextLogicalField(d, d.cur)])

FieldExitKey ==
    IF ~Enterable THEN Error("protect")
    ELSE Leave(PadAndAdjust(screen, Here), Here)

FieldPlusKey ==
    IF ~Enterable THEN Error("protect")
    ELSE LET d == PadAndAdjust(screen, Here)
         IN Leave(IF HereField.type = "signed_num"
                  THEN [d EXCEPT !.data[EndPos(HereField)] = Nul] ELSE d, Here)

FieldMinusKey ==
    IF Here = 0 \/ (Here # 0 /\ HereField.type \notin {"signed_num", "num_only"})
    THEN IF FieldMinusInChar THEN FieldExitKey ELSE Error("field_minus_disallowed")
    ELSE LET d == PadAndAdjust(screen, Here)
         IN Leave([d EXCEPT !.data[EndPos(HereField)] =
                    IF HereField.type = "num_only" THEN Zoned(@) ELSE Minus], Here)

Type(c) ==
    /\ Refused
    /\ IF ~Enterable THEN Error("protect") /\ UNCHANGED fer
       ELSE LET numeric == HereField.type \in {"num_only", "signed_num"}
                typed == IF HereField.monocase THEN Upcase(c) ELSE c
            IN IF SignKeyHack /\ numeric /\ c \in {Plus, Minus}
               THEN /\ IF c = Plus THEN FieldPlusKey ELSE FieldMinusKey
                    /\ UNCHANGED fer
               ELSE PutChar(typed)

(***************************************************************************)
(* The other keys                                                          *)
(***************************************************************************)
FieldExit == Clearing /\ FieldExitKey
FieldPlus == Clearing /\ FieldPlusKey
FieldMinus == Clearing /\ FieldMinusKey

(* Dup marks the field as modified even when it then refuses the key. *)
Duplicate ==
    /\ Refused
    /\ IF ~Enterable THEN Error("protect") /\ UNCHANGED fer
       ELSE LET i == Here
                f == HereField
                d == [SetMdt(screen, i) EXCEPT !.data = [p \in Cells |->
                        IF p \in screen.cur .. EndPos(f) THEN Dup ELSE @[p]]]
                adjusted == FieldAdjust(d, i)
            IN CASE ~f.dup_enable ->
                      ErrorOn(SetMdt(screen, i), "dup_disallowed") /\ UNCHANGED fer
                 [] f.dup_enable /\ f.fer ->
                      Done([d EXCEPT !.cur = EndPos(f)]) /\ fer' = TRUE
                 [] f.dup_enable /\ ~f.fer /\ f.auto_enter ->
                      Send(adjusted) /\ UNCHANGED fer
                 [] f.dup_enable /\ ~f.fer /\ ~f.auto_enter ->
                      /\ Done([adjusted EXCEPT !.cur = CursorNextField(adjusted, @)])
                      /\ UNCHANGED fer

(* A mutant: protected fields are not looked for. *)
DeleteAnywhere(d) ==
    LET i == FieldYX(d, d.cur)
        f == d.fields[i]
    IN IF i = 0 THEN ErrorOn(d, "protect")
       ELSE Done(IF f.wordwrap THEN WrapDelete(SetMdt(d, i), i)
                 ELSE Del(SetMdt(d, i), i, CountRight(f, d.cur)))

DeleteKey(d) ==
    LET i == FieldYX(d, d.cur)
        f == d.fields[i]
    IN IF i = 0 \/ (i # 0 /\ f.bypass) THEN ErrorOn(d, "protect")
       ELSE Done(IF f.wordwrap THEN WrapDelete(SetMdt(d, i), i)
                 ELSE Del(SetMdt(d, i), i, CountRight(f, d.cur)))
Delete == Refused /\ DeleteKey(screen) /\ UNCHANGED fer

(* In the first position of a field Backspace goes to the end of the one    *)
(* before.  The destructive Backspace then deletes.                         *)
BackspaceTo ==
    IF Here = 0 \/ (Here # 0 /\ screen.cur # HereField.start) THEN LeftOf(screen.cur)
    ELSE LET i == PrevField(screen, screen.cur)
         IN IF i = 0 THEN screen.cur ELSE EndPos(screen.fields[i])
Backspace ==
    /\ Refused /\ UNCHANGED fer
    /\ IF Here = 0 THEN Error("protect")
       ELSE IF DestructiveBackspace THEN DeleteKey(At(BackspaceTo))
       ELSE Done(At(BackspaceTo))

Insert ==
    /\ Refused
    /\ insert' = ~insert
    /\ UNCHANGED <<screen, fer, phase, src, record, aid>>

(* A mutant: the indicator stays on. *)
RightStillRequired ==
    phase = "input" /\ Done(At(RightOf(screen.cur, 1))) /\ UNCHANGED fer

Right == Clearing /\ Done(At(RightOf(screen.cur, 1)))
Up == Clearing /\ Done(At(UpFrom(screen.cur)))
Down == Clearing /\ Done(At(DownFrom(screen.cur)))
Left == Refused /\ Done(At(LeftOf(screen.cur))) /\ UNCHANGED fer
Tab == Clearing /\ Done(At(CursorNextLogicalField(screen, screen.cur)))
Backtab ==
    /\ Clearing
    /\ Done(At(IF Here = 0 \/ (Here # 0 /\ screen.cur = HereField.start)
               THEN CursorPrevLogicalField(screen, screen.cur) ELSE HereField.start))

(* End: behind the last character.  A field of NULs is taken for one with  *)
(* one character.                                                          *)
End ==
    /\ Refused /\ UNCHANGED fer
    /\ IF ~Enterable THEN Error("protect")
       ELSE LET f == HereField
                used == {k \in 1 .. f.len - 1 : screen.data[f.start + k] # Nul}
            IN Done(At(IF screen.data[EndPos(f)] # Nul THEN EndPos(f)
                       ELSE RightOf(f.start, Largest({0} \cup used) + 1)))

(* Home at the home position sends a record that only says so. *)
Home == Refused /\ Done(At(CursorHome(screen))) /\ UNCHANGED fer
FieldHome ==
    /\ Refused /\ UNCHANGED fer
    /\ IF Enterable THEN Done(At(HereField.start)) ELSE Error("protect")
NewLine ==
    /\ Refused /\ UNCHANGED fer
    /\ LET p == DownFrom(Row(screen.cur) * w)
           i == FieldYX(screen, p)
       IN Done(At(IF i = 0 \/ (i # 0 /\ screen.fields[i].bypass)
                  THEN CursorNextField(screen, p) ELSE p))
WordKeys ==
    /\ Refused /\ UNCHANGED fer
    /\ \E p \in {PrevWord(screen, screen.cur), NextWord(screen, screen.cur),
                 PrevWordOrField(screen, screen.cur), NextWordOrField(screen, screen.cur)} :
            Done(At(p))

Reset ==
    /\ phase \in {"input", "inhibited"}
    /\ phase' = "input" /\ fer' = FALSE /\ src' = "none"
    /\ UNCHANGED <<screen, insert, record, aid>>

Enter == Clearing /\ Send(screen)
Function(k) == Refused /\ SendFor(screen, k) /\ UNCHANGED fer

(***************************************************************************)
(* The host's answer: a Write to Display with a control character, which    *)
(* puts the cursor home and unlocks the keyboard.                           *)
(***************************************************************************)
(* What the host takes for cleared: whole fields. *)
ClearedForHost(cc1) ==
    {i \in Logical(screen) \cap NonBypass(screen) :
        \/ cc1 \in {"reset_null", "reset_all_null"}
        \/ cc1 \in {"null_modified", "reset_null_modified"} /\ screen.fields[i].mdt}

(* A host that had no fields sent for a function key does without those it   *)
(* unmarks then.                                                             *)
DroppedByHost(cc1) ==
    {i \in Logical(screen) : /\ ~SendDataForAidKey(screen, aid)
                             /\ screen.fields[i].mdt /\ ~HandleCc1(screen, cc1).fields[i].mdt}

HostAnswers(cc1) ==
    /\ phase = "locked"
    /\ LET d == HandleCc1(screen, cc1)
       IN screen' = [d EXCEPT !.cur = CursorHome(d)]
    /\ phase' = "input" /\ record' = <<>> /\ aid' = 0
    /\ unseen' = (unseen \ (ClearedForHost(cc1) \cup DroppedByHost(cc1))) \cup
                 {i \in ClearedForHost(cc1) :
                    \E k \in DOMAIN FieldText(screen', i) : FieldText(screen', i)[k] # Nul}
    /\ UNCHANGED <<insert, fer, src>>

(***************************************************************************)
(* A format as Start of Field leaves it: an attribute before each field     *)
(* and one behind it, the cursor at home.                                   *)
(***************************************************************************)
Screen(format, text) ==
    LET add[n \in 0 .. Len(format)] ==
            IF n = 0 THEN Cleared ELSE AddField(add[n - 1], format[n])
        d == add[Len(format)]
        fields == {format[n] : n \in DOMAIN format}
        edges == UNION {{LeftOf(f.start), RightOf(EndPos(f), 1)} : f \in fields}
    IN [d EXCEPT !.data = [p \in Cells |-> IF p \in edges THEN Attr
                                           ELSE IF FieldYX(d, p) # 0 THEN text[p] ELSE Nul],
                 !.cur = CursorHome(d)]

Init ==
    /\ screen \in {[Screen(format, text) EXCEPT !.header = HeaderOf[format]] :
                        format \in Formats, text \in Contents}
    /\ insert = FALSE /\ fer = FALSE /\ phase = "input" /\ src = "none"
    /\ record = <<>> /\ aid = 0 /\ unseen = {}

Key ==
    \/ \E c \in Typed : Type(c)
    \/ FieldExit \/ FieldPlus \/ FieldMinus \/ Duplicate
    \/ Delete \/ Backspace \/ Insert
    \/ Left \/ Right \/ Up \/ Down \/ Tab \/ Backtab
    \/ End \/ Home \/ FieldHome \/ NewLine \/ WordKeys
    \/ FieldExitRequiredError \/ FieldExitRequiredUndone
    \/ Reset \/ Enter
    \/ \E k \in FunctionKeys : Function(k)

(* The host learns the fields it is sent. *)
Observed ==
    unseen' = (unseen \cup {i \in Logical(screen) :
                            \E j \in PartsOf(screen, i) : \E p \in FieldCells(screen.fields[j]) :
                                screen'.data[p] # screen.data[p]})
              \ {record'[n].field : n \in DOMAIN record'}

Next ==
    \/ Key /\ Observed
    \/ \E cc1 \in Cc1s : HostAnswers(cc1)

Spec == Init /\ [][Next]_vars

(***************************************************************************)
(* Properties                                                              *)
(***************************************************************************)
(* Every cell holds a byte, the cursor is on the screen, and the table     *)
(* keeps the fields the host defined.                                      *)
TypeOK ==
    /\ screen.data \in [Cells -> Chars]
    /\ screen.cur \in Cells \cup {Hung}
    /\ \A i \in DOMAIN screen.fields : screen.fields[i] \in Field
    /\ insert \in BOOLEAN /\ fer \in BOOLEAN
    /\ phase \in {"input", "inhibited", "locked", "hung"}
    /\ src \in {"none", "protect", "alpha_only", "num_only", "only_09", "data_disallowed",
                "sign_position", "no_room", "field_minus_disallowed", "fer", "dup_disallowed"}
    /\ aid \in {0} \cup FunctionKeys
    /\ unseen \subseteq Logical(screen)

WithoutTrailingBlanks(text) ==
    SubSeq(text, 1, Largest({0} \cup {k \in DOMAIN text : ~Empty(text[k])}))
Canon(text) == Blanked(WithoutTrailingBlanks(text))
Unzoned(c) == CASE c = "0xD0" -> "0" [] c = "0xD1" -> "1" [] OTHER -> c

SameField(i, sent) ==
    LET text == FieldText(screen, i)
        size == Len(text)
        digits == SubSeq(text, 1, size - 1)
        minus == text[size] = Minus /\ text[size - 1] \in Digits
        last == Len(sent)
    IN IF screen.fields[i].type # "signed_num" THEN Canon(sent) = Canon(text)
       ELSE IF minus THEN /\ sent[last] = Zoned(Unzoned(sent[last]))
                          /\ Canon([sent EXCEPT ![last] = Unzoned(@)]) = Canon(digits)
       ELSE Canon(sent) = Canon(digits)

(* When the keyboard is locked the host knows every field: the answers it   *)
(* has had, with what it cleared itself, are what the screen shows, whatever *)
(* key changed it and however often the marks were reset in between; after a *)
(* function key that sends no fields, those it does not know are marked.  The *)
(* record of a Read Input Fields says more digits of a signed field than     *)
(* there are (session.c:525), so signed fields are looked at in the others.  *)
HostAgrees ==
    phase = "locked" =>
        /\ unseen # {} => /\ ~SendDataForAidKey(screen, aid)
                          /\ screen.mdt /\ \A i \in unseen : screen.fields[i].mdt
        /\ \A n \in DOMAIN record :
              LET i == record[n].field
              IN (screen.fields[i].type = "signed_num" =>
                    Len(record[n].text) < Len(FieldText(screen, i)))
                 => SameField(i, record[n].text)

(* No key sends the cursor into a search that does not end.  It holds for    *)
(* formats in which every next-field number is the number of a field that    *)
(* can be entered.                                                           *)
SearchesEnd == phase # "hung"

(* The field exit required indicator is about the field the cursor is at     *)
(* the end of.                                                               *)
FerAtFieldEnd == fer => Enterable /\ HereField.fer /\ screen.cur = EndPos(HereField)

(* Insertion puts the character into the text of the whole field, deletion   *)
(* closes it up, over all parts of a continued field; what falls off is      *)
(* empty.  (The sign of a signed field moves with the digits.)               *)
Position == Cardinality({p \in UNION {FieldCells(screen.fields[j]) :
                            j \in {k \in DOMAIN screen.fields : \E l \in Logical(screen) :
                                    {k, Here} \subseteq PartsOf(screen, l)}} : p < screen.cur}) + 1
Whole == CHOOSE l \in Logical(screen) : Here \in PartsOf(screen, l)
Plain == Enterable /\ HereField.type # "signed_num" /\ ~screen.fields[Whole].wordwrap
EditsSplice ==
    [][Plain =>
        LET old == FieldText(screen, Whole)
            new == FieldText(screen', Whole)
            k == Position
        IN /\ Delete => new = SubSeq(old, 1, k - 1) \o SubSeq(old, k + 1, Len(old)) \o <<Nul>>
           /\ (insert /\ new # old /\ screen.cur # EndPos(HereField) /\ \E c \in Typed : Type(c))
                 => \/ \E c \in Typed \cup {Upcase(d) : d \in Typed} :
                        new = SubSeq(old, 1, k - 1) \o <<c>> \o SubSeq(old, k, Len(old) - 1)
                    \/ SignKeyHack /\ HereField.type = "num_only"]_vars

(* Word wrap puts the text back line by line whatever its length, and joins  *)
(* the last word to the last line (display.c:3057).  There is room when the   *)
(* last cell of the group stays empty, and for an insertion, which cuts the   *)
(* text, the cell before it and the last cell of the part.                    *)
RoomToWrap ==
    (Enterable /\ screen.fields[Whole].wordwrap) =>
        LET end == EndPos(screen.fields[LastPart(screen, Here)])
        IN /\ Empty(screen.data[end]) /\ screen.cur # end
           /\ \A j \in PartsOf(screen, Whole) :
                 screen.data[RightOf(EndPos(screen.fields[j]), 1)] = Attr
           /\ insert => Empty(screen.data[EndPos(HereField)]) /\ Empty(screen.data[end - 1])

(* No key changes a cell outside the fields the user may enter, as far as     *)
(* Field- is not pressed in a protected number (display.c:1714; the formats   *)
(* have none) and a word-wrapped text has room.                               *)
ProtectedTextStays ==
    [][(phase = "input" /\ RoomToWrap) =>
        \A p \in Cells : screen'.data[p] # screen.data[p] =>
            \E i \in NonBypass(screen) : HitTest(screen.fields[i], p)]_vars

(* Word wrap loses no character and changes no order: typing over adds or    *)
(* replaces one, and only padding comes and goes.                            *)
Written(d, i) == SelectSeq(FieldText(d, i), LAMBDA c : c # Nul)
WrapKeepsText ==
    [][(/\ Enterable /\ screen.fields[Whole].wordwrap /\ RoomToWrap
        /\ Delete \/ \E c \in Typed : Type(c)) =>
        LET old == Written(screen, Whole)
            new == Written(screen', Whole)
        IN /\ Len(new) \in Len(old) - 1 .. Len(old) + 1
           /\ \E k \in 0 .. Len(old) :
                /\ SubSeq(new, 1, k) = SubSeq(old, 1, k)
                /\ \E n \in 0 .. 1, m \in 0 .. 1 :
                      SubSeq(new, k + n + 1, Len(new)) = SubSeq(old, k + m + 1, Len(old))]_vars
================================================================================
