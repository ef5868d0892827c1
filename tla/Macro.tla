-------------------------------- MODULE Macro --------------------------------
(***************************************************************************)
(* Keyboard macros (macro.c) in the loop that feeds keys to a display      *)
(* (do_keys and waitevent of display.c), on top of the type-ahead ring.    *)
(* One function key and one index serve recording and playing alike, every *)
(* recording and every playing reads the macro file first, and the file    *)
(* keeps keys as text: a key with a name is written "[NAME]".              *)
(* Macro names, which only label a section, are left out.                  *)
(***************************************************************************)
EXTENDS KeyRing, SequencesExt, FiniteSetsExt

CONSTANTS FKeys,      (* K_F1, K_F2, ...: the keys macros belong to        *)
          MKey,       (* the table of named keys, in its order             *)
          Wide,       (* keys outside MKey whose code is no plain character *)
          Digits,     (* how a macro's number is written, by number        *)
          Files,      (* contents the macro file may have                  *)
          Typable,    (* the keys that are typed                            *)
          BUFSIZE,    (* MACRO_BUFSIZE                                     *)
          LINESZ,     (* characters macro_write puts on a line             *)
          MAX_SPECKEY,
          MaxTyped    (* bound on the keys typed                           *)

VARIABLES mac,        (* Tn5250Macro, and the file it names                *)
          locked,     (* the keyboard is locked: keys wait in the ring     *)
          keying,     (* do_keys is in its loop                            *)
          typed,      (* keys typed so far                                 *)
          recorded    (* the keys last recorded for each function key      *)

macroVars == <<mac, locked, keying, typed, recorded>>
allVars == <<vars, macroVars>>

Numbers == DOMAIN FKeys
Absent == << >>        (* BuffM = NULL, or nothing recorded in it yet        *)
WideRead == "wide"     (* what such a key's character reads back as       *)
------------------------------------------------------------------------------
(* The macro file *)

(* The first name in the table that begins with the text in brackets. *)
Named(text) ==
    LET fits == {j \in DOMAIN MKey : IsPrefix(text, MKey[j].str)}
    IN  IF fits = {} THEN 0 ELSE Min(fits)

(* The distance from a "[" at p to the "]" that macro_specialkey sees. *)
Closing(line, p) ==
    LET ends == {i \in 1 .. MAX_SPECKEY + 1 :
                    p + i <= Len(line) /\ line[p + i] = "]"}
    IN  IF ends = {} THEN 0 ELSE Min(ends)

SpecialKey(line, p) ==
    IF line[p] # "[" \/ Closing(line, p) = 0 THEN 0
    ELSE Named(SubSeq(line, p + 1, p + Closing(line, p) - 1))

(* The keys a line of the file stands for. *)
LineKeys(line) ==
    LET from[p \in 1 .. Len(line) + 1] ==
          IF p > Len(line) THEN << >>
          ELSE LET special == SpecialKey(line, p)
               IN  IF special = 0 THEN <<line[p]>> \o from[p + 1]
                   ELSE <<MKey[special].code>> \o from[p + Closing(line, p) + 1]
    IN  from[1]

(* The number of the macro whose section the line begins, else 0. *)
SectionOf(line) ==
    IF /\ Len(line) >= 4 /\ line[1] = "[" /\ line[2] = "M" /\ line[4] = "]"
       /\ \E n \in Numbers : line[3] = Digits[n]
    THEN CHOOSE n \in Numbers : line[3] = Digits[n]
    ELSE 0

NoMacros == [n \in Numbers |-> Absent]

(* Keys in front of the first section are dropped. *)
Loaded(file) ==
    LET take(acc, line) ==
          IF SectionOf(line) > 0 THEN [acc EXCEPT !.cur = SectionOf(line)]
          ELSE IF acc.cur = 0 THEN acc
          ELSE [acc EXCEPT !.data[acc.cur] = @ \o LineKeys(line)]
    IN  FoldLeft(take, [cur |-> 0, data |-> NoMacros], file).data

(* The text of a key: the name in brackets, or the low byte of its code. *)
KeyText(k) ==
    LET names == {j \in DOMAIN MKey : MKey[j].code = k}
    IN  IF names # {} THEN <<"[">> \o MKey[Min(names)].str \o <<"]">>
        ELSE IF k \in Wide THEN <<WideRead>> ELSE <<k>>

(* One section of the file: a line that would grow too long is ended first. *)
Written(n, keys) ==
    LET put(lines, k) ==
          IF Len(Last(lines)) + Len(KeyText(k)) > LINESZ
          THEN Append(lines, KeyText(k))
          ELSE [lines EXCEPT ![Len(lines)] = @ \o KeyText(k)]
    IN  <<(<<"[", "M", Digits[n], "]">>)>> \o FoldLeft(put, << << >> >>, keys)

Saved(data) ==
    LET add(lines, n) == IF data[n] = Absent THEN lines
                         ELSE lines \o Written(n, data[n])
    IN  FoldLeft(add, << >>, [n \in Numbers |-> n])
------------------------------------------------------------------------------
(* tn5250_macro_*: what they do to the macro state *)

StartDef(m) == [m EXCEPT !.rstate = 1, !.fctnkey = 0, !.tle = BUFSIZE]

(* A recording without keys deletes the macro. *)
EndDef(m) ==
    IF m.rstate < 2 THEN [m EXCEPT !.rstate = 0]
    ELSE [m EXCEPT !.rstate = 0, !.file = Saved(m.data)]

(* A mutant: the recording starts from what memory holds. *)
RecFunctStale(m, n) ==
    [m EXCEPT !.rstate = 2, !.fctnkey = n, !.tle = 0,
              !.data = NoMacros]

(* The file is read again, so that saving keeps the other macros. *)
RecFunct(m, n) ==
    [m EXCEPT !.rstate = 2, !.fctnkey = n, !.tle = 0,
              !.data = [i \in Numbers |->
                           IF i = n THEN Absent ELSE Loaded(m.file)[i]]]

RecKey(m, k) ==
    IF m.rstate = 2 /\ k # "MEMO" /\ m.tle < BUFSIZE
    THEN [m EXCEPT !.data[m.fctnkey] = Append(SubSeq(@, 1, m.tle), k),
                   !.tle = @ + 1]
    ELSE m

StartExec(m) == [m EXCEPT !.estate = 1, !.fctnkey = 0]
EndExec(m) == [m EXCEPT !.estate = 0]
ExecFunct(m, n) == [m EXCEPT !.estate = 3, !.fctnkey = n, !.tle = 0,
                             !.data = Loaded(m.file)]

(* A mutant: playing may start while a recording is under way. *)
KfMacroAnyTime(m, k) ==
    IF k = "MEMO" /\ m.estate = 0
    THEN IF m.rstate = 0 THEN StartDef(m) ELSE EndDef(m)
    ELSE IF k = "EXEC"
    THEN IF m.estate = 0 THEN StartExec(m) ELSE EndExec(m)
    ELSE m

(* The memo and exec keys; each is ignored while the other is at work. *)
KfMacro(m, k) ==
    IF k = "MEMO" /\ m.estate = 0
    THEN IF m.rstate = 0 THEN StartDef(m) ELSE EndDef(m)
    ELSE IF k = "EXEC" /\ m.rstate = 0
    THEN IF m.estate = 0 THEN StartExec(m) ELSE EndExec(m)
    ELSE m

(* What do_key does with a key, as far as macros go. *)
Acted(m, k) ==
    IF k \in {"MEMO", "EXEC"} THEN KfMacro(m, k)
    ELSE IF \E n \in Numbers : FKeys[n] = k
    THEN LET n == CHOOSE i \in Numbers : FKeys[i] = k
         IN  IF m.rstate = 1 THEN RecFunct(m, n)
             ELSE IF m.estate = 1 THEN ExecFunct(m, n) ELSE m
    ELSE m

(* A key that goes to the host, when the keyboard is free for it. *)
Sends(m, k) ==
    \/ k = "ENTER"
    \/ /\ \E n \in Numbers : FKeys[n] = k
       /\ m.rstate # 1 /\ m.estate # 1
------------------------------------------------------------------------------
MacroInit == /\ Init
             /\ \E file \in Files :
                   /\ mac = [rstate |-> 0, estate |-> 0, fctnkey |-> 0,
                             tle |-> 0, data |-> NoMacros, file |-> file]
                   /\ recorded = Loaded(file)
             /\ locked \in BOOLEAN
             /\ keying = FALSE
             /\ typed = 0

(* do_key(k) with the macro state m as it stands.  Keys for the host lock  *)
(* the keyboard if the host reads.  The history notes a recording's end.   *)
DoKey(m, k) ==
    /\ mac' = Acted(m, k)
    /\ locked' \in IF Sends(m, k) THEN {locked, TRUE}
                   ELSE IF k = "SYSREQ" THEN {FALSE} ELSE {locked}
    /\ recorded' = IF k = "MEMO" /\ m.rstate = 2 /\ m.estate = 0
                   THEN [recorded EXCEPT ![m.fctnkey] = m.data[m.fctnkey]]
                   ELSE recorded

(* One key in the loop of do_keys, typed or played.  A macro being recorded *)
(* takes it whether the display acts upon it or lets it wait.               *)
LoopKey(m, k) ==
    \/ /\ locked /\ k # "SYSREQ"
       /\ Enqueue(k)
       /\ mac' = RecKey(m, k)
       /\ UNCHANGED <<locked, recorded>>
    \/ /\ ~locked \/ k = "SYSREQ"
       /\ IF head # tail THEN Clear ELSE UNCHANGED vars
       /\ DoKey(RecKey(m, k), k)

TypeKey(k) ==
    /\ keying /\ mac.estate # 3 /\ typed < MaxTyped
    /\ LoopKey(mac, k)
    /\ typed' = typed + 1
    /\ UNCHANGED keying

(* A key of the macro that plays.  The last one ends the playing before it *)
(* is acted upon.                                                          *)
Play ==
    /\ keying /\ mac.estate = 3 /\ mac.data[mac.fctnkey] # Absent
    /\ LET keys == mac.data[mac.fctnkey]
           last == mac.tle + 1 = Len(keys)
       IN  LoopKey([mac EXCEPT !.tle = @ + 1,
                               !.estate = IF last THEN 0 ELSE 3],
                   keys[mac.tle + 1])
    /\ UNCHANGED <<keying, typed>>

(* The function key has no macro. *)
PlayNothing ==
    /\ keying /\ mac.estate = 3 /\ mac.data[mac.fctnkey] = Absent
    /\ mac' = EndExec(mac)
    /\ UNCHANGED <<vars, locked, keying, typed, recorded>>

(* waitevent hands over a key that waited. *)
Serve == /\ ~keying /\ ~locked
         /\ Dequeue
         /\ DoKey(mac, slots[head])
         /\ UNCHANGED <<keying, typed>>

(* The terminal reports a key; no key is left. *)
KeyEvent == /\ ~keying /\ (locked \/ head = tail)
            /\ typed < MaxTyped
            /\ keying' = TRUE
            /\ UNCHANGED <<vars, mac, locked, typed, recorded>>

NoMoreKeys == /\ keying /\ mac.estate # 3
              /\ keying' = FALSE
              /\ UNCHANGED <<vars, mac, locked, typed, recorded>>

(* The host locks or unlocks the keyboard. *)
HostKeyboard == /\ ~keying
                /\ locked' = ~locked
                /\ UNCHANGED <<vars, mac, keying, typed, recorded>>

MacroNext == \/ \E k \in Typable : TypeKey(k)
             \/ Play \/ PlayNothing \/ Serve \/ KeyEvent \/ NoMoreKeys
             \/ HostKeyboard

MacroSpec == MacroInit /\ [][MacroNext]_allVars
------------------------------------------------------------------------------
(* While keys are recorded, the buffer of the function key holds the keys   *)
(* recorded so far: reading the file or playing never frees it, and the     *)
(* index that recording and playing share is the recording's.               *)
RecordingIntact ==
    mac.rstate = 2 => /\ mac.estate = 0
                      /\ mac.fctnkey \in Numbers
                      /\ mac.tle = Len(mac.data[mac.fctnkey])

(* Keys the file can hold: a "[" in the text may read back as a named key,  *)
(* and a code that is no plain character reads back as another.             *)
Plain(keys) == \A i \in DOMAIN keys : keys[i] # "[" /\ keys[i] \notin Wide

(* What plays is what was recorded last for that function key, although the *)
(* keys went through the file as text, broken into lines, and other macros  *)
(* were recorded, played or deleted in between.                             *)
PlaysBack ==
    mac.estate = 3 /\ Plain(recorded[mac.fctnkey]) =>
        mac.data[mac.fctnkey] = recorded[mac.fctnkey]
==============================================================================
