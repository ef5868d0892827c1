--------------------------------- MODULE Scs ---------------------------------
(***************************************************************************)
(* The interpreter of SCS (scs_main and the scs_process* functions of      *)
(* lib5250/scs.c).  The operator constants are the callbacks of Tn5250SCS: *)
(* a converter puts its own operators in their place.                      *)
(***************************************************************************)
EXTENDS ScsControls

CONSTANTS OnText(_), OnNewLine(_), OnFormFeed(_), OnReturn(_), OnPosition(_),
          OnFont(_), OnTransparent(_)

(* scs_sfg: a font of width zero ends the program. *)
SetFont(p) == IF Word(p, 3) = 0 THEN Dead(p) ELSE Skip(OnFont(FontWidth(p)), 1)

(* scs_scd: an unknown distance changes nothing. *)
SetDistance(p) ==
    LET cpi == CharactersPerInch(Byte(p, 2))
    IN  IF cpi = 0 THEN Skip(p, 2) ELSE OnFont([Skip(p, 2) EXCEPT !.cpi = cpi])

(* scs_processd1, process06, process07, processd103: two bytes say which. *)
FontControl(p) ==
    LET q == Skip(p, 2)
    IN  CASE Byte(p, 1) = 6 /\ Byte(p, 2) = 1 -> CodePage(q)
          [] Byte(p, 1) = 7 /\ Byte(p, 2) = 5 -> SetFont(q)
          [] Byte(p, 1) = 3 /\ Byte(p, 2) \in {129, 135} -> OneByte(q)
          [] Byte(p, 1) \in {3, 6, 7} -> q
          [] OTHER -> Skip(p, 1)

(* The last switch of scs_processd2, by the length: process03, process04. *)
ShortControl(q, kind) ==
    CASE q.cur = 3 /\ kind = 69 -> InitialConditions(q)
      [] q.cur = 3 /\ kind = 7 -> IndentLevel(q)
      [] q.cur = 3 /\ kind = 9 -> OneByte(q)
      [] q.cur = 4 /\ kind = 21 -> LineDistance(q)
      [] q.cur = 4 /\ kind = 41 -> SetDistance(q)
      [] OTHER -> q

(* scs_processd2: a length and a kind. *)
PageControl(p) ==
    LET q == [Skip(p, 2) EXCEPT !.cur = Byte(p, 1)]
        kind == Byte(p, 2)
    IN  CASE kind \in {1, 3, 13} -> List(q)
          [] kind \in {10, 42, 47} -> Ignored(q)
          [] kind = 64 -> PresentationPageSize(q)
          [] kind = 72 -> PagePresentationMedia(q)
          [] kind = 73 -> VerticalMargins(q)
          [] kind = 76 -> PrintSetup(q)
          [] kind = 133 -> ExceptionAction(q)
          [] kind = 17 -> HorizontalMargins(q)
          [] OTHER -> ShortControl(q, kind)

(* scs_processd3 *)
Orientation(p) ==
    LET q == [Skip(p, 2) EXCEPT !.cur = Byte(p, 1)]
    IN  IF Byte(p, 2) = 246 THEN TextOrientation(q) ELSE q

(* scs_process2b *)
Escape(p) ==
    LET q == Skip(p, 1)
        which == Byte(p, 1)
    IN  CASE which = 209 -> FontControl(q)
          [] which = 210 -> PageControl(q)
          [] which = 211 -> Orientation(q)
          [] which = 200 -> EmphasisArea(q)
          [] which = 193 -> HorizontalFormat(q)
          [] which = 194 -> VerticalFormat(q)
          [] which = 198 -> LineDensity(q)
          [] OTHER -> q

(* One turn of the loop of scs_main. *)
Control(p) ==
    LET q == [Skip(p, 1) EXCEPT !.cur = Head(p.in)]
    IN  CASE q.cur = 3 -> OnTransparent(q)
          [] q.cur \in {0, 5} -> Ignored(q)
          [] q.cur = 13 -> OnReturn(q)
          [] q.cur \in {12, 58} -> OnFormFeed(q)
          [] q.cur \in {21, 6} -> OnNewLine(q)
          [] q.cur = 52 -> OnPosition(q)
          [] q.cur = 43 -> Escape(q)
          [] q.cur = 255 -> q
          [] OTHER -> OnText(q)
==============================================================================
