----------------------------- MODULE ScsControls -----------------------------
(***************************************************************************)
(* The controls of an SCS print stream as lib5250/scs.c handles them, as   *)
(* operators on a printer: the record of Tn5250SCS together with the bytes *)
(* of the standard input that are left and what has been put on paper.     *)
(* What matters of a parameter that is only logged is that it is consumed. *)
(***************************************************************************)
EXTENDS Integers, Sequences, SequencesExt

(* The characters of the map that the models use; the rest is one letter. *)
Local(b) == CASE b = 64 -> " " [] b = 77 -> "(" [] b = 93 -> ")" [] b = 224 -> "\\"
              [] OTHER -> "A"

(* A printer at the start of a stream, with what the program adds of its own *)
Printer(bytes, own) ==
    [in |-> bytes, cur |-> 0, width |-> 0, length |-> 0, charwidth |-> 0,
     cpi |-> 0, lpi |-> 0, left |-> 0, right |-> 0, top |-> 0, bottom |-> 0,
     column |-> 1, row |-> 1, rotation |-> 0, own |-> own, shown |-> << >>,
     state |-> "run"]

(* fgetc for the i-th byte that is left, into an int and into a byte. *)
Arg(p, i) == IF i <= Len(p.in) THEN p.in[i] ELSE -1
Byte(p, i) == IF i <= Len(p.in) THEN p.in[i] ELSE 255
Word(p, i) == Arg(p, i) * 256 + Arg(p, i + 1)

Skip(p, n) == [p EXCEPT !.in = SubSeq(@, n + 1, Len(@))]
AtLeast0(n) == IF n > 0 THEN n ELSE 0
AtMost(n, m) == IF n < m THEN n ELSE m

(* A null pointer is followed, or a division by zero: the program ends. *)
Dead(p) == [p EXCEPT !.state = "dead"]

(* scs_noop, scs_rpt, scs_sw, scs_bel, scs_ht: nothing but a log. *)
Ignored(p) == p

(* scs_sic, called without a printer: an odd parameter is logged through it. *)
InitialConditions(p) ==
    IF Byte(p, 1) \in {1, 255} THEN Skip(p, 1) ELSE Dead(p)

(* A mutant: the loop is advanced once for the two bytes it reads. *)
ExceptionActionTwice(p) == Skip(p, 2 * AtLeast0(p.cur - 2))

(* scs_sea reads pairs while it has not read curchar - 2 bytes. *)
ExceptionAction(p) == Skip(p, 2 * ((AtLeast0(p.cur - 2) + 1) \div 2))

(* scs_stab, scs_jtf, scs_sjm: a list of curchar - 2 bytes. *)
List(p) == Skip(p, AtLeast0(p.cur - 2))

PrintSetup(p) == Skip(p, 2 + AtLeast0(p.cur - 4))
PagePresentationMedia(p) == Skip(p, 3 + AtMost(AtLeast0(p.cur - 5), 5))

PresentationPageSize(p) ==
    LET w == Word(p, 1)
        l == Word(p, 3)
    IN  [Skip(p, 4) EXCEPT !.width = w, !.length = l,
                           !.rotation = IF w > l THEN 1 ELSE @]

(* A format in characters or lines: its length, and one byte if it has any. *)
FormatOf(p) == IF Arg(p, 1) > 0 THEN Arg(p, 2) ELSE 0
AfterFormat(p) == Skip(p, IF Arg(p, 1) > 0 THEN 2 ELSE 1)

HorizontalFormat(p) ==
    LET perInch == IF p.cpi # 0 THEN p.cpi ELSE 10
    IN  [AfterFormat(p) EXCEPT
           !.width = IF FormatOf(p) # 0 THEN (FormatOf(p) \div perInch) * 1440
                                        ELSE 19008]

VerticalFormat(p) ==
    LET perInch == IF p.lpi # 0 THEN p.lpi ELSE 6
    IN  [AfterFormat(p) EXCEPT
           !.length = IF FormatOf(p) # 0 THEN (FormatOf(p) \div perInch) * 1440
                                         ELSE 15840]

FormFeed(p) == [p EXCEPT !.column = 1, !.row = 1]

TextOrientation(p) ==
    LET turn == Byte(p, 3)
    IN  [Skip(p, 4) EXCEPT
           !.rotation = CASE turn = 0 -> 0 [] turn = 45 -> 1
                          [] turn = 90 -> 2 [] turn = 135 -> 3 [] OTHER -> @]

HorizontalMargins(p) ==
    IF p.cur > 5
    THEN [Skip(p, 4) EXCEPT !.left = Word(p, 1), !.right = Word(p, 3)]
    ELSE [Skip(p, 2) EXCEPT !.left = Word(p, 1)]

VerticalMargins(p) ==
    IF p.cur > 5
    THEN [Skip(p, 4) EXCEPT !.top = Word(p, 1), !.bottom = Word(p, 3)]
    ELSE [Skip(p, 2) EXCEPT !.top = Word(p, 1)]

(* scs_sffc, scs_scgl, scs_sls. *)
OneByte(p) == Skip(p, 1)

(* scs_scg, and scs_sil: both are called without a printer, and read it. *)
CodePage(p) == Dead(p)
IndentLevel(p) == Dead(p)

(* scs_sgea *)
EmphasisArea(p) == Skip(p, 3)

(* scs_sfg and scs_scd up to their call of setfont, and what sfg reads then. *)
FontWidth(p) ==
    [Skip(p, 4) EXCEPT !.charwidth = Word(p, 3), !.cpi = 1440 \div Word(p, 3)]

CharactersPerInch(b) == CASE b = 5 -> 5 [] b = 10 -> 10 [] b \in {11, 12} -> 12
                          [] b = 15 -> 15 [] b = 255 -> 10 [] OTHER -> 0

(* scs_rdpp, scs_ahpp, scs_avpp, scs_rrpp, after the function byte. *)
RelativeDown(p) == [Skip(p, 1) EXCEPT !.row = @ + Arg(p, 1)]
AbsoluteHorizontal(p) == [Skip(p, 1) EXCEPT !.column = Arg(p, 1)]
AbsoluteVertical(p) == [Skip(p, 1) EXCEPT !.row = Arg(p, 1)]
RelativeRight(p) == [Skip(p, 1) EXCEPT !.column = @ + Arg(p, 1)]

NewLine(p) == [p EXCEPT !.row = @ + 1, !.column = 1]
CarriageReturn(p) == [p EXCEPT !.column = 1]

(* scs_ssld and scs_sld *)
LineDistance(p) ==
    [Skip(p, 2) EXCEPT !.lpi = IF Word(p, 1) > 0 THEN 1440 \div Word(p, 1) ELSE 6]

LineDensity(p) ==
    LET density == IF Arg(p, 1) > 0 THEN Arg(p, 2) ELSE 12
    IN  [AfterFormat(p) EXCEPT !.lpi = IF density > 0 THEN 72 \div density ELSE 6]

(* The bytes for an ASCII printer, a count and so many bytes: the library   *)
(* only logs them.                                                         *)
Transparent(p) == Skip(p, 1 + AtLeast0(Arg(p, 1)))
==============================================================================
