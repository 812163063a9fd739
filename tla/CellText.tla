------------------------------ MODULE CellText ------------------------------
(***************************************************************************)
(* The texts of the cells of a table and the two commands that change one: *)
(* SET_CELL_TEXT replaces it, PATCH_TEXT CELL replaces one occurrence in   *)
(* it.  Both the commands and the preflight of a batch, which tries them   *)
(* on copies before anything is changed, are built from these operators.   *)
(*                                                                         *)
(* A client may send a line break as "lf"; Hangul reads it back as "crlf". *)
(* All patches match the case.                                             *)
(***************************************************************************)
EXTENDS Naturals, Sequences, SequencesExt, FiniteSets

Letters == {"a", "b", "lf", "crlf"}
Text == Seq(Letters)

(* What Hangul gives back for a text that was inserted, and what it shows.   *)
Shown == Seq(Letters \ {"lf"})
ReadBack(text) == [i \in DOMAIN text |-> IF text[i] = "lf" THEN "crlf" ELSE text[i]]

SameParagraphText(left, right) == ReadBack(left) = ReadBack(right)

TextMatchesAt(text, expected, offset) ==
    /\ offset + Len(expected) <= Len(text) + 1
    /\ SubSeq(text, offset, offset + Len(expected) - 1) = expected

(* Mutant: the search goes on at the next letter. *)
OverlappingMatches(text, expected) ==
    SetToSortSeq({i \in DOMAIN text : TextMatchesAt(text, expected, i)}, <)

(* The offsets of the matches from the left; after one the search goes on    *)
(* behind it.                                                                *)
Matches(text, expected) ==
    LET from[offset \in 1..(Len(text) + Len(expected))] ==
            IF offset > Len(text) THEN <<>>
            ELSE IF TextMatchesAt(text, expected, offset)
                 THEN <<offset>> \o from[offset + Len(expected)]
                 ELSE from[offset + 1]
    IN  from[1]

(* Mutant: of several matches the first is taken. *)
SelectedFirst(text, patch) ==
    LET matches == Matches(text, patch.expected)
        wanted == IF patch.occurrence > 0 THEN patch.occurrence ELSE 1
    IN  {matches[k] : k \in DOMAIN matches \cap {wanted}}

(* The match a patch is about: the one it counts off, or else the only one.  *)
Selected(text, patch) ==
    LET matches == Matches(text, patch.expected)
        wanted == IF patch.occurrence > 0 THEN {patch.occurrence}
                  ELSE {k \in {1} : Len(matches) = 1}
    IN  {matches[k] : k \in DOMAIN matches \cap wanted}

IsText(command) == command.kind \in {"SetCellText", "TextPatch"}

(* A SET_CELL_TEXT has a set of expected texts, empty when there is none.    *)
Guarded(command) == command.kind = "SetCellText" /\ command.expected # {}

(* The command finds in the cell what its client has seen there.             *)
Fits(text, command) ==
    IF command.kind = "TextPatch" THEN Selected(text, command) # {}
    ELSE \A expected \in command.expected : SameParagraphText(text, expected)

Written(text, command) ==
    IF command.kind = "TextPatch"
    THEN LET at == CHOOSE i \in Selected(text, command) : TRUE
         IN  SubSeq(text, 1, at - 1) \o command.text
                 \o SubSeq(text, at + Len(command.expected), Len(text))
    ELSE command.text

(***************************************************************************)
(* Batches that do nothing but fill one table are tried before they begin. *)
(***************************************************************************)
Opens(commands) ==
    /\ Len(commands) >= 3
    /\ commands[1].kind = "SelectControl" /\ commands[2].kind = "CaptureTable"

OnlyText(commands, from) ==
    /\ from <= Len(commands)
    /\ \A i \in from..Len(commands) : IsText(commands[i])

IsFill(commands) == Opens(commands) /\ OnlyText(commands, 3)

(* An anchor, rows that are appended to it, and then texts.                  *)
IsExpand(commands) ==
    /\ Opens(commands) /\ commands[3].kind = "Cell"
    /\ \E n \in 5..Len(commands) :
          /\ \A i \in 4..(n - 1) : commands[i].kind = "TableAppendRow"
          /\ OnlyText(commands, n)

(* What the preflight tries; in a table that is to grow it leaves out a text *)
(* that expects none, since its cell may not be there yet.                   *)
Tried(commands, c) ==
    IsText(c) /\ (IsExpand(commands) => c.kind = "TextPatch" \/ Guarded(c))

(* Mutant: a patch leaves the copy as it was. *)
ShadowedUnpatched(commands, cells) ==
    LET after[n \in 0..Len(commands)] ==
            IF n = 0 THEN {cells}
            ELSE LET c == commands[n]
                 IN  IF ~Tried(commands, c) THEN after[n - 1]
                     ELSE {IF c.kind = "TextPatch" THEN s ELSE [s EXCEPT ![c.cell] = c.text] :
                              s \in {t \in after[n - 1] :
                                       c.cell \in DOMAIN t /\ Fits(t[c.cell], c)}}
    IN  after[Len(commands)]

(* The copies of the cells after so many commands, none when one of these    *)
(* that is tried does not fit.                                               *)
Shadows(commands, cells) ==
    LET after[n \in 0..Len(commands)] ==
            IF n = 0 THEN {cells}
            ELSE LET c == commands[n]
                 IN  IF ~Tried(commands, c) THEN after[n - 1]
                     ELSE {[s EXCEPT ![c.cell] = Written(s[c.cell], c)] :
                              s \in {t \in after[n - 1] :
                                       c.cell \in DOMAIN t /\ Fits(t[c.cell], c)}}
    IN  after

Shadowed(commands, cells) == Shadows(commands, cells)[Len(commands)]

PreflightPasses(commands, cells) ==
    IsFill(commands) \/ IsExpand(commands) => Shadowed(commands, cells) # {}
=============================================================================
