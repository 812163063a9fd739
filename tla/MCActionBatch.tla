---------------------------- MODULE MCActionBatch ----------------------------
(* Batches that append, create, fill and paste, and two tables: the texts    *)
(* have overlapping and repeated matches, and an empty cell.                 *)
EXTENDS ActionBatch

Do(kind) == [kind |-> kind]
Fill(cell, expected, text) ==
    [kind |-> "SetCellText", cell |-> cell, expected |-> expected, text |-> text]
Patch(cell, expected, occurrence, text) ==
    [kind |-> "TextPatch", cell |-> cell, expected |-> expected,
     occurrence |-> occurrence, text |-> text]

Batch(commands, atomic) == [commands |-> commands, atomic |-> atomic]
End == Do("MoveDocumentEnd")
Insert == Do("InsertText")
Create == Do("TableCreate")
Leave == Do("LeaveTable")
Copy == Do("CopyControl")
Paste == Do("PasteTable")
Table == <<Do("SelectControl"), Do("CaptureTable")>>
Grow == Table \o <<Do("Cell"), Do("TableAppendRow")>>

A == <<"a">>
B == <<"b">>

Appending ==
    {Batch(<<End>>, FALSE),
     Batch(<<End, Insert, End, Insert>>, TRUE),
     Batch(<<End, Create, Fill(1, {}, A), Leave, Insert>>, TRUE),
     Batch(<<End, Insert, Create>>, FALSE),
     Batch(<<Insert, Fill(1, {}, A)>>, FALSE),
     Batch(<<Insert, End>>, TRUE),
     Batch(<<Copy, End, Paste, Insert>>, FALSE),
     Batch(<<End, Copy, Paste, End, Paste>>, TRUE)}

Filling ==
    {Batch(Table \o <<Fill(1, {}, B \o B \o B), Patch(1, B \o B, 0, A), Patch(1, B, 1, <<>>)>>, FALSE),
     Batch(Table \o <<Patch(1, A \o A, 2, B)>>, FALSE),
     Batch(Table \o <<Patch(1, A, 1, B), Patch(1, A, 2, B)>>, FALSE),
     Batch(Table \o <<Patch(1, A, 2, <<>>), Patch(1, A \o B, 0, B)>>, FALSE),
     Batch(Table \o <<Patch(2, B, 0, A), Fill(2, {A}, <<"a", "lf">>), Patch(2, <<"lf">>, 0, B)>>, FALSE),
     Batch(Grow \o <<Fill(3, {}, B), Fill(1, {A \o B \o A}, B)>>, FALSE),
     Batch(Grow \o <<Fill(1, {}, B), Patch(1, A, 1, B)>>, FALSE),
     Batch(<<Patch(1, A, 1, B), Patch(1, A, 0, <<>>)>>, FALSE)}

MCBatches == Appending \cup Filling

MCTables == {<<A \o B \o A, B>>, <<A \o A \o A, <<>>>>}
=============================================================================
