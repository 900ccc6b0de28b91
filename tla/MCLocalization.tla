--------------------------- MODULE MCLocalization ---------------------------
(* The localization tools on a cart of seven addresses: the dialogue row     *)
(* 1..2, the two accent tiles 3 and 4 (4 keeps a glyph that is copied from   *)
(* address 7), the frame tile 5 and the caption window 6; and, beside it,    *)
(* the glyph pages of a battle and an ending surface with four quotes.  A    *)
(* run is one or the other.                                                  *)
EXTENDS TableGenerators, DialoguePages

MCFallback == [l \in {"fr", "it"} |-> "en"]
MCRows == {{1, 2}}
MCCells == {{3}, {4}}
MCGlyph == [a \in {4} |-> 7]
MCFrame == {{5}}
MCRects == {{6}}
MCArt == "fr" :> "c"

(* A screen in a language that allocates nothing, one that shows another     *)
(* font, and one in the language the accent cell is allocated for.           *)
MCCaptures == { [lang |-> "fr", resident |-> TRUE, tiles |-> {{3}, {5}}],
                [lang |-> "en", resident |-> FALSE, tiles |-> {{4}}],
                [lang |-> "es", resident |-> TRUE, tiles |-> {{5}}] }
Line(b) == [a \in {2} |-> b]
MCLines == { Line(b) : b \in {"s", "t"} }

Cart == [a \in 1..7 |-> IF a = 7 THEN "g" ELSE "j"]
English == [a \in 1..7 |-> IF a \in {1, 2, 5, 6} THEN "e" ELSE Cart[a]]
Spanish(first) == [a \in 1..7 |-> CASE a = 1 -> first [] a \in 2..4 -> "s"
                                     [] OTHER -> English[a]]

(* The imported fragments: one per window, one across three of them, or an   *)
(* aggregate over two that are already there.                                *)
Fragment(window, over) ==
  [source |-> On(IF over = "aggregate" THEN ref.en ELSE rom, window),
   pay |-> ("es" :> On(ref.es, window))
           @@ (IF over = "aggregate" THEN <<>> ELSE "en" :> On(ref.en, window))]
Apart == << <<{1}, "cart">>, <<{2}, "cart">>, <<{3, 4}, "cart">>, <<{5, 6}, "cart">> >>
Across == << <<{1}, "cart">>, <<{2, 3, 4, 5}, "cart">>, <<{6}, "cart">> >>
Twice == << <<{1, 2}, "cart">>, <<{3}, "cart">>, <<{4}, "cart">>, <<{5}, "cart">>,
            <<{6}, "cart">>, <<{5, 6}, "aggregate">> >>

(* Translated lines, one of which is also what the Spanish row says.         *)
MCTexts == { ("fr" :> Line(f)) @@ ("it" :> Line(i)) : f \in {"f", "s"}, i \in {"i", "s"} }
             \cup { <<>> }

TableRun ==
  /\ rom = Cart
  /\ \E first \in {"e", "s"} : ref = [en |-> English, es |-> Spanish(first)]
  /\ \E t \in MCTexts : text = [r \in Rows |-> t]
  /\ lossy \in SUBSET Rows
  /\ \E layout \in {Apart, Across, Twice} :
       table = [i \in DOMAIN layout |-> Fragment(layout[i][1], layout[i][2])]
  /\ TableStart
  /\ PagesIdle

MCSurfaces ==
  { [name |-> "battle", groups |-> {"b"}, first |-> 128, last |-> 138,
     word_or |-> 8192, guard |-> 50564, budget |-> 5],
    [name |-> "ending", groups |-> {"e"}, first |-> 128, last |-> 138,
     word_or |-> 9216, guard |-> 62788, budget |-> 5] }

(* Three quotes of a battle, one with a second row, and one of an ending;    *)
(* two of them are the same in English.                                      *)
MCDialogue ==
  [a \in {0, 128, 256, 512} |->
     [group |-> IF a = 512 THEN "e" ELSE "b",
      en |-> CASE a = 0 -> <<"!", "x", "!">> [] a = 256 -> <<"!">> [] OTHER -> <<"x">>]]
MCLatin == (" " :> 0) @@ ("!" :> 2) @@ ("x" :> 3)
PageTexts == { <<"A">>, <<"!", "!", "A">>, <<"!", "!", "B">>, <<"!">> }

PagesRun ==
  /\ \E rows \in {{0, 256}, {0, 128, 256}, {0, 512}, {128, 256}} :
       authored \in [rows -> PageTexts]
  /\ PagesInit
  /\ TableIdle

Init == TableRun \/ PagesRun
Next == \/ mode # "none" /\ TableNext /\ UNCHANGED pageVars
        \/ fontMode # "none" /\ PagesNext /\ UNCHANGED tableVars
Spec == Init /\ [][Next]_<<tableVars, pageVars>>
=============================================================================
