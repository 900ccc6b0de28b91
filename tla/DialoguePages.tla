---------------------------- MODULE DialoguePages ----------------------------
(* generate_dialogue_cjk_patch.py: a page of glyph tiles for every dialogue  *)
(* quote of a language the dialogue font has no letters for, laid over one   *)
(* window of free tiles, and guarded by the map words the quote's own first  *)
(* row puts on the screen.                                                   *)
(*                                                                           *)
(* What the game and the engine do with the pages is outside src/ and is     *)
(* taken from that script's header: the draw routine types a quote's words   *)
(* on the map, and the engine writes each page whose guard matches the map.  *)
(* A tile's art is named by the glyph and the part of it that it draws.      *)
EXTENDS Naturals, Sequences, FiniteSets, SequencesExt

CONSTANTS Surfaces,       \* the dialogue screens: name, groups, first/last tile of the
                          \* page window, word_or, guard_address, budget of cells
          Dialogue,       \* decoded rows: ROM address |-> [group, en]
          Latin,          \* TILE_BY_CHAR
          MinGuardWords,
          LineCells       \* cells of a map row from the text's first column on

ASSUME PagesAssumption ==
  /\ MinGuardWords \in Nat /\ LineCells \in Nat
  /\ IsFiniteSet(DOMAIN Dialogue) /\ DOMAIN Dialogue \subseteq Nat
  /\ \A s \in Surfaces : s.first \in Nat /\ s.last \in Nat

VARIABLES authored,   \* translated text of the language: some addresses -> text
          fontMode,       \* its font mode, "cell" or "line"
          cells,      \* the rows as built: ROM address |-> cells
          pages,      \* the pages as built: quote |-> [base, art, guard]
          screen,     \* the surface that is up
          row,        \* the first row of the quote being drawn
          typed,      \* how much of it the draw routine has typed
          polled,     \* the engine has looked since
          vram        \* art of the tiles of the page window

built == <<authored, fontMode, cells, pages>>
pageVars == <<built, screen, row, typed, polled, vram>>

LatinFontTiles == 128
(* Both tiles of every letter lie in the dialogue font.                      *)
ASSUME LatinAssumption ==
  \A c \in DOMAIN Latin : Latin[c] \in Nat /\ Latin[c] + 16 < LatinFontTiles

TileWord == 1024      \* 0x0400, the bit of a ROM word that names a tile
BlankWord == 2048     \* 0x0800

FullWidth(c) == c \notin DOMAIN Latin
(* The elements of s in their order, each once, but those of skip.           *)
Distinct(s, skip) ==
  LET firsts == { i \in DOMAIN s : s[i] \notin skip /\ \A j \in 1..(i - 1) : s[j] # s[i] }
  IN [k \in 1..Cardinality(firsts) |->
        s[CHOOSE i \in firsts : Cardinality({ j \in firsts : j <= i }) = k]]
Position(s, x) == CHOOSE i \in DOMAIN s : s[i] = x

-----------------------------------------------------------------------------
(* Surfaces and quotes. *)

SurfaceOf(a) == CHOOSE s \in Surfaces : Dialogue[a].group \in s.groups
Covered(a) == \E s \in Surfaces : Dialogue[a].group \in s.groups

SurfaceStands(s) ==
  /\ s.groups # {}
  /\ s.first <= s.last
  /\ s.first >= LatinFontTiles
  /\ \A t \in Surfaces \ {s} : s.groups \cap t.groups = {} /\ s.guard # t.guard

FirstLine(a) == (a \div 128) % 2 = 0
QuoteRows(q) ==
  IF q + 128 \in DOMAIN authored /\ SurfaceOf(q + 128) = SurfaceOf(q)
    THEN <<q, q + 128>> ELSE <<q>>

Chars(q) ==
  Distinct(FlattenSeq([i \in DOMAIN QuoteRows(q) |-> authored[QuoteRows(q)[i]]]),
           DOMAIN Latin)

(* A quote all of whose text the Latin font can draw keeps its English row.  *)
Quotes == { a \in DOMAIN authored : FirstLine(a) /\ (fontMode = "line" \/ Chars(a) # <<>>) }

(* One distinct base tile per quote; the pages overlap.                      *)
Base(q) ==
  SurfaceOf(q).first
    + Cardinality({ r \in Quotes : SurfaceOf(r) = SurfaceOf(q) /\ r < q })

(* Line mode: the halves of each column, deduplicated row by row.            *)
Halves(text) ==
  FlattenSeq([i \in DOMAIN text |-> << <<text[i], "top">>, <<text[i], "bottom">> >>])

LineTiles(a) == Distinct(Halves(authored[a]), {})

PageArt(q) ==
  IF fontMode = "line"
    THEN FlattenSeq([i \in DOMAIN QuoteRows(q) |-> LineTiles(QuoteRows(q)[i])])
    ELSE FlattenSeq([i \in DOMAIN Chars(q) |-> [k \in 1..4 |-> <<Chars(q)[i], k>>]])

-----------------------------------------------------------------------------
(* Rows. A cell is the pair of tiles of one map column, top and bottom.      *)

LatinCell(c) == <<Latin[c], IF c = " " THEN Latin[c] ELSE Latin[c] + 16>>

CharCells(q, c) ==
  LET tile == Base(q) + 4 * (Position(Chars(q), c) - 1)
  IN IF FullWidth(c) THEN << <<tile, tile + 2>>, <<tile + 1, tile + 3>> >> ELSE << LatinCell(c) >>

LineCellsOf(q, a) ==
  LET before == IF a = q THEN 0 ELSE Len(LineTiles(q))
      tile(half) == Base(q) + before + Position(LineTiles(a), half) - 1
  IN [i \in DOMAIN authored[a] |->
        <<tile(<<authored[a][i], "top">>), tile(<<authored[a][i], "bottom">>)>>]

RowCells(q, a) ==
  IF fontMode = "line" THEN LineCellsOf(q, a)
  ELSE FlattenSeq([i \in DOMAIN authored[a] |-> CharCells(q, authored[a][i])])

EnglishCells(a) == [i \in DOMAIN Dialogue[a].en |-> LatinCell(Dialogue[a].en[i])]

QuoteOf(a) == IF FirstLine(a) THEN a ELSE a - 128
Rewritten(a) == QuoteOf(a) \in Quotes /\ a \in Range(QuoteRows(QuoteOf(a)))
CellsOf(a) == IF Rewritten(a) THEN RowCells(QuoteOf(a), a) ELSE EnglishCells(a)

(* What the draw routine makes of a ROM word.                                *)
VramWord(s, word) == (word % 1024) + s.word_or

EncodeRow(a) ==
  [c \in 1..LineCells |-> IF c <= Len(cells[a]) THEN TileWord + cells[a][c][1] ELSE BlankWord]

RowWords(a) == LET rom == EncodeRow(a) IN [c \in 1..LineCells |-> VramWord(SurfaceOf(a), rom[c])]

(* Every row that can stand on a surface's first text row.                   *)
PrefixPool == { a \in DOMAIN Dialogue : FirstLine(a) /\ Covered(a) }

(* The shortest run of the row's words that no other row of the pool starts  *)
(* with; empty when there is none.                                           *)
Telling_Always(q, n) == TRUE   \* the least number of words, whoever shares them
Telling(q, n) ==
  \A a \in PrefixPool \ {q} : SubSeq(RowWords(a), 1, n) # SubSeq(RowWords(q), 1, n)

Guard(q) ==
  LET lengths == { n \in MinGuardWords..LineCells : Telling(q, n) }
  IN IF lengths = {} THEN <<>>
     ELSE SubSeq(RowWords(q), 1, CHOOSE n \in lengths : \A m \in lengths : n <= m)

CellCount(text) == IF fontMode = "line" THEN Len(text)
                   ELSE Len(text) + Len(SelectSeq(text, FullWidth))

(* What the build raises an error about.                                     *)
BuildStands ==
  /\ \A s \in Surfaces : SurfaceStands(s)
  /\ \A a \in DOMAIN authored : a \in DOMAIN Dialogue /\ Covered(a)
  /\ \A q \in Quotes :
       /\ pages[q].base + Len(pages[q].art) - 1 <= SurfaceOf(q).last
       /\ \A i \in DOMAIN QuoteRows(q) :
            CellCount(authored[QuoteRows(q)[i]]) <= SurfaceOf(q).budget
       /\ pages[q].guard # <<>>

Build ==
  /\ cells = [a \in DOMAIN Dialogue |-> CellsOf(a)]
  /\ pages = [q \in Quotes |-> [base |-> Base(q), art |-> PageArt(q), guard |-> Guard(q)]]
  /\ BuildStands

-----------------------------------------------------------------------------
(* The game and the engine. *)

PageWindow(s) == s.first..s.last
Free(s) == [t \in PageWindow(s) |-> <<"free", 0>>]

PagesInit ==
  /\ fontMode \in {"cell", "line"}
  /\ \A a \in DOMAIN authored : authored[a] \in Seq(Range(authored[a]))
  /\ Build
  /\ screen \in Surfaces
  /\ row \in { a \in PrefixPool : SurfaceOf(a) = screen }
  /\ typed = 0 /\ polled = FALSE
  /\ vram = Free(screen)

(* No pages are looked at.                                                   *)
PagesIdle ==
  /\ fontMode = "none"
  /\ authored = <<>> /\ cells = <<>> /\ pages = <<>>
  /\ screen = CHOOSE s \in Surfaces : TRUE
  /\ row = 0 /\ typed = 0 /\ polled = FALSE /\ vram = Free(screen)

(* A screen is opened: its tiles are uploaded anew, its map is blank.        *)
OpenScreen ==
  /\ screen' \in Surfaces
  /\ row' \in { a \in PrefixPool : SurfaceOf(a) = screen' }
  /\ typed' = 0 /\ polled' = FALSE
  /\ vram' = Free(screen')
  /\ UNCHANGED built

(* The next quote of the screen that is up: the map is blanked, tiles stay.  *)
NextQuote ==
  /\ row' \in { a \in PrefixPool : SurfaceOf(a) = screen } \ {row}
  /\ typed' = 0 /\ polled' = FALSE
  /\ UNCHANGED <<built, screen, vram>>

Type ==
  /\ typed < LineCells
  /\ typed' = typed + 1 /\ polled' = FALSE
  /\ UNCHANGED <<built, screen, row, vram>>

MapWords ==
  LET words == RowWords(row)
  IN [c \in 1..LineCells |-> IF c <= typed THEN words[c] ELSE VramWord(screen, BlankWord)]

Matching ==
  { q \in DOMAIN pages :
      SurfaceOf(q) = screen /\ SubSeq(MapWords, 1, Len(pages[q].guard)) = pages[q].guard }

PageTiles(q) == pages[q].base..(pages[q].base + Len(pages[q].art) - 1)

(* The engine writes the pages whose guards match, in file order: where they *)
(* overlap the last one stays.                                               *)
Laid(tile) ==
  LET over == { q \in Matching : tile \in PageTiles(q) }
  IN IF over = {} THEN vram[tile] ELSE pages[Max(over)].art[tile - pages[Max(over)].base + 1]

Poll ==
  /\ ~polled
  /\ polled' = TRUE
  /\ vram' = [tile \in DOMAIN vram |-> Laid(tile)]
  /\ UNCHANGED <<built, screen, row, typed>>

PagesNext == OpenScreen \/ NextQuote \/ Type \/ Poll

PagesSpec == PagesInit /\ [][PagesNext]_pageVars

-----------------------------------------------------------------------------

Art(tile) == IF tile \in DOMAIN vram THEN vram[tile] ELSE <<"font", tile>>

Shown(a) == [c \in DOMAIN cells[a] |-> <<Art(cells[a][c][1]), Art(cells[a][c][2])>>]

(* The picture the translator asked for, whatever tiles it is drawn with.    *)
CharPicture(c) ==
  CASE fontMode = "line" -> << << <<c, "top">>, <<c, "bottom">> >> >>
    [] fontMode = "cell" /\ FullWidth(c) -> << << <<c, 1>>, <<c, 3>> >>, << <<c, 2>>, <<c, 4>> >> >>
    [] fontMode = "cell" /\ ~FullWidth(c) ->
         << << <<"font", LatinCell(c)[1]>>, <<"font", LatinCell(c)[2]>> >> >>

Picture(a) == FlattenSeq([i \in DOMAIN authored[a] |-> CharPicture(authored[a][i])])

(* Once a quote's first row is typed out and the engine has looked, every    *)
(* tile its rows name holds the art of its own glyphs, whichever quotes and  *)
(* screens came before it: pages share one window, so a page laid for        *)
(* another quote, or a guard that two quotes answer to, would swap the font  *)
(* out from under it.                                                        *)
PageIsItsQuotes ==
  (typed = LineCells /\ polled /\ row \in DOMAIN pages) =>
    \A i \in DOMAIN QuoteRows(row) :
      Shown(QuoteRows(row)[i]) = Picture(QuoteRows(row)[i])
=============================================================================
