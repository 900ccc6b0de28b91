--------------------------- MODULE TableGenerators ---------------------------
(* The scripts that write the localization table, and the checks that accept *)
(* it: generate_dialogue_patch.py, generate_dialogue_accent_patch.py and     *)
(* generate_intro_caption_patch.py, run in any order over one file, and      *)
(* check_localization.py, which accepts the file when all three do.          *)
(*                                                                           *)
(* The file is a sequence of sections, each a list of patches: the imported  *)
(* IPS fragments and one generated section per generator, where it was first *)
(* written.  Windows that a generator owns are cut out of everyone else's.   *)
EXTENDS RomPatches, FiniteSets, SequencesExt

CONSTANTS Rows,         \* windows of the dialogue rows
          TextCells,    \* the part of the rows an authored line rewrites (start_col on)
          CellTiles,    \* windows of the two tiles of the allocated accent cell
          CellLang,     \* the language it is allocated for
          Cleared,      \* the part of those tiles that the diacritic is stamped in
          BaseGlyph,    \* the rest, each with the byte of the base glyph it copies
          Ink,          \* what the diacritic is drawn with
          FrameTiles,   \* windows of the box frame's tiles
          Rects,        \* windows of the intro caption
          CaptionArt,   \* a language with a caption of its own |-> its byte
          Captures,     \* live VRAM captures: [lang, resident, tiles]
          Lines         \* what an es override can be

BaselineLangs == {"en", "es"}
OwnedTiles == CellTiles \cup FrameTiles

(* The windows lie apart in the cart.                                        *)
ASSUME WindowsAssumption ==
  /\ Addr \subseteq Nat /\ IsFiniteSet(Addr)
  /\ \A w \in Rows \cup OwnedTiles \cup Rects : w # {} /\ w \subseteq Addr
  /\ \A v, w \in Rows \cup OwnedTiles \cup Rects : v = w \/ v \cap w = {}
  /\ Rows \cap OwnedTiles = {} /\ Rects \cap (Rows \cup OwnedTiles) = {}

ASSUME ArtAssumption ==
  /\ BaselineLangs \cup {CellLang} \cup DOMAIN CaptionArt \subseteq Langs
  /\ Lines \subseteq [TextCells -> Byte]
  /\ \A tile \in CellTiles : \A a \in tile \ Cleared : BaseGlyph[a] \in Addr
  /\ Ink \in Byte /\ \A l \in DOMAIN CaptionArt : CaptionArt[l] \in Byte

(* endless_duel.toml: every language but the two of the references falls     *)
(* back on English.                                                          *)
ASSUME ManifestAssumption ==
  /\ Langs \ BaselineLangs \subseteq DOMAIN Fallback
  /\ "en" \notin DOMAIN Fallback
  /\ \A l \in DOMAIN Fallback : Fallback[l] = "en"

VARIABLES file,       \* the sections of the table, in file order
          ref,        \* the English and the Spanish reference cart
          text,       \* authored target lines: [row -> [some languages -> line]]
          override,   \* authored es overrides: some rows -> line
          lossy,      \* KNOWN_SWITCH_LOSS
          baseline,   \* reference art captured for the accent tiles, per language
          live,       \* the surveyed tiles
          recorded,   \* the digests recorded for the caption
          mode        \* "edit" until the table is accepted, then "play"

authorVars == <<ref, text, override, lossy, baseline, live, recorded>>
tableVars == <<romVars, file, authorVars, mode>>

None == <<>>   \* nothing captured yet
Entries(f) == FlattenSeq([i \in DOMAIN f |-> f[i].body])
Boot(l, f) == BuildImage(l, Entries(f), rom)
On(img, w) == [a \in w |-> img[a]]

-----------------------------------------------------------------------------
(* Cutting windows out of patches. *)

(* Windows in the order of their first addresses.                            *)
InOrder(windows) ==
  [k \in 1..Cardinality(windows) |->
     CHOOSE w \in windows : Cardinality({ v \in windows : Min(v) <= Min(w) }) = k]

Runs(cells) ==
  InOrder({ { b \in cells : a <= b /\ a..b \subseteq cells } :
            a \in { a \in cells : a - 1 \notin cells } })

Slice(p, w) == [source |-> On(p.source, w), pay |-> [l \in DOMAIN p.pay |-> On(p.pay[l], w)]]

Pieces(p, windows) ==
  LET kept == Runs(Cells(p) \ UNION windows)
  IN IF Cells(p) \cap UNION windows = {}
       THEN <<p>>
       ELSE [i \in DOMAIN kept |-> Slice(p, kept[i])]

CutBody(ps, windows) == FlattenSeq([k \in DOMAIN ps |-> Pieces(ps[k], windows)])

Cut(f, names, windows) ==
  [i \in DOMAIN f |->
     IF f[i].name \in names THEN [f[i] EXCEPT !.body = CutBody(f[i].body, windows)] ELSE f[i]]

(* A section goes back where it was, or to the end of the file.              *)
ReplaceSection(f, name, body) ==
  IF \E i \in DOMAIN f : f[i].name = name
    THEN [i \in DOMAIN f |-> IF f[i].name = name THEN [f[i] EXCEPT !.body = body] ELSE f[i]]
    ELSE Append(f, [name |-> name, body |-> body])

Names == {"import", "dialogue", "accent", "caption"}

-----------------------------------------------------------------------------
(* generate_dialogue_patch.py *)

EncodeLine(row, line) == [a \in row |-> IF a \in TextCells THEN line[a] ELSE ref.en[a]]

Repaired(row) == EncodeLine(row, override[row])

(* One table of payloads, and another for the languages it says nothing of.  *)
Filled(f, g) ==
  [l \in DOMAIN f \cup DOMAIN g |-> IF l \in DOMAIN f THEN f[l] ELSE g[l]]

(* A repaired row is described from the cart up; elsewhere the fragments     *)
(* have already written the English row, which is what the patch guards.     *)
RowPatch(row) ==
  LET own == [l \in DOMAIN text[row] |-> EncodeLine(row, text[row][l])]
  IN IF row \in DOMAIN override
       THEN [source |-> On(rom, row),
             pay |-> Filled(own, [l \in BaselineLangs |-> IF l = "en" THEN On(ref.en, row)
                                                          ELSE Repaired(row)])]
       ELSE [source |-> On(ref.en, row), pay |-> Filled(own, [l \in {"es"} |-> On(ref.es, row)])]

RowOrder == InOrder({ row \in Rows : DOMAIN text[row] # {} })

DialogueSection == [i \in DOMAIN RowOrder |-> RowPatch(RowOrder[i])]

(* es_repairs refuses an override that only spells the reference row again.  *)
OverridesStand == \A row \in DOMAIN override : Repaired(row) # On(ref.es, row)

DialogueFile(f) ==
  ReplaceSection(Cut(f, {"import"}, DOMAIN override), "dialogue", DialogueSection)

Expected(row, l) ==
  LET p == RowPatch(row)
  IN CASE l = Off -> On(rom, row)
       [] l \in DOMAIN p.pay -> p.pay[l]
       [] l \notin DOMAIN p.pay /\ l # Off ->
            IF "en" \in DOMAIN p.pay THEN p.pay["en"] ELSE p.source

(* The switches verify_replay tries, in its order.                           *)
TriedSwitches ==
  { seq \in { <<"es", "fr">>, <<"es", Off>>, <<Off, "es">>, <<"fr", "es">>, <<"en", "es">>,
             <<"es", "ko">>, <<"ko", "es">>, <<"es", "en">>, <<Off, "fr", "es", Off, "es">> } :
    Range(seq) \subseteq Settings }

Played(seq, f) ==
  LET after[n \in 0..Len(seq)] ==
        IF n = 0 THEN rom ELSE BuildImage(seq[n], Entries(f), after[n - 1])
  IN after[Len(seq)]

MustNotSkip == {"en", "zh", "ko", "th"} \cap Langs

RepairShows_AuthoredRows(f, row) ==   \* only rows with a translated line
  DOMAIN text[row] # {} => On(Boot("es", f), row) = Repaired(row)
RepairShows(f, row) ==
  /\ On(Boot("es", f), row) = Repaired(row)
  /\ On(Boot(Off, f), row) = On(rom, row)
  /\ On(Boot("en", f), row) = On(ref.en, row)

VerifyReplay(f) ==
  /\ \A l \in MustNotSkip : Skipped(l, Entries(f), rom) = {}
  /\ \A l \in Settings, i \in DOMAIN RowOrder :
       On(Boot(l, f), RowOrder[i]) = Expected(RowOrder[i], l)
  /\ \A row \in DOMAIN override : RepairShows(f, row)
  /\ \A seq \in TriedSwitches, i \in DOMAIN RowOrder :
       LET row == RowOrder[i]
           well == On(Played(seq, f), row) = Expected(row, seq[Len(seq)])
       IN IF well THEN ~(row \in lossy /\ row \in DOMAIN override)
                  ELSE row \in lossy /\ row \notin DOMAIN override

DialogueCheck(f) == OverridesStand /\ DialogueFile(f) = f /\ VerifyReplay(f)

-----------------------------------------------------------------------------
(* generate_dialogue_accent_patch.py *)

ComposeCell(tile, en) == [a \in tile |-> IF a \in Cleared THEN Ink ELSE en[BaseGlyph[a]]]

TileOrder == InOrder(OwnedTiles)

AccentPatch(tile, en) ==
  [source |-> On(rom, tile),
   pay |-> Filled([l \in BaselineLangs |-> On(baseline[l], tile)],
                  [l \in { c \in {CellLang} : tile \in CellTiles } |-> ComposeCell(tile, en)])]

AccentSection(f) == [i \in DOMAIN TileOrder |-> AccentPatch(TileOrder[i], Boot("en", f))]

AccentFile(f) ==
  ReplaceSection(Cut(f, Names \ {"accent"}, OwnedTiles), "accent", AccentSection(f))

(* survey_captures: only a screen drawn in a language that allocates nothing, *)
(* and only while the dialogue font is what the character base holds.         *)
Counted == { c \in Captures : c.lang \in BaselineLangs /\ c.resident }
SurveyedTiles == UNION { c.tiles : c \in Counted }

LiveFree == live # {} /\ CellTiles \cap live = {} /\ live \subseteq FrameTiles

Overlaps(f, owner, windows) ==
  \E i \in DOMAIN f : f[i].name # owner
    /\ \E k \in DOMAIN f[i].body :
         /\ Cells(f[i].body[k]) \notin windows
         /\ Cells(f[i].body[k]) \cap UNION windows # {}

BaselineHolds(f) ==
  \A l \in BaselineLangs : \A w \in OwnedTiles : On(Boot(l, f), w) = On(baseline[l], w)

FrameHolds(f) ==
  \A l \in Langs : \A w \in FrameTiles : On(Boot(l, f), w) = On(baseline["en"], w)

AccentCheck(f) ==
  /\ DOMAIN baseline # {}
  /\ ReplaceSection(f, "accent", AccentSection(f)) = f
  /\ LiveFree /\ BaselineHolds(f) /\ ~Overlaps(f, "accent", OwnedTiles) /\ FrameHolds(f)

-----------------------------------------------------------------------------
(* generate_intro_caption_patch.py *)

RectOrder == InOrder(Rects)

(* Languages whose chain never reaches English are given its art outright.   *)
Explicit == { l \in Langs \ {"en"} : \A i \in 1..Len(Chains[l]) : Chains[l][i] # "en" }

CaptionPatch(rect, art) ==
  [source |-> On(rom, rect),
   pay |-> Filled([l \in DOMAIN art |-> [a \in rect |-> art[l]]],
                  [l \in Explicit \cup {"en"} |-> On(ref.en, rect)])]

CaptionSection(art) == [i \in DOMAIN RectOrder |-> CaptionPatch(RectOrder[i], art)]

Digests(f) == [l \in BaselineLangs |-> Boot(l, f)]

(* The images of the table with the English caption for everyone.            *)
Restructured(f) == Digests(ReplaceSection(f, "caption", CaptionSection(<<>>)))

CaptionSplit(f) == Cut(f, Names \ {"caption"}, Rects)
CaptionFile(f) == ReplaceSection(CaptionSplit(f), "caption", CaptionSection(CaptionArt))

CaptionNoOverlap(f) ==
  LET owners(w) == { i \in DOMAIN Entries(f) : Cells(Entries(f)[i]) = w }
  IN /\ \A w \in Rects : \E i \in DOMAIN Entries(f) : owners(w) = {i}
     /\ \A i \in DOMAIN Entries(f) :
          Cells(Entries(f)[i]) \in Rects \/ Cells(Entries(f)[i]) \cap UNION Rects = {}

CaptionCheck(f) ==
  /\ ReplaceSection(f, "caption", CaptionSection(CaptionArt)) = f
  /\ CaptionNoOverlap(f)
  /\ Restructured(f) = recorded

-----------------------------------------------------------------------------

(* check_localization.py *)
CheckAll(f) == CaptionCheck(f) /\ AccentCheck(f) /\ DialogueCheck(f)

Idle == UNCHANGED <<rom, image, lang, cursor, mode>>

WriteFile(f) ==
  /\ mode = "edit"
  /\ file' = f
  /\ table' = Entries(f)
  /\ UNCHANGED authorVars /\ Idle

DialogueWrite == OverridesStand /\ WriteFile(DialogueFile(file))

(* The table is replaced before the checks of --write run; a check that then *)
(* raises leaves it replaced.                                                *)
AccentWrite == DOMAIN baseline # {} /\ WriteFile(AccentFile(file))

(* REFUSING to write: the split alone may not change the en or the es image. *)
CaptionWrite ==
  /\ Restructured(file) = Restructured(CaptionSplit(file))
  /\ Restructured(CaptionSplit(file)) = recorded
  /\ CaptionNoOverlap(CaptionFile(file))
  /\ WriteFile(CaptionFile(file))

CaptureBaseline ==
  /\ mode = "edit"
  /\ baseline' = [l \in BaselineLangs |-> On(Boot(l, file), UNION OwnedTiles)]
  /\ UNCHANGED <<file, table, ref, text, override, lossy, live, recorded>> /\ Idle

Survey ==
  /\ mode = "edit" /\ Counted # {}
  /\ live' = SurveyedTiles
  /\ UNCHANGED <<file, table, ref, text, override, lossy, baseline, recorded>> /\ Idle

(* The author's own edits of the source tables.                              *)
EditOverride(row, line) ==
  /\ mode = "edit"
  /\ override' = IF row \in DOMAIN override
                   THEN [r \in DOMAIN override \ {row} |-> override[r]]
                   ELSE [r \in DOMAIN override \cup {row} |-> IF r = row THEN line
                                                               ELSE override[r]]
  /\ UNCHANGED <<file, table, ref, text, lossy, baseline, live, recorded>> /\ Idle

RecordDigests ==
  /\ mode = "edit"
  /\ recorded' = Restructured(file)
  /\ UNCHANGED <<file, table, ref, text, override, lossy, baseline, live>> /\ Idle

(* The checks accept the file, and a game is started with it.                *)
Ship ==
  /\ mode = "edit" /\ CheckAll(file)
  /\ mode' = "play"
  /\ lang' \in Settings
  /\ UNCHANGED <<rom, table, image, cursor, file, authorVars>>

Run == mode = "play" /\ RomNext /\ UNCHANGED <<file, authorVars, mode>>

TableNext ==
  \/ DialogueWrite \/ AccentWrite \/ CaptionWrite
  \/ CaptureBaseline \/ Survey \/ RecordDigests
  \/ \E row \in Rows : \E line \in Lines : EditOverride(row, line)
  \/ Ship \/ Run

(* Where the author starts: the imported fragments, nothing generated.       *)
TableStart ==
  /\ rom \in [Addr -> Byte] /\ ref \in [BaselineLangs -> [Addr -> Byte]]
  /\ text = [row \in Rows |-> text[row]]
  /\ \A row \in Rows : /\ DOMAIN text[row] \subseteq Langs
                       /\ \A l \in DOMAIN text[row] : text[row][l] \in [TextCells -> Byte]
  /\ lossy \subseteq Rows
  /\ IsTable(table)
  /\ file = << [name |-> "import", body |-> table] >>
  /\ image = rom /\ lang = "en" /\ cursor = 1
  /\ override = None /\ baseline = None /\ live = {}
  /\ recorded = Restructured(file)
  /\ mode = "edit"

TableSpec == TableStart /\ [][TableNext]_tableVars

(* No table is written.                                                      *)
TableIdle ==
  /\ mode = "none"
  /\ rom = <<>> /\ image = <<>> /\ lang = Off /\ cursor = 1 /\ table = <<>>
  /\ file = <<>> /\ ref = <<>> /\ text = <<>> /\ override = None /\ lossy = {}
  /\ baseline = None /\ live = {} /\ recorded = None

-----------------------------------------------------------------------------

Settled == mode = "play" /\ cursor > Len(table)

OwnedTarget(p, l) ==
  CASE l = Off -> On(rom, Cells(p))
    [] l \in DOMAIN p.pay -> p.pay[l]
    [] l # Off /\ l \notin DOMAIN p.pay -> p.pay["en"]

(* A table the checks accept shows, on every window a generator owns outright *)
(* (each repaired row, each tile of the accent cell and of the box frame,    *)
(* each caption rectangle), what was authored for the selected language,     *)
(* after whatever sequence of languages was selected before.                 *)
AcceptedWindowsResolve ==
  Settled =>
    /\ \A row \in DOMAIN override : On(image, row) = Expected(row, lang)
    /\ \A i \in DOMAIN file : \A k \in DOMAIN file[i].body :
         LET p == file[i].body[k]
         IN file[i].name \in {"accent", "caption"} =>
              On(image, Cells(p)) = OwnedTarget(p, lang)

(* verify_replay "assert[s] every dialogue row, for every language and       *)
(* switch" (generate_dialogue_patch.py:321): in a table it has accepted,     *)
(* each row outside KNOWN_SWITCH_LOSS shows the selected language.           *)
VerifiedRowsSwitch ==
  Settled => \A row \in Rows \ lossy :
               DOMAIN text[row] # {} => On(image, row) = Expected(row, lang)
=============================================================================
