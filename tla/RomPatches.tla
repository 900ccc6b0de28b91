----------------------------- MODULE RomPatches -----------------------------
(* The localization table at work: an ordered list of [[rom_patch]] entries  *)
(* laid over the cart image of one language after another.                   *)
(*                                                                           *)
(* The engine that does this at run time is in a submodule; its two offline  *)
(* mirrors, scripts/reconstruct_table_image.py and the "runtime semantics"   *)
(* half of scripts/generate_intro_caption_patch.py, are the source here.     *)
(* A patch is the window it guards (the domain of its source) with the bytes *)
(* it expects there and the bytes it carries for some of the languages.      *)
EXTENDS Naturals, Sequences

CONSTANTS Addr,      \* the addresses of the cart
          Byte,      \* what one address can hold
          Langs,     \* the languages a patch may carry
          Off,       \* the setting that asks for no translation
          Fallback   \* fallback_<lang>: a function from some languages to others

ASSUME FallbackAssumption ==
  /\ Off \notin Langs
  /\ DOMAIN Fallback \subseteq Langs
  /\ \A l \in DOMAIN Fallback : Fallback[l] \in Langs

VARIABLES rom,     \* the untouched cart
          table,   \* the patches, in file order
          image,   \* the cart as the table has left it
          lang,    \* the language last selected
          cursor   \* the next patch of the pass that is under way

romVars == <<rom, table, image, lang, cursor>>

Settings == Langs \cup {Off}

Cells(p) == DOMAIN p.source

IsPatch(p) ==
  /\ p = [source |-> p.source, pay |-> p.pay]
  /\ Cells(p) \subseteq Addr /\ p.source \in [Cells(p) -> Byte]
  /\ DOMAIN p.pay \subseteq Langs
  /\ \A l \in DOMAIN p.pay : p.pay[l] \in [Cells(p) -> Byte]

IsTable(t) == t \in Seq({ t[i] : i \in DOMAIN t }) /\ \A i \in DOMAIN t : IsPatch(t[i])

(* fallback_chain: follow fallback_<lang> until there is none or it repeats. *)
Link(chain) ==
  LET end == chain[Len(chain)]
  IN IF /\ end \in DOMAIN Fallback
        /\ \A i \in 1..Len(chain) : chain[i] # Fallback[end]
       THEN Append(chain, Fallback[end])
       ELSE chain

ChainDepth == 8

Chains ==
  [l \in Settings |->
     LET grown[n \in 0..ChainDepth] == IF n = 0 THEN <<l>> ELSE Link(grown[n - 1])
     IN grown[ChainDepth]]

(* The payload of the first language of the chain that has one, else the     *)
(* source, which is how a cart window is restored.                           *)
Target(p, l) ==
  LET held == { i \in 1..Len(Chains[l]) : Chains[l][i] \in DOMAIN p.pay }
  IN IF held = {}
       THEN p.source
       ELSE p.pay[Chains[l][CHOOSE i \in held : \A j \in held : i <= j]]

(* What the guard of a patch recognises: its source and any language's bytes. *)
Allowed_SourceOnly(p) == {p.source}   \* no other language's bytes
Allowed(p) == {p.source} \cup { p.pay[l] : l \in DOMAIN p.pay }

Window(img, p) == [a \in Cells(p) |-> img[a]]

Write(img, p, l) ==
  LET target == Target(p, l)
  IN [a \in DOMAIN img |-> IF a \in Cells(p) THEN target[a] ELSE img[a]]

Step(img, p, l) == IF Window(img, p) \in Allowed(p) THEN Write(img, p, l) ELSE img

(* build_image: one pass over the table, from whatever image it is given.    *)
Pass(img, ps, l) ==
  LET after[i \in 0..Len(ps)] ==
        IF i = 0 THEN img ELSE Step(after[i - 1], ps[i], l)
  IN after

BuildImage(l, ps, img) == Pass(img, ps, l)[Len(ps)]

Skipped(l, ps, img) ==
  { i \in 1..Len(ps) : Window(Pass(img, ps, l)[i - 1], ps[i]) \notin Allowed(ps[i]) }

-----------------------------------------------------------------------------

RomInit ==
  /\ rom \in [Addr -> Byte]
  /\ IsTable(table)
  /\ image = rom
  /\ lang \in Settings
  /\ cursor = 1

(* One entry of the table: written when its guard holds, else passed over.   *)
ApplyPatch ==
  /\ cursor <= Len(table)
  /\ image' = Step(image, table[cursor], lang)
  /\ cursor' = cursor + 1
  /\ UNCHANGED <<rom, table, lang>>

(* A new language starts a new pass, over the image the last one left.       *)
SwitchLanguage ==
  /\ cursor > Len(table)
  /\ lang' \in Settings
  /\ cursor' = 1
  /\ UNCHANGED <<rom, table, image>>

RomNext == ApplyPatch \/ SwitchLanguage

RomSpec == RomInit /\ [][RomNext]_romVars

-----------------------------------------------------------------------------

RomTypeOK ==
  /\ rom \in [Addr -> Byte]
  /\ IsTable(table)
  /\ image \in [Addr -> Byte]
  /\ lang \in Settings
  /\ cursor \in Nat \ {0}

(* Patch i is the only writer of its window, and starts from the cart's bytes. *)
SoleOwner(i) ==
  /\ Window(rom, table[i]) = table[i].source
  /\ \A j \in DOMAIN table \ {i} : Cells(table[i]) \cap Cells(table[j]) = {}

(* A window with one owner that describes it from the cart up always holds   *)
(* bytes its owner recognises, and from the moment a pass has reached it the *)
(* bytes of the selected language, whatever was selected before: "One owner  *)
(* means every boot and every language switch resolves in one step, `off`    *)
(* included" (generate_dialogue_patch.py:178-179).                           *)
SingleOwnerResolves ==
  \A i \in DOMAIN table :
    SoleOwner(i) =>
      /\ Window(image, table[i]) \in Allowed(table[i])
      /\ cursor > i => Window(image, table[i]) = Target(table[i], lang)
=============================================================================
