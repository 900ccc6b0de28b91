--------------------------- MODULE MCSessionHost ---------------------------
(* SessionHost with margins 0 .. 2, both wide ones encodable as all of the
   code's are (kWsExtraMax = 95 is below the last encodable 112),
   and the environments a player, a probe and a script start it in. *)
EXTENDS SessionHost

MCWsExtraMax   == 2
MCEncodableMax == 2

(* A player's machine, with or without the mod runtime. *)
Player0 == [ override |-> -1, killed |-> FALSE, scripted |-> FALSE,
             mods |-> TRUE, rom |-> Vanilla ]

Launched ==
  { Player0,
    [ Player0 EXCEPT !.mods = FALSE ],
    [ Player0 EXCEPT !.killed = TRUE ],
    [ Player0 EXCEPT !.rom = Foreign ],
    [ Player0 EXCEPT !.rom = Short ] }
    \union { [ Player0 EXCEPT !.override = w ] : w \in 0 .. 3 }

Scripted == { [ e EXCEPT !.scripted = TRUE ] : e \in Launched }

MCEnvironments == Launched \union Scripted
=============================================================================
