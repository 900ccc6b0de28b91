-------------------------- MODULE MCPeerAgreement --------------------------
(* Two peers with margins 0 .. 2.  The starts are those of two players who
   set nothing, the same switches on both sides, and one switch on one side. *)
EXTENDS PeerAgreement

CONSTANTS p1, p2

MCPeer         == { p1, p2 }
MCWsExtraMax   == 2
MCEncodableMax == 2

Default == [ override |-> -1, killed |-> FALSE, rom |-> Vanilla ]

Switched ==
  { [ Default EXCEPT !.override = w ] : w \in { 0, 1, 3 } }
    \union { [ Default EXCEPT !.killed = TRUE ], [ Default EXCEPT !.rom = Foreign ] }

Alike(s) == [ p \in MCPeer |-> s ]

OneSided == { [ Alike(Default) EXCEPT ![p2] = s ] : s \in Switched }

MCStarts == { Alike(s) : s \in Switched \union { Default } } \union OneSided
=============================================================================
