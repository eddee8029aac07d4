------------------------------- MODULE MCPte --------------------------------
(* Numbers at the edges of their fields: zero, all ones, the highest bit   *)
(* alone.                                                                  *)
EXTENDS Pte

MCPage == {{}, {13}, 0..13}
MCOffst == {{}, {7}, 0..7}
MCFpn == {{}, {12}, 0..12}
MCSwptyp == {{}, Bits(3)}

\* Offsets that PAGING_SWP can read, and the first one that it cannot.
MCSwpoff == {{}, Bits(256), Bits(511)}
MCSwpoffLarge == {{}, Bits(512)}
=============================================================================
