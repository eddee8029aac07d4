----------------------------- MODULE MCTlbCache -----------------------------
(* Two processes with two pages each share a TLB of three entries, so that *)
(* it fills up and replaces.  Process ids, pages and frames are the ends   *)
(* of their fields, so that a field that runs into the next one shows.     *)
EXTENDS TlbCache

MCPid == {Bits(1), 0..30}
MCPage == {{}, 0..13}
MCFrame == {{}, 0..12}
=============================================================================
