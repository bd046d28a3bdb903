------------------------------ MODULE MCPacer ------------------------------
(***************************************************************************)
(* Pacer with time units of 1/2000 second, caps in proportion to the       *)
(* code's, numbers on both sides of each cap and rates that do and do not  *)
(* divide a second.                                                        *)
(***************************************************************************)
EXTENDS Pacer

Host(n, c, b) == [name |-> n, capitals |-> c, blanks |-> b]

\* Unset; only blanks; a default host, spelled two ways; another host; both.
MCLists == {{},
            {Host(Blank, FALSE, TRUE), Host(Blank, FALSE, FALSE)},
            {Host("test-server", FALSE, FALSE)},
            {Host("test-server", TRUE, TRUE), Host(Blank, FALSE, FALSE)},
            {Host("lab", TRUE, FALSE), Host("test-server", FALSE, TRUE)},
            {Host("lab", FALSE, TRUE)}}
=============================================================================
