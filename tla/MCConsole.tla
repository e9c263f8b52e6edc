----------------------------- MODULE MCConsole ------------------------------
(***************************************************************************)
(* The instance of Console for TLC.                                        *)
(***************************************************************************)
EXTENDS Console

\* A letter, caps lock, the first code behind the table, and the release of the letter.
MCScancodes == {30, 58, 82, 158}
=============================================================================
