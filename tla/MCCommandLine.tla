--------------------------- MODULE MCCommandLine ----------------------------
(***************************************************************************)
(* The instance of CommandLine and Terminal for TLC.                       *)
(***************************************************************************)
EXTENDS CommandLine

MCLetters == {">", "x", " "}
MCKeys == {"x", " "}
=============================================================================
