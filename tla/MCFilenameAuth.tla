---------------------------- MODULE MCFilenameAuth ----------------------------
(***************************************************************************)
(* Names of up to two characters over one letter and the separator: the   *)
(* names with a separator stand for gocryptfs.longname.* and for any      *)
(* encrypted name an attacker chose to contain one.                       *)
(***************************************************************************)
EXTENDS FilenameAuth

CONSTANTS x, dot

MCNameChars == {x, dot}

\* Two spellings of each MAC: VerifyFilename compares only the decoded
\* MAC, so one spelling besides the canonical one stands for the three.
MCPadBits == 0..1

=============================================================================
