------------------------------ MODULE MCConsole ------------------------------
(* A screen of two rows of three cells, a line of two characters that just   *)
(* fills a row with the prompt, and a letter, Enter and backspace; the keys  *)
(* without a character are among those beyond the tables.                    *)
EXTENDS Console

MCCharOf == [kA |-> "a", kBack |-> "bs"]
MCCodes == DOMAIN MCCharOf
=============================================================================
