--------------------------- MODULE MCStartupImport ---------------------------
(* Small instances of StartupImport for TLC. *)
EXTENDS StartupImport

CONSTANTS a, b

=============================================================================
