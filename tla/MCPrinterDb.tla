---------------------------- MODULE MCPrinterDb -----------------------------
(***************************************************************************)
(* Small instances of PrinterDb: one in which no printer has the name of    *)
(* the settings group, and one in which a client has chosen that name.      *)
(***************************************************************************)
EXTENDS PrinterDb
=============================================================================
