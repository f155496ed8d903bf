------------------------- MODULE MCPrinterDirectory -------------------------
(***************************************************************************)
(* Small instances of PrinterDirectory.                                     *)
(***************************************************************************)
EXTENDS PrinterDirectory
=============================================================================
