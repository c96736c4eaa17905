--------------------------- MODULE MCHistoryPages ---------------------------
(* Small instances of HistoryPages: pages of two records over a horizon of  *)
(* several pages.                                                           *)
EXTENDS HistoryPages

=============================================================================
