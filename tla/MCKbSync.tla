------------------------------- MODULE MCKbSync -------------------------------
(* Two syncs of one repository that nobody edits, without failures: the       *)
(* second may be forced.                                                      *)
EXTENDS KbSync

==============================================================================
