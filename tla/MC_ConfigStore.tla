--------------------------- MODULE MC_ConfigStore ---------------------------
(* A small instance of ConfigStore: two factory-default variables that fill  *)
(* the table, one secret settings group and two edits.                       *)
EXTENDS ConfigStore

CONSTANTS d1, secret, blank, v1, p1

MCGroups == {secret}
MCValues == {blank, v1}
=============================================================================
