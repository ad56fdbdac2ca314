----------------------------- MODULE MCFolders -----------------------------
(* Two folders, one under the other, for TLC.                              *)
EXTENDS Folders, TLC

CONSTANTS parent, child, v, d

MCName  == {parent, child}
MCUnder == (parent :> {child}) @@ (child :> {})

=============================================================================
