---------------------------- MODULE MCDesktopTabs ----------------------------
(* DesktopTabs for TLC: workspaces and tab ids are interchangeable.          *)
EXTENDS DesktopTabs, TLC

Symmetric == Permutations(Slugs) \cup Permutations(Ids)
=============================================================================
