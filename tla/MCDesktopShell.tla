--------------------------- MODULE MCDesktopShell ---------------------------
(***************************************************************************)
(* DesktopShell for TLC.  Desktops, and gateways, differ in nothing but    *)
(* their names.                                                            *)
(***************************************************************************)
EXTENDS DesktopShell, TLC

Symmetry == Permutations(Desktop) \cup Permutations(Gateway)
=============================================================================
