-------------------------- MODULE MCProviderSlots --------------------------
(***************************************************************************)
(* Instances of ProviderSlots for TLC: more callers than slots.            *)
(***************************************************************************)
EXTENDS ProviderSlots

MCCap == 0..2
============================================================================
