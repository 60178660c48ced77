-------------------------- MODULE MCMemoryRegions --------------------------
(* A small instance of MemoryRegions for TLC.                              *)
EXTENDS MemoryRegions, TLC

(* Places are interchangeable, and so are regions.                         *)
MrSymmetry == Permutations(Handles) \cup Permutations(Regions)
=============================================================================
