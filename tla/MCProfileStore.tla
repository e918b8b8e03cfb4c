--------------------------- MODULE MCProfileStore ---------------------------
(***************************************************************************)
(* ProfileStore for TLC.  No definition tells two windows, profiles,       *)
(* names, suffixes or passwords apart.                                     *)
(***************************************************************************)
EXTENDS ProfileStore, TLC

Symmetry ==
  Permutations(Windows) \cup Permutations(Profiles) \cup Permutations(Names)
    \cup Permutations(Suffixes) \cup Permutations(Passwords)
=============================================================================
