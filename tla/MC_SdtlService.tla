---------------------------- MODULE MC_SdtlService ----------------------------
EXTENDS SdtlService

CONSTANTS s1, s2, s3

MCServices == {s1, s2, s3}

(* Service names are interchangeable: nothing in the code orders them.     *)
MCSymmetry == Permutations(MCServices)

=============================================================================
