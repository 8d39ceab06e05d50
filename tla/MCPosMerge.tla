----------------------------- MODULE MCPosMerge -----------------------------
(* TLC instance of PosMerge: all combinations of sorted files in which an   *)
(* id has up to MaxOcc items, or fills a block in a file of hardly more.    *)
EXTENDS PosMerge, SequencesExt, FiniteSets

CONSTANTS MinLen, MaxLen, \* bounds: items per posting file
          MaxOcc           \* bound: items of one id in one file

Occ(f, d) == Cardinality({k \in DOMAIN f : f[k] = d})

MCFiles ==
  {f \in BoundedSeq(Ids, MaxLen) :
     /\ Len(f) >= MinLen
     /\ \A k \in 1 .. Len(f) - 1 : f[k] <= f[k + 1]
     /\ \A d \in Ids : \/ Occ(f, d) <= MaxOcc
                       \/ Occ(f, d) = RD_NUM /\ Len(f) <= RD_NUM + 1}

=============================================================================
