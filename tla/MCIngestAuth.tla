----------------------------- MODULE MCIngestAuth -----------------------------
(* Instances of IngestAuth for TLC. *)
EXTENDS IngestAuth, TLC

CONSTANTS k1, k2, w1, w2, r1, r2, r3

SharedKey == [k \in {k1} |-> w1]
TwoKeys == [k \in {k1, k2} |-> IF k = k1 THEN w1 ELSE w2]

\* Requests are interchangeable: no definition names one.
RequestSymmetry == Permutations(Requests)
=============================================================================
