---------------------------- MODULE MCCacheSearch ----------------------------
(* Instances of CacheSearch for TLC: three entries at a time, of up to six  *)
(* keys.  X, Y and Z are entry blocks, the data slots lie in a block file   *)
(* each or in an external file.                                             *)
EXTENDS CacheSearch

CONSTANTS X, Y, Z, DX, DY, DZ, a, b, c, p, q, r, f1, f2, fx

MCFileOf == [s \in Slots |-> CASE s = DX -> f1 [] s = DY -> f2 [] s = DZ -> fx
                               [] OTHER -> f1]
OneBucket == [k \in Keys |-> 1]

MCHeaders == [k \in Keys |-> CASE k \in {a, p} -> "match" [] k = b -> "empty"
                               [] k = r -> "absent" [] OTHER -> "other"]

AnyBody == [rejects |-> {}, header |-> "none", needle |-> TRUE, capped |-> FALSE]
SmallBody == [rejects |-> {q}, header |-> "none", needle |-> TRUE, capped |-> TRUE]
WithHeader == [rejects |-> {}, header |-> "present", needle |-> FALSE, capped |-> TRUE]
WithValue == [rejects |-> {a}, header |-> "value", needle |-> FALSE, capped |-> TRUE]
MCFilters == {AnyBody, SmallBody, WithHeader, WithValue}
OnlyAnyBody == {AnyBody}

Plain == [k \in Keys |-> "identity"]
Mixed == [k \in Keys |-> CASE k \in {a, r} -> "identity" [] k \in {b, q} -> "gzip"
                           [] k = p -> "br" [] OTHER -> "zstd"]
SameSize == [k \in Keys |-> 1]
TwoSizes == [k \in Keys |-> IF k \in {a, b} THEN 2 ELSE 1]
=============================================================================
