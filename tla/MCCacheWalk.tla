----------------------------- MODULE MCCacheWalk -----------------------------
(* Instances of CacheWalk for TLC: all slots in one data file, some in     *)
(* another one, or the data of an entry in an external file.               *)
EXTENDS CacheWalk

CONSTANTS X, Y, Z, DX, DY, a, b, c, f1, f2, fx

TwoFiles == [s \in Slots |-> IF s \in {Y, DY} THEN f2 ELSE f1]
Spread == [s \in Slots |-> IF s = DY THEN fx ELSE IF s = Z THEN f2 ELSE f1]

OneBucket == [k \in Keys |-> 1]
TwoBuckets == [k \in Keys |-> IF k = a THEN 1 ELSE 2]
=============================================================================
