----------------------------- MODULE SeedDecoder -----------------------------
(***************************************************************************)
(* What Local State holds in base64: the Base64Decode that reads the       *)
(* system profile (readers_sysprofile.cpp), the one that reads the         *)
(* variations seed (readers_proto.cpp), and what becomes of the seed, in   *)
(* Gunzip and DecodeVariations.  One step is one character of the text or  *)
(* one call of inflate.                                                    *)
(*                                                                         *)
(* A character is the number it stands for, Pad or Noise.  The code has    *)
(* AccBits = 32 and Chunk = 65536.                                         *)
(***************************************************************************)
EXTENDS Integers, SequencesExt

CONSTANTS
  AccBits,   \* the bits of `acc' and of `val'
  Chunk,     \* the output buffer of Gunzip
  Seeds      \* bytes, the gzip stream that they are, and a text of them

Pad == 64
Noise64 == 65
Bytes == Seq(0 .. 255)
Chars == Seq(0 .. Noise64)

(* The values of `acc', and of one sign of `val'.                          *)
AccRange == 2^AccBits
AccHalf == 2^(AccBits - 1)

(* There is room for a character and for what is left of those before it.  *)
ASSUME SeedAssumption ==
  /\ AccBits \in Nat /\ AccBits >= 12
  /\ {AccRange, AccHalf} \subseteq Nat \ {0}
  /\ AccRange = 2 * AccHalf /\ AccRange % 2^12 = 0
  /\ Chunk \in Nat \ {0}
  /\ Seeds \subseteq [bytes: Bytes, text: Chars, stream: {"whole", "torn", "corrupt"}, size: Nat,
                      parses: BOOLEAN]

VARIABLES
  seed,      \* what was encoded
  decoder,   \* "profile" or "variations"
  pos,       \* the next character
  acc,       \* acc, val
  bits,      \* bits
  decoded,   \* out
  phase,     \* "base64", "gunzip", "parse", "done"
  inflated,  \* the size of what Gunzip has put out
  present    \* VariationsSummary.present

seedVars == <<seed, decoder, pos, acc, bits, decoded, phase, inflated, present>>

SeedTypeOK ==
  /\ seed \in Seeds
  /\ decoder \in {"profile", "variations"}
  /\ pos \in 1 .. Len(seed.text) + 1
  /\ acc \in IF decoder = "profile" THEN 0 .. AccRange - 1 ELSE -AccHalf .. AccHalf - 1
  /\ bits \in -8 .. -1
  /\ decoded \in Bytes
  /\ phase \in {"base64", "gunzip", "parse", "done"}
  /\ inflated \in 0 .. seed.size
  /\ present \in BOOLEAN

SeedInit ==
  /\ seed \in Seeds
  /\ decoder \in {"profile", "variations"}
  /\ pos = 1 /\ acc = 0 /\ bits = -8 /\ decoded = <<>>
  /\ phase = "base64" /\ inflated = 0 /\ present = FALSE

-----------------------------------------------------------------------------
(* base64 as the browser writes it: six bits of the bytes a character.     *)
BitOf(s, width, k) ==
  IF k \div width < Len(s) THEN (s[k \div width + 1] \div 2^(width - 1 - (k % width))) % 2 ELSE 0

Digit(bs, i) ==
  LET upTo[k \in 0 .. 6] == IF k = 0 THEN 0 ELSE 2 * upTo[k - 1] + BitOf(bs, 8, 6 * (i - 1) + k - 1)
  IN  upTo[6]

Encoded(bs) ==
  LET n == (8 * Len(bs) + 5) \div 6
  IN  [i \in 1 .. n + ((4 - (n % 4)) % 4) |-> IF i <= n THEN Digit(bs, i) ELSE Pad]

-----------------------------------------------------------------------------
Char == seed.text[pos]
InText == phase = "base64" /\ pos <= Len(seed.text)
SeedFrame == UNCHANGED <<seed, decoder, inflated, present>>

SkipChar ==
  /\ InText
  /\ Char = Noise64 \/ (Char = Pad /\ decoder = "variations")
  /\ pos' = pos + 1
  /\ UNCHANGED <<acc, bits, decoded, phase>>
  /\ SeedFrame

(* unsigned acc wraps; int val does so in the builds there are, although   *)
(* the language leaves a shift out of its range undefined.                 *)
Wrapped(n) ==
  IF decoder = "profile" THEN n % AccRange
  ELSE ((n + AccHalf) % AccRange) - AccHalf

(* Mutation of TakeChar: the leftover bits are counted from none.          *)
TakeCharLate ==
  /\ InText /\ Char < Pad
  /\ acc' = Wrapped(acc * 64 + Char)
  /\ IF bits + 6 >= 0
     THEN /\ decoded' = Append(decoded, (acc' \div 2^(bits + 6)) % 256)
          /\ bits' = -8
     ELSE UNCHANGED decoded /\ bits' = bits + 6
  /\ pos' = pos + 1
  /\ UNCHANGED phase
  /\ SeedFrame

(* A character brings six bits; of eight that are there a byte is made.    *)
TakeChar ==
  /\ InText /\ Char < Pad
  /\ acc' = Wrapped(acc * 64 + Char)
  /\ IF bits + 6 >= 0
     THEN /\ decoded' = Append(decoded, (acc' \div 2^(bits + 6)) % 256)
          /\ bits' = bits + 6 - 8
     ELSE UNCHANGED decoded /\ bits' = bits + 6
  /\ pos' = pos + 1
  /\ UNCHANGED phase
  /\ SeedFrame

(* The decoder of the system profile breaks off at the first padding; what *)
(* it returns goes to WireReader.                                          *)
EndOfText ==
  /\ phase = "base64"
  /\ ~InText \/ (decoder = "profile" /\ InText /\ Char = Pad)
  /\ phase' = IF decoder = "profile" THEN "done" ELSE "gunzip"
  /\ UNCHANGED <<pos, acc, bits, decoded>>
  /\ SeedFrame

-----------------------------------------------------------------------------
(* zlib: a stream that is not the one that was written is found out; what  *)
(* comes behind it is not looked at.                                       *)
Stream == IF IsPrefix(seed.bytes, decoded) THEN seed.stream ELSE "corrupt"
Output == IF seed.size - inflated < Chunk THEN seed.size - inflated ELSE Chunk

(* Mutation of InflateFails: only Z_DATA_ERROR is an error.                *)
InflateFailsOnData ==
  /\ phase = "gunzip"
  /\ Stream = "corrupt"
  /\ inflated' = 0 /\ phase' = "parse"
  /\ UNCHANGED <<seed, decoder, pos, acc, bits, decoded, present>>

(* Mutation of InflateFails: what there is of a damaged stream is kept.    *)
InflateFailsPartly ==
  /\ phase = "gunzip"
  /\ Stream = "corrupt" \/ (Stream = "torn" /\ Output = 0)
  /\ phase' = "parse"
  /\ UNCHANGED <<seed, decoder, pos, acc, bits, decoded, inflated, present>>

(* Neither Z_OK nor Z_STREAM_END: nothing is returned.  A torn stream      *)
(* gives Z_BUF_ERROR when there is no more of it.                          *)
InflateFails ==
  /\ phase = "gunzip"
  /\ Stream = "corrupt" \/ (Stream = "torn" /\ Output = 0)
  /\ inflated' = 0 /\ phase' = "parse"
  /\ UNCHANGED <<seed, decoder, pos, acc, bits, decoded, present>>

InflateMore ==
  /\ phase = "gunzip"
  /\ Stream # "whole" => Output > 0
  /\ Stream = "whole" => Output = Chunk
  /\ inflated' = inflated + Output
  /\ UNCHANGED <<seed, decoder, pos, acc, bits, decoded, phase, present>>

InflateEnds ==
  /\ phase = "gunzip"
  /\ Stream = "whole" /\ inflated + Output = seed.size
  /\ inflated' = seed.size /\ phase' = "parse"
  /\ UNCHANGED <<seed, decoder, pos, acc, bits, decoded, present>>

(* DecodeVariations: an empty text is a failure.                           *)
DecodeVariations ==
  /\ phase = "parse"
  /\ present' = (inflated > 0 /\ seed.parses)
  /\ phase' = "done"
  /\ UNCHANGED <<seed, decoder, pos, acc, bits, decoded, inflated>>

SeedNext ==
  \/ SkipChar \/ TakeChar \/ EndOfText
  \/ InflateFails \/ InflateMore \/ InflateEnds \/ DecodeVariations

(* The decoders run in one thread.                                         *)
SeedSpec == SeedInit /\ [][SeedNext]_seedVars /\ WF_seedVars(SeedNext)

-----------------------------------------------------------------------------
(* The properties.                                                         *)

(* The characters that count: those of the alphabet, for the system        *)
(* profile up to the first padding.                                        *)
IsDigit(d, s, n) == s[n] < Pad /\ (d = "profile" => \A i \in 1 .. n : s[i] # Pad)

DigitsUpTo(d, s, k) ==
  LET upTo[n \in 0 .. k] ==
        IF n = 0 THEN <<>> ELSE upTo[n - 1] \o (IF IsDigit(d, s, n) THEN <<s[n]>> ELSE <<>>)
  IN  upTo[k]

Digits(d, s) == DigitsUpTo(d, s, Len(s))

(* The digits ds begin with the bits of the bytes bs.                      *)
Carries(ds, bs) ==
  /\ 8 * Len(bs) <= 6 * Len(ds)
  /\ \A k \in 0 .. 8 * Len(bs) - 1 : BitOf(bs, 8, k) = BitOf(ds, 6, k)

(* Base64Decode, with an accumulator nobody ever clears: the bits that     *)
(* come out are those that went in, all of them that make up bytes, for a  *)
(* text of any length, with blanks or without.                             *)
Base64IsExact ==
  phase # "base64" =>
    LET ds == Digits(decoder, seed.text)
    IN  Len(decoded) = (6 * Len(ds)) \div 8 /\ Carries(ds, decoded)

(* DecodeVariations: the summary is there when the whole seed has come     *)
(* through, never for a part of one.                                       *)
SeedIsAllOrNothing ==
  phase = "done" /\ decoder = "variations" =>
    (present <=> /\ Carries(Digits(decoder, seed.text), seed.bytes)
                 /\ seed.stream = "whole" /\ seed.size > 0 /\ seed.parses)

(* A seed that is torn or damaged does not keep Gunzip for ever.           *)
SeedEnds == <>(phase = "done")
=============================================================================
