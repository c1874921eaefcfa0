---------------------------- MODULE RecordCodec -----------------------------
(***************************************************************************)
(* The compressed record of one block (protocol/iq_record.cpp): encode,    *)
(* inspect and decode, on blocks that grow pair by pair.  The payload is a *)
(* sequence of bits; the checksums hold what they are sums of, so they     *)
(* find every damage.                                                      *)
(***************************************************************************)
EXTENDS Integers, Sequences, SequencesExt, FiniteSetsExt

CONSTANTS Width,            \* bits of a component (10)
          MaxQuotient,      \* kMaxRiceQuotient (15)
          BlockPairs,       \* IQR_BLOCK_PAIRS (1024)
          UnitBits,         \* payloads are padded to units of 16 bits
          Pairs             \* bound: the pairs of the blocks tried

Lowest == -(2 ^ (Width - 1))
Highest == 2 ^ (Width - 1) - 1
Components == Lowest .. Highest

VARIABLE block
CodecInit == block = <<>>
AddPair == Len(block) < BlockPairs /\ \E pair \in Pairs : block' = Append(block, pair)

Modes == {"raw", "min", "center", "delta"}

-----------------------------------------------------------------------------
(* Arithmetic on components, and the Rice code.                            *)
Wrap(x) == ((x - Lowest) % (2 ^ Width)) + Lowest
Zigzag(x) == IF x < 0 THEN -2 * x - 1 ELSE 2 * x
Unzigzag(z) == IF z % 2 = 1 THEN -((z + 1) \div 2) ELSE z \div 2
BitWidth(x) == CHOOSE n \in 0 .. Width : x < 2 ^ n /\ \A i \in 0 .. n - 1 : x >= 2 ^ i
Truncated(a, n) == IF a < 0 THEN -((-a) \div n) ELSE a \div n

Bits(value, n) == [i \in 1 .. n |-> (value \div (2 ^ (i - 1))) % 2]
Value(bits) == FoldLeftDomain(LAMBDA sum, i : sum + bits[i] * 2 ^ (i - 1), 0, bits)
Zeros(n) == [i \in 1 .. n |-> 0]

EscapesLate(q) == q > MaxQuotient       \* mutant: one quotient too late
Escapes(q) == q >= MaxQuotient
Rice(z, k) ==
    LET q == (z \div (2 ^ k))
    IN  IF Escapes(q) THEN Zeros(MaxQuotient) \o <<1>> \o Bits(z, Width)
        ELSE Zeros(q) \o <<1>> \o Bits(z, k)
EscapeBits == MaxQuotient + 1 + Width
RiceBits(z, k) == IF Escapes((z \div (2 ^ k))) THEN EscapeBits ELSE (z \div (2 ^ k)) + 1 + k

-----------------------------------------------------------------------------
(* encode: the header of every mode for a block, the mode with the fewest  *)
(* units, and its payload, I before Q.                                     *)
Column(pairs, c) == [j \in DOMAIN pairs |-> pairs[j][c]]
Previous(column, j, base) == IF j = 1 THEN base ELSE column[j - 1]
Predicted(mode, column, j, base) == IF mode = "delta" THEN Previous(column, j, base) ELSE base
Residual(mode, column, j, base) == Zigzag(Wrap(column[j] - Predicted(mode, column, j, base)))

Sum(values) == FoldLeft(LAMBDA a, b : a + b, 0, values)
Base(mode, column) ==
    CASE mode = "raw"    -> 0
      [] mode = "min"    -> Min(ToSet(column))
      [] mode = "center" -> IF Len(column) = BlockPairs THEN Truncated(Sum(column), Len(column)) ELSE 0
      [] mode = "delta"  -> column[1]

Cost(mode, column, k) ==
    CASE mode = "raw" -> Width * Len(column)
      [] mode = "min" -> k * Len(column)
      [] OTHER -> Sum([j \in DOMAIN column |-> RiceBits(Residual(mode, column, j, Base(mode, column)), k)])
(* best_rice: the first of the cheapest parameters. *)
Parameter(mode, column) ==
    CASE mode = "raw" -> 0
      [] mode = "min" -> BitWidth(Max(ToSet(column)) - Min(ToSet(column)))
      [] OTHER -> CHOOSE k \in 0 .. Width - 1 :
                      /\ \A l \in 0 .. Width - 1 : Cost(mode, column, k) <= Cost(mode, column, l)
                      /\ \A l \in 0 .. k - 1 : Cost(mode, column, k) < Cost(mode, column, l)

PaddedUnits(bits) == (bits + UnitBits - 1) \div UnitBits
Header(mode, pairs) ==
    LET of(Choice(_, _)) == [c \in 1 .. 2 |-> Choice(mode, Column(pairs, c))]
        k == of(Parameter)
    IN  [mode |-> mode, count |-> Len(pairs), k |-> k, base |-> of(Base), crc |-> pairs,
         bits |-> Cost(mode, Column(pairs, 1), k[1]) + Cost(mode, Column(pairs, 2), k[2])]

Preferred == <<"raw", "min", "center", "delta">>
BestMode(pairs) ==
    LET units == [i \in 1 .. 4 |-> PaddedUnits(Header(Preferred[i], pairs).bits)]
    IN  Preferred[Min({i \in 1 .. 4 : \A j \in 1 .. 4 : units[i] <= units[j]})]

Code(h, pairs, j, c) ==
    CASE h.mode = "raw" -> Bits(pairs[j][c], Width)
      [] h.mode = "min" -> Bits(pairs[j][c] - h.base[c], h.k[c])
      [] OTHER -> Rice(Residual(h.mode, Column(pairs, c), j, h.base[c]), h.k[c])
(* A record longer than IQR_MAX_RECORD_BYTES, the longest RAW one, does not
   fit and is refused. *)
Encode(pairs, mode) ==
    LET h == Header(mode, pairs)
        payload == FlattenSeq([i \in 1 .. 2 * Len(pairs) |-> Code(h, pairs, (i + 1) \div 2, 2 - (i % 2))])
    IN  [h |-> h, payload |-> payload \o Zeros(PaddedUnits(h.bits) * UnitBits - Len(payload)),
         fits |-> PaddedUnits(h.bits) <= PaddedUnits(2 * Width * BlockPairs)]

-----------------------------------------------------------------------------
(* inspect: what a header must be like.                                    *)
Inspected(h) ==
    /\ h.count \in 1 .. BlockPairs /\ h.bits <= 2 * EscapeBits * h.count
    /\ \A c \in 1 .. 2 : /\ h.base[c] \in Components
                         /\ h.k[c] <= IF h.mode \in {"center", "delta"} THEN Width - 1 ELSE Width
    /\ h.mode = "raw" => h.bits = 2 * Width * h.count /\ h.k = <<0, 0>> /\ h.base = <<0, 0>>
    /\ h.mode = "min" => h.bits = h.count * (h.k[1] + h.k[2])

(* BitReader: what take and rice return at a place of the payload, and the
   place after it. *)
Failed == [value |-> 0, at |-> -1]
TakeBits(r, at, n) ==
    IF at < 0 \/ at + n > r.h.bits THEN Failed
    ELSE [value |-> Value(SubSeq(r.payload, at + 1, at + n)), at |-> at + n]
TakeRice(r, at, k) ==
    LET ends == {q \in 0 .. MaxQuotient : at + q < r.h.bits /\ r.payload[at + q + 1] = 1}
        q    == Min(ends)
        low  == TakeBits(r, at + q + 1, IF q = MaxQuotient THEN Width ELSE k)
        z    == IF q = MaxQuotient THEN low.value ELSE q * 2 ^ k + low.value
    IN  IF at < 0 \/ ends = {} \/ z >= 2 ^ Width THEN Failed ELSE [low EXCEPT !.value = z]

(* One component: its value and the place after it. *)
Component(r, at, c, previous) ==
    LET h == r.h IN
    CASE h.mode = "raw" -> LET t == TakeBits(r, at, Width) IN [t EXCEPT !.value = Wrap(@)]
      [] h.mode = "min" -> LET t == TakeBits(r, at, h.k[c])
                           IN  IF h.base[c] + t.value > Highest THEN Failed ELSE [t EXCEPT !.value = @ + h.base[c]]
      [] OTHER -> LET t == TakeRice(r, at, h.k[c])
                      from == IF h.mode = "delta" THEN previous ELSE h.base[c]
                  IN  [t EXCEPT !.value = Wrap(from + Unzigzag(@))]

(* decode, component by component: <<last I, last Q>>, the pairs so far and
   the place in the payload. *)
Decode(r) ==
    LET read[i \in 0 .. 2 * r.h.count] ==
            IF i = 0 THEN [last |-> r.h.base, pairs |-> <<>>, at |-> 0]
            ELSE LET before == read[i - 1]
                     c == 2 - (i % 2)
                     t == Component(r, before.at, c, before.last[c])
                     last == [before.last EXCEPT ![c] = t.value]
                 IN  [last |-> last, at |-> t.at,
                      pairs |-> IF c = 2 THEN Append(before.pairs, last) ELSE before.pairs]
        end == read[2 * r.h.count]
    IN  IF /\ Inspected(r.h) /\ Len(r.payload) = PaddedUnits(r.h.bits) * UnitBits
           /\ end.at = r.h.bits /\ \A i \in end.at + 1 .. Len(r.payload) : r.payload[i] = 0
           /\ end.pairs = r.h.crc
        THEN end.pairs ELSE <<>>

-----------------------------------------------------------------------------
(* Every block comes back from the record made of it, in every mode in     *)
(* which it fits.  The mode chosen always fits and is no longer than RAW,  *)
(* which is what Encoder assumes of the scoring.                           *)
CodecExact ==
    block # <<>> =>
        /\ \A mode \in Modes : LET r == Encode(block, mode) IN r.fits => Decode(r) = block
        /\ LET best == Encode(block, BestMode(block))
           IN  best.fits /\ best.h.bits <= 2 * Width * Len(block)
=============================================================================
