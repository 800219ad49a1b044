----------------------------- MODULE KeyRanges -----------------------------
(***************************************************************************)
(* Index lookups: the order-preserving key encoding (engine/keycodec.go)    *)
(* and the key intervals of SQL ranges (engine/ranges.go, LookupPartitions  *)
(* in engine/catalog.go).                                                   *)
(*                                                                         *)
(* A byte is a number up to Top, which is 255 in the code; an integer has   *)
(* Width bytes instead of 8, a collation weight and a decimal exponent also *)
(* fewer.  Decimals have digits below Radix instead of 10.                  *)
(***************************************************************************)
EXTENDS Integers, SequencesExt, FiniteSetsExt

CONSTANTS
  Top,
  Width,
  Radix,
  Space,       \* the byte that CHAR values lose at their end
  Weight,      \* collation weight of every rune, a function
  Layouts,     \* the keys to look at: column types, primary or index, unique
  Domain(_),   \* the values of a type that rows hold
  Bounds(_),   \* those that ranges mention
  Null,
  Nil,
  MaxRanges    \* bound on the ranges of one lookup

Base == Top + 1

ASSUME CodecAssumption ==
  /\ Top \in Nat /\ Width \in Nat \ {0} /\ Radix \in Nat
  /\ Top >= 3 /\ Base % 2 = 0 /\ Radix >= 2 /\ Radix < Top
  /\ Space \in 1..Top
  /\ MaxRanges \in Nat

VARIABLES
  layout,     \* the key that the lookup is on
  ranges,     \* the lookup's ranges, as column expressions
  partition   \* what LookupPartitions makes of them

vars == <<layout, ranges, partition>>

\* The tuples whose i-th element is in the i-th set.
Tuples(sets) ==
  FoldLeft(LAMBDA acc, S : {Append(t, x) : t \in acc, x \in S}, {<<>>}, sets)

\* bytes.Compare, as -1, 0 or 1.
Compare(a, b) ==
  LET differ == {i \in DOMAIN a \cap DOMAIN b : a[i] # b[i]}
      sign(x, y) == IF x < y THEN -1 ELSE IF x = y THEN 0 ELSE 1
  IN IF differ = {} THEN sign(Len(a), Len(b))
     ELSE sign(a[Min(differ)], b[Min(differ)])

-----------------------------------------------------------------------------
(* Key encoding.                                                            *)

BigEndian(n, width) == [i \in 1..width |-> (n \div Base^(width - i)) % Base]

\* 1 << 63 and its like: the sign bit.
SignBit(width) == Base^width \div 2

\* Seeded fault: an escaped zero byte is followed by a low byte.
appendEscapedLow(b) ==
  FlattenSeq([i \in 1..Len(b) |-> IF b[i] = 0 THEN <<0, 0>> ELSE <<b[i]>>]) \o <<0, 1>>

\* Zero bytes are escaped and a terminator follows.
appendEscaped(b) ==
  FlattenSeq([i \in 1..Len(b) |-> IF b[i] = 0 THEN <<0, Top>> ELSE <<b[i]>>]) \o <<0, 1>>

TrimRight(s) ==
  LET kept == {i \in 1..Len(s) : s[i] # Space}
  IN SubSeq(s, 1, IF kept = {} THEN 0 ELSE Max(kept))

\* appendStringKey: bytes, or the weights of a collation.
appendStringKey(type, s) ==
  CASE type = "binary" -> appendEscaped(s)
    [] type = "char" -> appendEscaped(TrimRight(s))
    [] type = "collated" ->
         appendEscaped(FlattenSeq([i \in 1..Len(s) |-> BigEndian(Weight[s[i]] + SignBit(2), 2)]))

\* IEEE bits: a sign and a magnitude; -0 is normalized.
FloatBits(f) ==
  IF f.neg /\ f.mag # 0 THEN Base^Width - 1 - (SignBit(Width) + f.mag)
  ELSE SignBit(Width) + f.mag

\* The digits of a coefficient above 0.
Digits(c) ==
  LET len == CHOOSE l \in 1..c : Radix^(l - 1) <= c /\ c < Radix^l
  IN [i \in 1..len |-> (c \div Radix^(len - i)) % Radix]

\* 0.d1...dn x Radix^exp without trailing zeros, inverted below zero.
appendDecimalKey(d) ==
  LET digits == Digits(d.coeff)
      last == Max({i \in 1..Len(digits) : digits[i] # 0})
      body == BigEndian(d.exp + Len(digits) + SignBit(Width), Width)
                \o [i \in 1..last |-> digits[i] + 1] \o <<0>>
  IN IF d.coeff = 0 THEN <<2>>
     ELSE IF d.neg THEN <<1>> \o [i \in 1..Len(body) |-> Top - body[i]]
     ELSE <<3>> \o body

appendKeyColumn(type, v) ==
  CASE type = "signed" -> BigEndian(v + SignBit(Width), Width)
    [] type = "unsigned" -> BigEndian(v, Width)
    [] type = "float" -> BigEndian(FloatBits(v), Width)
    [] type = "decimal" -> appendDecimalKey(v)
    [] OTHER -> appendStringKey(type, v)

\* A column of an index key: a marker, and the value unless it is NULL.
IndexColumn(type, v) == IF v = Null THEN <<0>> ELSE <<1>> \o appendKeyColumn(type, v)

\* The rows of a layout: its columns and, for an index, a primary key.
Rows ==
  [cols : Tuples([i \in 1..Len(layout.types) |->
                    Domain(layout.types[i]) \cup (IF layout.index THEN {Null} ELSE {})]),
   pk : IF layout.index THEN {0, 1} ELSE {0}]

HasNull(row) == \E i \in DOMAIN row.cols : row.cols[i] = Null

\* encodeKey, or encodeIndexKey.
Key(row) ==
  IF ~layout.index
  THEN FlattenSeq([i \in DOMAIN row.cols |-> appendKeyColumn(layout.types[i], row.cols[i])])
  ELSE FlattenSeq([i \in DOMAIN row.cols |-> IndexColumn(layout.types[i], row.cols[i])])
         \o (IF HasNull(row) \/ ~layout.unique THEN BigEndian(row.pk, Width) ELSE <<>>)


\* The first key above all keys with the prefix, or Nil.
keyPrefixEnd(prefix) ==
  LET below == {i \in DOMAIN prefix : prefix[i] # Top}
  IN IF below = {} THEN Nil
     ELSE [SubSeq(prefix, 1, Max(below)) EXCEPT ![Max(below)] = @ + 1]

-----------------------------------------------------------------------------
(* Ranges: a column expression is a lower and an upper cut.                 *)

BelowNull == [at |-> "belowNull"]
AboveNull == [at |-> "aboveNull"]
AboveAll == [at |-> "aboveAll"]
Below(v) == [at |-> "below", key |-> v]
Above(v) == [at |-> "above", key |-> v]

isAllColumn(col) ==
  /\ col.upper = AboveAll
  /\ col.lower = BelowNull \/ (col.lower = AboveNull /\ ~layout.index)

isPointColumn(col) ==
  IF col.lower = BelowNull THEN col.upper = AboveNull
  ELSE /\ col.lower.at = "below" /\ col.upper.at = "above"
       /\ col.lower.key = col.upper.key

\* Points, then at most one ranged column, then only unconstrained ones.
rangeShapeSupported(r) ==
  \A i \in 1..Len(r), j \in 1..Len(r) :
    i < j /\ (isAllColumn(r[i]) \/ ~isPointColumn(r[i])) => isAllColumn(r[j])

appendBoundValue(prefix, type, v) ==
  prefix \o (IF layout.index THEN <<1>> ELSE <<>>) \o appendKeyColumn(type, v)

nullMarker(prefix, marker) == IF layout.index THEN Append(prefix, marker) ELSE prefix

\* A nil slice as the end of an interval is no end.
AsEnd(key) == IF key = <<>> THEN Nil ELSE key

\* Nil: no key follows the bound, so that the range is empty.
lowerCutKey(prefix, type, cut) ==
  CASE cut.at = "belowNull" -> nullMarker(prefix, 0)
    [] cut.at = "aboveNull" -> nullMarker(prefix, 1)
    [] cut.at = "below" -> appendBoundValue(prefix, type, cut.key)
    [] cut.at = "above" -> keyPrefixEnd(appendBoundValue(prefix, type, cut.key))
    [] cut.at = "aboveAll" -> keyPrefixEnd(prefix)

upperCutKey(prefix, type, cut) ==
  CASE cut.at = "aboveAll" -> keyPrefixEnd(prefix)
    [] cut.at = "below" -> appendBoundValue(prefix, type, cut.key)
    [] cut.at = "above" -> keyPrefixEnd(appendBoundValue(prefix, type, cut.key))
    [] cut.at = "aboveNull" -> AsEnd(nullMarker(prefix, 1))
    [] cut.at = "belowNull" -> AsEnd(nullMarker(prefix, 0))

\* The point columns in front, encoded.
PointPrefix(r, n) ==
  FlattenSeq([i \in 1..n |->
    IF r[i].lower = BelowNull THEN <<0>>
    ELSE appendBoundValue(<<>>, layout.types[i], r[i].lower.key)])

\* The interval of a range, or Nil when it selects nothing.
rangeInterval(r) ==
  LET stops == {i \in 1..Len(r) : isAllColumn(r[i]) \/ ~isPointColumn(r[i])}
      n == IF stops = {} THEN Len(r) ELSE Min(stops) - 1
      prefix == PointPrefix(r, n)
      start == lowerCutKey(prefix, layout.types[n + 1], r[n + 1].lower)
      end == upperCutKey(prefix, layout.types[n + 1], r[n + 1].upper)
  IN IF ~layout.index /\ \E i \in 1..n : r[i].lower = BelowNull THEN Nil
     ELSE IF stops = {} \/ isAllColumn(r[n + 1])
     THEN [start |-> prefix, end |-> keyPrefixEnd(prefix)]
     ELSE IF start = Nil THEN Nil
     ELSE [start |-> start, end |-> end]

empty(iv) == iv.end # Nil /\ Compare(iv.start, iv.end) >= 0

contains(iv, key) ==
  Compare(key, iv.start) >= 0 /\ (iv.end = Nil \/ Compare(key, iv.end) < 0)

\* One more interval, in the order of their starts.
Merged(out, iv) ==
  LET last == Last(out)
  IN IF out = <<>> THEN <<iv>>
     ELSE IF last.end # Nil /\ Compare(iv.start, last.end) > 0 THEN Append(out, iv)
     ELSE IF last.end # Nil /\ (iv.end = Nil \/ Compare(iv.end, last.end) > 0)
     THEN [out EXCEPT ![Len(out)].end = iv.end]
     ELSE out

mergeIntervals(in) ==
  FoldLeft(Merged, <<>>, SortSeq(in, LAMBDA a, b : Compare(a.start, b.start) < 0))

rangeIntervals(rs) ==
  LET all == [i \in 1..Len(rs) |-> rangeInterval(rs[i])]
  IN mergeIntervals(SelectSeq(all, LAMBDA iv : iv # Nil /\ ~empty(iv)))

\* Every column of every range is a point other than NULL.
allFullPointRanges(rs) ==
  \A i \in 1..Len(rs) :
    /\ Len(rs[i]) = Len(layout.types)
    /\ \A j \in 1..Len(rs[i]) : rs[i][j].lower # BelowNull /\ isPointColumn(rs[i][j])

lookupPrimaryPartitions(rs) ==
  SetToSortSeq({PointPrefix(rs[i], Len(rs[i])) : i \in 1..Len(rs)},
               LAMBDA a, b : Compare(a, b) < 0)

LookupPartitions(rs) ==
  IF ~layout.index /\ allFullPointRanges(rs)
  THEN [points |-> lookupPrimaryPartitions(rs), intervals |-> <<>>]
  ELSE [points |-> <<>>, intervals |-> rangeIntervals(rs)]

-----------------------------------------------------------------------------
(* What SQL means by values, cuts and ranges.                               *)

\* A value as a sequence of numbers whose order is the order of the type.
Meaning(type, v) ==
  CASE type \in {"signed", "unsigned"} -> <<v>>
    [] type = "float" -> <<IF v.neg THEN -v.mag ELSE v.mag>>
    [] type = "decimal" -> <<(IF v.neg THEN -1 ELSE 1) * v.coeff * Radix^(v.exp + 2)>>
    [] type = "binary" -> v
    [] type = "char" -> TrimRight(v)
    [] type = "collated" -> [i \in 1..Len(v) |-> Weight[v[i]]]

\* The order of two values, of which NULL is the first.
CompareValues(type, a, b) ==
  CASE a = Null /\ b = Null -> 0
    [] a = Null /\ b # Null -> -1
    [] a # Null /\ b = Null -> 1
    [] OTHER -> Compare(Meaning(type, a), Meaning(type, b))

\* Whether a value lies above a cut.
IsAbove(type, v, cut) ==
  CASE cut.at = "belowNull" -> TRUE
    [] cut.at = "aboveNull" -> v # Null
    [] cut.at = "below" -> v # Null /\ CompareValues(type, v, cut.key) >= 0
    [] cut.at = "above" -> v # Null /\ CompareValues(type, v, cut.key) > 0
    [] cut.at = "aboveAll" -> FALSE

Selects(r, row) ==
  \A i \in 1..Len(r) : /\ IsAbove(layout.types[i], row.cols[i], r[i].lower)
                       /\ ~IsAbove(layout.types[i], row.cols[i], r[i].upper)

Cuts(type) ==
  {BelowNull, AboveNull, AboveAll} \cup {Below(v) : v \in Bounds(type)}
    \cup {Above(v) : v \in Bounds(type)}

\* Column expressions that some value satisfies, and the empty one.
Expressions(type) ==
  {[lower |-> AboveAll, upper |-> AboveAll]} \cup
  {c \in [lower : Cuts(type), upper : Cuts(type)] :
     \E v \in Domain(type) \cup {Null} : IsAbove(type, v, c.lower) /\ ~IsAbove(type, v, c.upper)}

-----------------------------------------------------------------------------

Init ==
  /\ layout \in Layouts
  /\ ranges = <<>>
  /\ partition = LookupPartitions(<<>>)

\* A lookup with one range more, of a shape that CanSupport accepts.
AddRange ==
  /\ Len(ranges) < MaxRanges
  /\ \E n \in 1..Len(layout.types) :
       \E r \in Tuples([i \in 1..n |-> Expressions(layout.types[i])]) :
         /\ rangeShapeSupported(r)
         /\ ranges' = Append(ranges, r)
         /\ partition' = LookupPartitions(Append(ranges, r))
  /\ UNCHANGED layout

Next == AddRange

Spec == Init /\ [][Next]_vars

-----------------------------------------------------------------------------
(* Properties.                                                              *)

\* The order of two rows: by their columns, then by their primary keys unless
\* a unique index leaves them out.
CompareRows(a, b) ==
  LET differ == {i \in DOMAIN a.cols : CompareValues(layout.types[i], a.cols[i], b.cols[i]) # 0}
      i == Min(differ)
  IN IF differ # {} THEN CompareValues(layout.types[i], a.cols[i], b.cols[i])
     ELSE IF ~layout.index \/ (layout.unique /\ ~HasNull(a)) THEN 0
     ELSE Compare(<<a.pk>>, <<b.pk>>)

\* Encoded keys compare like the rows in SQL, columns of several lengths, zero
\* bytes, NULLs, signs and equal values of several forms included ("comparing
\* encoded keys bytewise agrees with SQL order").  Looked at once a layout.
KeysOrdered ==
  ranges = <<>> => \A a, b \in Rows : Compare(Key(a), Key(b)) = CompareRows(a, b)

=============================================================================
