------------------------------ MODULE RowCodec ------------------------------
(***************************************************************************)
(* The bytes of a row: how storage.c writes a literal of a statement into  *)
(* a column, reads it back to print it, and compares it with a literal of  *)
(* WHERE.  A row buffer is a sequence of bytes; offset o of the code is    *)
(* the element o + 1.  The sizes of the machine are parameters, so that    *)
(* every limit can be reached: an int has IntBytes bytes of Base values,   *)
(* a long ends at LongMax, a char temp[] has TempSize elements.            *)
(***************************************************************************)
EXTENDS Integers, Sequences, SequencesExt

CONSTANTS
    Base,           \* values of a byte (256)
    IntBytes,       \* sizeof(int) (4)
    LongMax,        \* LONG_MAX
    TempSize,       \* the length of the text buffers (256)
    MaxRowSize,     \* MAX_ROW_SIZE (1024)
    Quote           \* the byte of a single quote

ASSUME MachineAssumption ==
    /\ Base \in Nat /\ Base > 1 /\ Base % 2 = 0
    /\ IntBytes \in Nat /\ IntBytes > 0
    /\ TempSize \in Nat /\ TempSize > 1
    /\ MaxRowSize \in Nat /\ MaxRowSize >= IntBytes
    /\ Quote \in 1 .. Base - 1

Bytes == 0 .. Base - 1

(* Power[n] is the number of values of n bytes, Base ^ n.                  *)
Power[n \in 0 .. IntBytes] == IF n = 0 THEN 1 ELSE Base * Power[n - 1]
IntMax == Power[IntBytes] \div 2 - 1

ASSUME LongAssumption == LongMax \in Nat /\ LongMax >= IntMax

(* The text of a C string ends at its first zero byte.                     *)
CString(s) ==
    LET end == CHOOSE n \in 0 .. Len(s) :
                 /\ \A i \in 1 .. n : s[i] # 0
                 /\ n < Len(s) => s[n + 1] = 0
    IN  SubSeq(s, 1, end)

Least(a, b) == IF a < b THEN a ELSE b

-----------------------------------------------------------------------------
(* Literals.  A number carries its value besides its text, a string is     *)
(* kept with its quotes, as the lexer leaves it.                           *)

EncodeInt(v) == [i \in 1 .. IntBytes |-> (v \div Power[i - 1]) % Base]

DecodeInt(b) ==
    LET sum[i \in 0 .. IntBytes] ==
          IF i = 0 THEN 0 ELSE sum[i - 1] + b[i] * Power[i - 1]
    IN  IF sum[IntBytes] > IntMax THEN sum[IntBytes] - Power[IntBytes]
        ELSE sum[IntBytes]

(* strtol stops at the ends of a long.                                     *)
ToLong(v) == IF v > LongMax THEN LongMax
             ELSE IF v < -LongMax - 1 THEN -LongMax - 1 ELSE v

(* The cast of that long to int keeps the low bytes.                       *)
IntValue(lit) == DecodeInt(EncodeInt(ToLong(lit.num)))

(* snprintf into a buffer of TempSize.                                     *)
Copied(text) == SubSeq(text, 1, Least(Len(text), TempSize - 1))

(* A defect for comparison: only the opening quote is looked at.           *)
StripOpening(text) ==
    IF Len(text) >= 2 /\ text[1] = Quote THEN Tail(text) ELSE text

StripQuotes(text) ==
    IF Len(text) >= 2 /\ text[1] = Quote /\ text[Len(text)] = Quote
      THEN SubSeq(text, 2, Len(text) - 1) ELSE text

-----------------------------------------------------------------------------
(* Writing.                                                                *)

Fits(col, n) == 0 <= col.offset /\ col.offset + n <= MaxRowSize

Overwrite(row, offset, bytes) ==
    [i \in 1 .. Len(row) |->
        IF i \in offset + 1 .. offset + Len(bytes) THEN bytes[i - offset]
        ELSE row[i]]

Zeros(n) == [i \in 1 .. n |-> 0]

CharText(lit) ==
    IF lit.type = "string" THEN StripQuotes(Copied(lit.text))
    ELSE Copied(lit.text)

PaddedBytes(col, lit) == CharText(lit) \o Zeros(col.size - Len(CharText(lit)))

(* A defect for comparison: a text may be as long as the buffer.           *)
AcceptsAnyLength(col, lit) ==
    IF col.type = "INT" THEN lit.type = "number"
    ELSE Len(CharText(lit)) < TempSize

(* What write_value accepts, and the bytes it writes.                      *)
Accepts(col, lit) ==
    IF col.type = "INT" THEN lit.type = "number"
    ELSE Len(CharText(lit)) <= col.size

ValueBytes(col, lit) ==
    IF col.type = "INT" THEN EncodeInt(IntValue(lit)) ELSE PaddedBytes(col, lit)

-----------------------------------------------------------------------------
(* Reading.  print_column_value prints an int as a number and a CHAR column *)
(* as the text extract_char_value takes out of it.                         *)

ReadInt(row, col) == DecodeInt(SubSeq(row, col.offset + 1, col.offset + IntBytes))

ReadChar(row, col) ==
    CString(SubSeq(row, col.offset + 1,
                   col.offset + Least(col.size, TempSize - 1)))

(* An int counts its IntBytes whatever the size of its column.             *)
ReadsWithin(col) == Fits(col, IF col.type = "INT" THEN IntBytes ELSE col.size)

Cell(row, col) ==
    IF col.type = "INT" THEN [int |-> ReadInt(row, col)]
    ELSE [char |-> ReadChar(row, col)]

-----------------------------------------------------------------------------
(* Comparing: compare_ints, compare_strings and row_matches_where.         *)

IntOrder(l, r) == IF l < r THEN -1 ELSE IF l = r THEN 0 ELSE 1

Precedes(s, t) ==
    \E i \in 1 .. Len(t) :
        /\ \A j \in 1 .. i - 1 : j <= Len(s) /\ s[j] = t[j]
        /\ i > Len(s) \/ s[i] < t[i]
TextOrder(s, t) == IF s = t THEN 0 ELSE IF Precedes(s, t) THEN -1 ELSE 1

Compare(order, op) ==
    \/ op = "="  /\ order = 0
    \/ op = "!=" /\ order # 0
    \/ op = ">"  /\ order > 0
    \/ op = ">=" /\ order >= 0
    \/ op = "<"  /\ order < 0
    \/ op = "<=" /\ order <= 0

(* The first column with the name, 0 when there is none.                   *)
FindColumn(columns, name) ==
    LET found == {i \in DOMAIN columns : columns[i].name = name}
    IN  IF found = {} THEN 0 ELSE CHOOSE i \in found : \A j \in found : i <= j

(* A WHERE that any row makes fail: no such column, or a bound or a value  *)
(* of the wrong type.                                                      *)
WhereFails(columns, where) ==
    /\ where.kind # "none"
    /\ LET i == FindColumn(columns, where.name)
       IN  \/ i = 0
           \/ /\ i # 0 /\ where.kind = "between"
              /\ \/ columns[i].type # "INT"
                 \/ where.lower.type # "number" \/ where.upper.type # "number"
           \/ /\ i # 0 /\ where.kind = "compare"
              /\ columns[i].type = "INT" /\ where.lit.type # "number"

(* A defect for comparison: the upper bound is excluded.                   *)
BetweenOpen(n, where) == IntValue(where.lower) <= n /\ n < IntValue(where.upper)
Between(n, where) == IntValue(where.lower) <= n /\ n <= IntValue(where.upper)

Matches(columns, row, where) ==
    where.kind # "none" =>
      LET col == columns[FindColumn(columns, where.name)]
      IN  IF where.kind = "between" THEN Between(ReadInt(row, col), where)
          ELSE IF col.type = "INT"
            THEN Compare(IntOrder(ReadInt(row, col), IntValue(where.lit)), where.op)
          ELSE Compare(TextOrder(ReadChar(row, col),
                                 StripQuotes(Copied(where.lit.text))), where.op)
=============================================================================
