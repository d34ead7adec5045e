---------------------------- MODULE MCRowFormat -----------------------------
(***************************************************************************)
(* A small instance of RowFormat: bytes of six values, ints of two bytes   *)
(* (-18 .. 17), row buffers of eight bytes, text buffers of five, three    *)
(* columns.                                                                *)
(***************************************************************************)
EXTENDS RowFormatInv

Named(n, t, s) == [parts |-> 3, name |-> n, type |-> t, size |-> s]
Text(chars) == [type |-> "string", text |-> <<Quote>> \o chars \o <<Quote>>, num |-> 0]
Number(v, digits) == [type |-> "number", text |-> digits, num |-> v]

MCNames == {"id", "a", "b", "along"}
MCKeptName == [n \in MCNames |-> IF n = "along" THEN "a" ELSE n]

(* Lines that describe a column, and lines that are blank or refused; the  *)
(* sum of sizes overflows with the last of them.                           *)
Id == Named("id", "INT", 2)
Blank == [parts |-> 0]
Good == {Id, Named("a", "INT", 2), Named("a", "INT", 1), Named("a", "CHAR", 2),
         Named("b", "CHAR", 5), Named("along", "CHAR", 1)}
Bad == {Blank, [parts |-> 2], Named("b", "OTHER", 2), Named("b", "CHAR", 0),
        Named("b", "CHAR", 17)}
Narrow == {Id, Blank, Named("a", "INT", 1), Named("along", "CHAR", 1)}
MCLines == Good \union Bad

MCSchemas ==
    {<<Id>> \o s : s \in UNION {[1 .. n -> MCLines] : n \in 0 .. 2}}
      \union {<<Id, Id, l, m>> : l \in MCLines, m \in Narrow \union {Named("b", "CHAR", 17)}}
      \union {<<Id, Id>> \o s : s \in [1 .. 3 -> Narrow]}
      \union {<< >>, NoSchema}
MCEdits ==
    {<<Id, Id, Named("a", "CHAR", 2)>>, <<Id, Id>>,
     <<Id, Id, Named("along", "CHAR", 1), Named("a", "INT", 1)>>}

(* 37 becomes 1 in an int, 200 becomes the largest long and then -1, and   *)
(* the last text is cut off before its closing quote.                      *)
One == Number(1, <<3>>)
N37 == Number(37, <<3, 4>>)
N200 == Number(200, <<4, 2, 2>>)
Literals == {One, N37, N200, Text(<< >>), Text(<<1>>), Text(<<1, 2>>), Text(<<1, 2, 1>>)}

MCValueLists ==
    UNION {[1 .. n -> Literals] : n \in 0 .. 2} \union {<<One, One, One>>}

MCLists == {<<"*">>, <<"a">>, <<"b", "id">>, <<"id", "id", "id", "id">>}

If(n, op, l) == [kind |-> "compare", name |-> n, op |-> op, lit |-> l]
In(n, l, u) == [kind |-> "between", name |-> n, lower |-> l, upper |-> u]
MCWheres ==
    {NoWhere}
      \union {If("a", op, One) : op \in {"=", "<", ">="}}
      \union {If("a", op, Text(<<1>>)) : op \in {"!=", "<=", ">"}}
      \union {If("id", "=", l) : l \in {One, N37, N200, Text(<<1>>)}}
      \union {If("b", "=", Text(<<1, 2, 1>>)), If("id", ">", One),
              In("a", One, N37), In("id", One, One), In("a", Text(<<1>>), One),
              In("id", One, Text(<<1>>))}
=============================================================================
