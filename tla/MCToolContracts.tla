-------------------------- MODULE MCToolContracts --------------------------
(***************************************************************************)
(* Two surfaces and the first one's id with a space; a payload for every   *)
(* kind of line, and those whose failure leaves something behind.          *)
(***************************************************************************)
EXTENDS ToolContracts

CONSTANTS a, b, padded, c1, d1, plain, table, r1

ToolTrim == [i \in IDs |-> IF i = padded THEN a ELSE i]
ToolRows == [v \in Vals \cup {None} |-> IF v = table THEN 1 ELSE 0]

Comp(i, vs) == [kind |-> "surfaceUpdate", id |-> i,
                writes |-> [j \in 1 .. Len(vs) |-> [cell |-> c1, val |-> vs[j]]]]
Data(i) == [kind |-> "dataModelUpdate", id |-> i, writes |-> <<[cell |-> d1, val |-> plain]>>]
Begin(i) == [kind |-> "beginRendering", id |-> i, root |-> r1]
Delete(i) == [kind |-> "deleteSurface", id |-> i]
Fault(k) == [kind |-> k]

ToolBodies == {
  <<Comp(a, <<table>>), Begin(a)>>,
  <<Comp(a, <<plain, Bad>>), Begin(b)>>,
  <<Data(a), Comp(b, <<Bad>>)>>,
  <<Begin(b), Fault("invalid"), Begin(a)>>,
  <<Data(b), Fault("undecodable")>>,
  <<Delete(a), Fault("overlong")>>,
  <<Comp(padded, <<plain>>), Delete(b)>>}
=============================================================================
