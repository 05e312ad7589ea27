----------------------------- MODULE MCRenderer -----------------------------
(***************************************************************************)
(* An instance of Renderer for TLC.                                        *)
(***************************************************************************)
EXTENDS Renderer

Def(i, t, cs) == [id |-> i, types |-> {t}, children |-> cs, template |-> FALSE,
                  rows |-> <<>>, rowActions |-> <<>>, action |-> FALSE]

\* A page p that is a table or a container, a cell a that is a button or holds
\* one, and a leaf or button b; some definitions make them contain each other,
\* some do not parse.
PageDefs ==
  {[Def("p", "Table", <<"b">>) EXCEPT !.rows = <<<<"b", "a">>, <<"a">>>>, !.rowActions = <<FALSE>>],
   Def("p", "Column", <<"b", "a">>),
   Def("p", "Modal", <<"a", "b">>),
   [Def("p", "Text", <<>>) EXCEPT !.types = {"Text", "Card"}]}
CellDefs ==
  {Def("a", "Row", <<"b", "b">>),
   Def("a", "Tabs", <<"b">>),
   Def("a", "Card", <<"p">>),
   [Def("a", "Row", <<"b">>) EXCEPT !.template = TRUE],
   [Def("a", "List", <<>>) EXCEPT !.template = TRUE],
   [Def("a", "Button", <<"b">>) EXCEPT !.action = TRUE]}
LeafDefs ==
  {[Def("b", "Button", <<>>) EXCEPT !.action = TRUE],
   Def("b", "Unknown", <<>>),
   Def("b", "Card", <<"a">>)}
  \cup {Def("b", t, <<>>) : t \in ParsedTypes}
MCRawDefs == PageDefs \cup CellDefs \cup LeafDefs
=============================================================================
