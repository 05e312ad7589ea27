------------------------------ MODULE MCServer ------------------------------
(***************************************************************************)
(* An instance of Server for TLC.                                          *)
(***************************************************************************)
EXTENDS Server

\* Pages as the template renders them: of markup only, with a text value that has a
\* blank line before a line of data, and with one that names an event before.
PageMessages == {<<"", "markup">>, <<"", "markup", "", "data: x">>,
                 <<"", "event: x", "data: x", "", "markup">>}
=============================================================================
