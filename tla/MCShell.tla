------------------------------ MODULE MCShell -------------------------------
(* Two letters make all the words; messages are one character long.          *)
EXTENDS Shell

HaltWord == <<"x", "x">>
WorkWord == <<"x">>
GraphtestWord == <<"x", "y">>
RunWord == <<"y">>
FileNames == {<<"x">>}
=============================================================================
