----------------------------- MODULE MCConsole -----------------------------
(* A small instance of Console. *)
EXTENDS ConsoleProperties

\* No words, one, several, and several with the position of a rule.
Bodies == {<<>>, <<"a">>, <<"a", "b">>, <<"a", "1", "c", "d">>}

\* Every command with every type: words are missing, enough or too many ...
Wellformed ==
  {<<c, t, "h1">> \o body : c \in ValidCommands, t \in ValidTypes, body \in Bodies}

\* ... lines that are refused ...
Malformed ==
  { <<"retry", "route", "h1">>, <<"add", "tunnel", "h1", "a">>,
    <<"show", "ip", "h2">>, <<"show", "ip", "h9">>,
    <<"file", "none">>, <<"show", "ip">>, <<"help">>, <<>> }

\* ... and those about files.
MCLines ==
  Wellformed \cup Malformed
    \cup { <<"file", "outer">>, <<"file", "loop">>, <<"file", "stop">>, <<"exit">> }

MCFiles == {"outer", "inner", "loop", "pool", "stop"}

MCContents == [
  outer |-> << <<"show", "rule", "h1">>, <<"file", "inner">>, <<"file", "inner">>,
               <<"add", "rule", "h1", "a">> >>,
  inner |-> << <<"retry", "packet">>, <<"file", "none">> >>,
  loop  |-> << <<"show", "nat", "h1">>, <<"file", "pool">> >>,
  pool  |-> << <<"file", "loop">>, <<"show", "ip", "h1">> >>,
  stop  |-> << <<"exit">>, <<"show", "ip", "h1">> >>]

\* As in Config.txt, with a file, and one that ends the controller.
MCRecords ==
  { <<>>,
    << <<"add", "route", "h1", "a">>, <<"add", "neighbor", "h1", "a", "b", "c">>,
       <<"retry", "packet">> >>,
    << <<"file", "inner">>, <<"drop", "packet">> >>,
    << <<"exit">> >> }

=============================================================================
