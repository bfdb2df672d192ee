------------------------------ MODULE MCTable ------------------------------
(* A small instance of Table. *)
EXTENDS Table

\* Like the file the system comes with: a reserved number, a table of the
\* system, and a comment that names two tables.
MCLines ==
  << Line(0, <<"a">>), Line(2, <<"b">>), [id |-> NoId, words |-> <<"c", "b">>] >>

\* Names alone, one of them a number, and behind another word; and nothing.
MCBodies == {<<>>, <<"a">>, <<"b">>, <<"c">>, <<"2">>, <<"a", "c">>}

=============================================================================
