--------------------------- MODULE MCEnvironment ---------------------------
(* A small instance of Environment: two variables, two values of which one *)
(* needs quoting on the remote command line, and the .env files that bring *)
(* out its quoting rules and its limits.                                   *)
EXTENDS Environment

CONSTANTS A, B

x == <<"x">>
y == <<"x", "q">>
Sends(v, hidden) == [value |-> v, secret |-> hidden]

MCNames == {A, B}
MCBodies ==
  {NoEnv} \cup {A :> Sends(v, TRUE) : v \in {x, y, Keep}}
    \cup {A :> Sends(Keep, FALSE), B :> Sends(x, FALSE), B :> Sends(y, FALSE)}
    \cup {A :> Sends(Keep, TRUE) @@ B :> Sends(v, FALSE) : v \in {x, y}}
    \cup {A :> Sends(y, TRUE) @@ B :> Sends(y, FALSE)}

Line(n, text, means) == [pair |-> TRUE, name |-> n, text |-> text, means |-> means]
Nothing(n, text) == Line(n, text, Keep)
Comment == [pair |-> FALSE, name |-> A, text |-> x, means |-> Keep]

\* A value that each spelling has to treat in a way of its own.
Odd == <<"s", "h", "n">>
Escaped == <<"b", "d", "nl">>

MCFiles ==
  [kind : {"regular"},
   lines : {<<>>,
            <<Line(A, Plain(y \o x), y \o x), Line(B, <<"s", "h", "x">>, <<>>)>>,
            <<Line(A, Plain(x), x), Comment, Line(A, Single(Odd), Odd),
              Nothing(A, <<"q", "x">>)>>,
            <<Line(B, Double(Escaped), Escaped), Nothing(B, <<"d", "x", "b">>),
              Nothing(B, <<"q", "x", "q", "x">>)>>,
            <<Line(A, Single(<<"x", "x">>), <<"x", "x">>), Line(B, Plain(x), x),
              Line(B, Double(Odd), Odd)>>}]
    \cup {[kind |-> k, lines |-> <<Line(B, Plain(y), y)>>] : k \in {"link", "large"}}

\* What the lines of these files mean is what their spelling is read as: the
\* hypothesis of SpawnsAreFaithful.
ASSUME FilesAreMeant == \A f \in MCFiles : LinesAreMeant(f)
=============================================================================
