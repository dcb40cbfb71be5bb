------------------------------ MODULE MCShell -------------------------------
(* Lines of up to three commands.                                          *)
EXTENDS Shell

Foreground(ops) == [kind |-> "fg", ops |-> ops]
Background == [kind |-> "bg", ops |-> <<>>]
Ampersand == [kind |-> "amp", ops |-> <<>>]

SomeLines == {Foreground(<<>>), Foreground(<<"&&">>), Foreground(<<"&&&">>),
              Foreground(<<"&&&", "&&">>), Foreground(<<"&&", "&&&">>),
              Background, Ampersand}
=============================================================================
