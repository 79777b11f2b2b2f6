----------------------------- MODULE MCTerminal ------------------------------
EXTENDS Terminal, TLC

\* A row is full within a text, with its last character, and by a handler.
MCTexts ==
    [hello |-> {<<"h", Newline>>},
     opened |-> {<<"o">>},
     buf |-> {<<"b">>, <<"b", "g">>},
     fseek |-> {<<Newline>>},
     blank |-> {<<Newline>>},
     closed |-> {<<"c">>}]

MCKeyText == <<"K", Newline>>

\* The keyboard twice and the disk, a line of the slave, once.
MCRequests == (Keyboard :> 2) @@ (14 :> 1)
=============================================================================
