------------------------------ MODULE MCSweeper ------------------------------
EXTENDS Sweeper

Digit(n) == <<"digit", n>>
Letter(n) == <<"letter", n>>

\* Votes for three cells, in either order; a row past the last, a message that is too long.
BoardMessages ==
    {<<Letter(0), Digit(1)>>, <<Digit(1), Letter(2)>>, <<Digit(2), Letter(1)>>,
     <<Letter(0), Digit(3)>>, <<Letter(0), Digit(1), Digit(1)>>}

\* The same, a row zero, and a column that is a digit or a sign next to the letters.
AnyMessages == BoardMessages \cup {<<Letter(0), Digit(0)>>, <<Digit(1), Digit(1)>>,
                                   <<Digit(1), <<"other", 64>>>>, <<Digit(1), <<"other", 91>>>>}
=============================================================================
