------------------------------ MODULE MCSession ------------------------------
(* Model-checking instances of Session.                                    *)
EXTENDS Session

CONSTANTS c1, c2

TwoChannels == {c1, c2}
Both        == {{c1, c2}}

OneChannel == {c1}
OnlyOne    == {{c1}}
=============================================================================
