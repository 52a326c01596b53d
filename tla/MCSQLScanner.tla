---------------------------- MODULE MCSQLScanner ----------------------------
(* SQLScanner for the texts that some beginnings grow into by pieces that      *)
(* open, close, separate, quote and comment.                                  *)
EXTENDS SQLScanner, TLC

SomePieces ==
    {<<"'">>, <<"\\">>, <<"\n">>, <<"\r">>, <<"-", "-">>, <<"(">>, <<")">>, <<",">>,
     <<";">>, <<"?">>, <<"k">>, <<"/", "*">>, <<"*", "/">>}

\* The last begins with a comment that the two scans see end differently.
Few ==
    {<<>>, <<"(", "?">>, <<"(", "k", "-", "-">>, <<"(", "/", "*">>,
     <<"(", "k", "-", "-", "\r", "'">>}
=============================================================================
