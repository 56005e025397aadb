------------------------------ MODULE MCSocket ------------------------------
(***************************************************************************)
(* Socket with short messages, for TLC.                                    *)
(***************************************************************************)
EXTENDS Socket

MCByte == {"h", "i", "o", "k", "!", "p", "n", "1", "2"}
MCBanner == <<"h", "i">>
MCAnswers == { << >>, << <<"o">>, <<"k", "!">> >> }
MCLine == <<"p", "i", "n", "1", "2">>
=============================================================================
