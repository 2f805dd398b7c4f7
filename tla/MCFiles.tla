------------------------------- MODULE MCFiles ------------------------------
(***************************************************************************)
(* Four names for three slots and one that is too long.                    *)
(***************************************************************************)
EXTENDS Files
MCLong == {<<"averylongdirectory">>}
MCNames == {<<"host">>, <<"sd">>, <<"flash">>, <<"ram">>} \cup MCLong
=============================================================================
