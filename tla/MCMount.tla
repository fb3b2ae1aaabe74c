--------------------------------- MODULE MCMount ---------------------------------
(* Instances of Mount for TLC. *)
EXTENDS Mount

\* Two directories, d and e, each with a file f, of which the head shows d and d/f.
InTwo   == {<<"d">>, <<"e">>, <<"d", "f">>, <<"e", "f">>}
OneFile == {<<"d">>, <<"d", "f">>}
Nothing == {}
================================================================================
