--------------------------- MODULE MCAnnotationPatch ---------------------------
(* Bounded instance of AnnotationPatch for TLC: a key with a slash, the key *)
(* its escape looks like, and a plain one.                                 *)
EXTENDS AnnotationPatch

MCKeys == {<<"a", "/", "b">>, <<"a", "~", "1", "b">>, <<"c">>}
MCValues == {"", "x", "y"}
=============================================================================
