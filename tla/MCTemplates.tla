---------------------------- MODULE MCTemplates ----------------------------
(***************************************************************************)
(* Instances of Templates for TLC.                                         *)
(***************************************************************************)
EXTENDS Templates

\* Three lines of one leaf, the middle one close to both others, and a fourth
\* unlike them; one that begins with a number, and one that shares its leaf
\* when it comes after the number, as the node has no child left for it.
Lines == { <<"a", "x", "u">>, <<"a", "y", "u">>, <<"a", "y", "v">>, <<"a", "z", "w">>,
           <<"b", "x", "u">>, <<"7", "x", "u">> }
Tokens == UNION {Range(line) : line \in Lines}
=============================================================================
