---------------------------- MODULE MCCrosswalk ----------------------------
(* An instance of Crosswalk for TLC: archives up to one byte too long, and  *)
(* the short argument lists.                                               *)
EXTENDS Crosswalk, SequencesExt

MCWords == {"", "x"}
MCArguments == BoundedSeq(Tokens, 3) \cup
    {<<Flag("context"), Word("x"), a, b, c>> :
        a \in {Flag("profile"), Set("profile", "x")}, b, c \in Tokens}
        \cup {<<a, b, Set("profile", "x"), c>> : a, b, c \in Tokens}
=============================================================================
