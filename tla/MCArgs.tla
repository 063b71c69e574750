------------------------------- MODULE MCArgs -------------------------------
(* get_args over every command line of up to MaxLen bytes drawn from a     *)
(* quote, a space and one letter: the code treats all letters alike.       *)
EXTENDS Args

CONSTANTS q, sp, a

MCLetters == {a}
=============================================================================
