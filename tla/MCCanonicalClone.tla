-------------------------- MODULE MCCanonicalClone --------------------------
(* Small instances of CanonicalCloneSync. *)
EXTENDS CanonicalCloneSync

CONSTANTS s1, s2, r1, main, dev, bad, fix

TwoBranches == {main, dev}
AnyClone == {{main}, {main, dev}}
=============================================================================
