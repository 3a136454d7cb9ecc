----------------------------- MODULE MCImageFiles -----------------------------
(* Two files, one of them also reached through a symbolic link, and three   *)
(* commands, enough for the road of three generators to v2.2, and for a     *)
(* write that is cut, a dump of what it left and a generator offered that   *)
(* dump.                                                                    *)
EXTENDS ImageFiles

CONSTANTS a, b, link

MCFiles == {a, b}
MCNames == {a, b, link}
MCResolve == [n \in MCNames |-> IF n = link THEN a ELSE n]

(* A first use, and a machine with v2.2 about to go back to its base.       *)
MCStarts ==
  {[file |-> Official, chip |-> Official], [file |-> BaseImage, chip |-> V22Image]}

(* The whole image, the block of the cave, and the block of the hooks.      *)
MCRanges == {[at |-> 0, n |-> 3], [at |-> 0, n |-> 1], [at |-> 1, n |-> 1]}
=============================================================================
