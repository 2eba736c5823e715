---------------------------- MODULE MCPackFormat ----------------------------
(* Instances of PackFormat for TLC.                                        *)
EXTENDS PackFormat

CONSTANTS a, b, c

(* Chunks of one length: 3 of 4 bytes is too little saved, 2 is enough.    *)
FourBytes == [x \in {a, b, c} |-> 4]

=============================================================================
