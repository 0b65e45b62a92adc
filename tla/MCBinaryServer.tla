--------------------------- MODULE MCBinaryServer ---------------------------
(* An instance of BinaryServer for TLC: a client that awaits replies, whose *)
(* second packet has no records, and one that sends two packets at once.   *)
EXTENDS BinaryServer

CONSTANTS c1, c2, r1, r2, r3, r4, r5

MCPackets == [c \in {c1, c2} |-> IF c = c1 THEN <<<<r1, r2>>, <<>>>>
                                            ELSE <<<<r3, r4>>, <<r5>>>>]
MCHourOf  == [r \in {r1, r2, r3, r4, r5} |->
                IF r \in {r1, r3} THEN 1 ELSE IF r = r5 THEN 3 ELSE 2]
=============================================================================
