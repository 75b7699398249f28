---------------------------- MODULE MCSerumSlab ----------------------------
(* All books of up to nine orders with six-bit ids, prices of three bits.   *)
EXTENDS OrderListing

MCKey == {5, 8, 9, 15, 18, 31, 40, 41, 60}

Bit(k, b) == (k \div 2^b) % 2
Differs(h, b) == \E k, l \in h : Bit(k, b) # Bit(l, b)
CritBit(h) == CHOOSE b \in 0..5 : Differs(h, b) /\ \A c \in (b + 1)..5 : ~Differs(h, c)
MCChild(bit) == [h \in {g \in SUBSET MCKey : Cardinality(g) > 1} |->
                   {k \in h : Bit(k, CritBit(h)) = bit}]
MCChild0 == MCChild(0)
MCChild1 == MCChild(1)
MCQuantity == [k \in MCKey |-> k % 3]
\* Orders 8 and 41 were placed by this program, 31 by another of the user's.
MCOwn == {8, 31, 41}
MCClient == [k \in MCKey |-> IF k \in {8, 41} THEN 1 ELSE k]
============================================================================
