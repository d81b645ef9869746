---------------------------- MODULE MCMemoryStore ----------------------------
(* Instances of MemoryStore for TLC: records i1 and i2 have the same type  *)
(* and title, i3 has another.                                              *)
EXTENDS MemoryStore, TLC

CONSTANTS i1, i2, i3, main, other, s1, s2

TwoIds == {i1, i2}
ThreeIds == {i1, i2, i3}
TwoSlots == {s1, s2}
SlotOf == [i \in Ids |-> IF i = i3 THEN s2 ELSE s1]
Alone == {main}
Both == {main, other}

SameSlot == Permutations({i1, i2})
=============================================================================
