-------------------------- MODULE MCKillSwitchStore --------------------------
EXTENDS KillSwitchStore, TLC

CONSTANTS i1, i2, i3, i4

MCSymmetry == Permutations(Inodes)

TwoStates == {"clear", "halted"}
ThreeStates == {"clear", "pause_new_orders", "halted"}
=============================================================================
