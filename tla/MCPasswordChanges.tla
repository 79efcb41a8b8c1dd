------------------------- MODULE MCPasswordChanges -------------------------
(* Instances of PasswordChanges for TLC.  set1 and set2 edit the first      *)
(* field, one to each policy, and drop1 deletes it; set3 and drop2 act on   *)
(* the second.                                                              *)
EXTENDS PasswordChanges, TLC
CONSTANTS set1, set2, set3, drop1, drop2, f1, f2, p1, p2, b1

TargetOf(o) == IF o \in {set3, drop2} THEN f2 ELSE f1
SettingOf(o) == CASE o \in {drop1, drop2} -> Deleted
                  [] o = set2 -> p1
                  [] OTHER -> p2

MCTarget == [o \in Operation |-> TargetOf(o)]
MCSetting == [o \in Operation |-> SettingOf(o)]

Symmetry == Permutations(Change)
=============================================================================
