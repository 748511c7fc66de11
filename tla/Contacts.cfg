\* Four users: pairs that share a user, and two that do not.
CONSTANT Users = {u1, u2, u3, u4}
SPECIFICATION Spec
INVARIANTS PairsAgree ButtonsWork
PROPERTIES ButtonsStay ImplementsPairs
CHECK_DEADLOCK FALSE
