CONSTANTS
    Names = {"a", "b"}
SPECIFICATION Spec
INVARIANTS
    MatchIsLayoutEquality
CHECK_DEADLOCK FALSE
