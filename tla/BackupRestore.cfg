SPECIFICATION Spec
CHECK_DEADLOCK FALSE
INVARIANTS CreatedIsWhole AuthenticatedFirst PassIsClean LeftoversReported
