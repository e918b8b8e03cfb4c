SPECIFICATION Spec
CONSTANT Types = {1, 2}
INVARIANTS NoOtherKey HostKeyErrorIsTrue NothingLeft
PROPERTY HandedOutIsOurs
CHECK_DEADLOCK FALSE
