SPECIFICATION Spec
CONSTANT N = 1
PROPERTIES FreshContext
CHECK_DEADLOCK FALSE
