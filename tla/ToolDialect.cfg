SPECIFICATION Spec
INVARIANT CallsInDialect
