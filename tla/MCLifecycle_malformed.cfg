SPECIFICATION Spec
CONSTANT Handlers = {h1, h2}
CHECK_DEADLOCK FALSE
INVARIANT
    RefusesMalformed
