SPECIFICATION Spec
INVARIANTS TypeOK PinholeOpen FailsInTime ResolverSafe
PROPERTIES ResolverFreed
