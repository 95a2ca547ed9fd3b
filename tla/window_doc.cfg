SPECIFICATION Spec
INVARIANTS OffPeakAsDocumented
