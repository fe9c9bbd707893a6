SPECIFICATION Spec
CONSTANTS
  Headers <- SomeHeaders
  TopLines <- SomeTopLines
  UnitLines <- SomeUnitLines
  Garbled = Garbled
  MaxLines = 7
INVARIANTS
  LoaderGuarantees
  ThresholdsBySlot
