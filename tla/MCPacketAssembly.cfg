SPECIFICATION Spec
CONSTANTS
  Hardware <- MCHardware
  Packets <- MCPackets
  MaxOperations <- MCMaxOperations
  MaxFaults <- MCMaxFaults
INVARIANTS
  InStep
  DeviceAgrees
  LightAgrees
CHECK_DEADLOCK FALSE
