SPECIFICATION Spec
CONSTANTS
  ByteValues = {0, 63, 129, 255}
  MaxBytes = 5
  Fields = {"TSFT", "Flags", "Rate", "Channel", "FHSS", "AntennaSignal", "LockQuality", "RXFlags", "TXFlags", "MCS", "AMPDUStatus"}
  MaxExt = 2
  MaxText = 12
  MaxEntries = 3
INVARIANTS StoredExactly MessageFits FilterIsNamed SignalRight ParsedIffDocument ListedIsFound
CHECK_DEADLOCK FALSE
