\* Seven-bit ids formatted to seven digits: 128 ids, every digit position
\* carries.  The last id ends the generator's run in the model.
CONSTANTS
  Bits = 7
  Width = 7
SPECIFICATION Spec
CHECK_DEADLOCK FALSE
INVARIANTS
  KeyOrderIsIdOrder
  KeyRoundTrip
