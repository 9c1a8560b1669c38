SPECIFICATION Spec
CONSTANTS
  Trades = {t1, t2}
  Types = {"ADMITTED", "ENTRY_PARTIAL", "ENTRY_NO_FILL", "TIMEOUT_TRIGGERED",
           "SOURCE_BARRIER", "RECOVERED", "FLAT", "UNRESOLVED"}
  Quantities = {1, 2}
  MaxEvents = 5
INVARIANTS ExposureKnown ReceiptIsFinal ResultsStayTrue IndInv
SYMMETRY Interchangeable
CHECK_DEADLOCK FALSE
