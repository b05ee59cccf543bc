SPECIFICATION ProbeSpec
CONSTANTS
  AddressRow <- MCRows
  Person <- MCPerson
  PersonRow <- MCPersonRow
  MaxProbed = 2
  MaxChanges = 1
INVARIANTS NullOnlyForCause KeysTellDataApart
CHECK_DEADLOCK FALSE
