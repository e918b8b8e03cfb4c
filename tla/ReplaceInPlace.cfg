SPECIFICATION Spec
CONSTANTS
  id = id
  note = note
  total = total
  Columns <- OrderColumns
  Generated <- OrderGenerated
  Attempts = 2
INVARIANTS ColumnsAccounted RowsSomewhere
PROPERTY PublishesTable
CHECK_DEADLOCK FALSE
