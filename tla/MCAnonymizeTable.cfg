SPECIFICATION Spec
CONSTANTS
  Columns = {"doc", "mail"}
  Rows = {1, 2}
  Keys = {"mail", "name", "long"}
  Paths <- MCPaths
  MaxDepth = 2
  LongKeys = {"long"}
  Personal = {"mail"}
  RuleLists <- MCRuleLists
  Tables <- MCTables
INVARIANTS RealIsNamed UnsearchedIsNamed OnlyPlannedChanges AnswerIsTrue ParametersFit
CHECK_DEADLOCK FALSE
