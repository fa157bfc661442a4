SPECIFICATION Spec
CONSTANTS
  N = 3
  MaxN = 2
  Fds = {f1, f2, f3, f4, f5}
  Names = {"(no name)", "a"}
  Lines <- AllLines
SYMMETRY Symmetry
CHECK_DEADLOCK FALSE
INVARIANTS TypeOK TablesAgree PipesBelongToUsers NoAlias NamesUnique DistinctCounts
PROPERTIES NoLeak MailKept
