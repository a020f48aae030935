\* One client query, whose cursor may be forked once (two frames), and the
\* source's goroutine calling ProcessBlock.
CONSTANTS
  Queries = {q1}
  MaxDepth = 2

SPECIFICATION Spec

PROPERTY QueriesReturn

\* Both goroutines may stop calling.
CHECK_DEADLOCK FALSE
