SPECIFICATION Spec
CONSTANTS
  th1 = th1
  th2 = th2
  p1 = p1
  prop = prop
  edit = edit
  task = task
  call = call
  other = other
  Threads = {th1, th2}
  Projects = {p1}
  Proposals = {prop}
  ApprovalTypes = {edit}
  Tasks = {task}
  Keys = {call, other}
  allowed_type_caps <- Caps
  total_active_document_cap = 6
  Cases <- ToldTwice
CHECK_DEADLOCK FALSE
INVARIANT ViolationsReachTheOwner
