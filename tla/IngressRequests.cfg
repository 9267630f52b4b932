SPECIFICATION Spec
CONSTANTS
  th1 = th1
  th2 = th2
  ann = ann
  council = council
  chat = chat
  Threads = {th1, th2}
  Actors = {ann}
  Channels = {council, chat}
  chat_class <- ClassOf
  PrincipalRoles = {"project_manager"}
  Visited = {"absent", "completed"}
  MaxChanges = 2
  Messages <- Sent
CHECK_DEADLOCK FALSE
INVARIANT AnsweredIsSigned
INVARIANT AdmittedIsAuthorized
INVARIANT RevocationHolds
INVARIANT FreeTextNeverMutates
