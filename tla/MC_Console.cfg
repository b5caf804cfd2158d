SPECIFICATION Spec
CONSTANTS
  Users = {"ann", "bob"}
  Admins = {"ann"}
  NoUser = "nobody"
  Docs = {1, 2}
  Topics = {1, 2}
  TopicOf <- MCTopicOf
  OwnerOf <- MCOwnerOf
  Candidates = {"bob"}
  MaxChanges = 2
  MaxLogins = 2
  MaxOrphans = 1
INVARIANTS
  TypeOK
  SameUser
  QueueKeepsLoaded
  AnswersMeetTheirDialog
  OwnChangesShown
CHECK_DEADLOCK FALSE
