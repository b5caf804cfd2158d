SPECIFICATION Spec
CONSTANTS
  boss = boss
  chief = chief
  morgan = morgan
  policy = policy
  diary = diary
  security = security
  budget = budget
  NoTopic = NoTopic
  Users = {boss, chief, morgan}
  Admins = {boss, chief}
  Topics = {security, budget}
  Docs = {policy, diary}
  Library = {policy}
  Owner <- MCOwner
  TopicOf <- MCTopicOf
  FastApi = TRUE
  DotNet = TRUE
  MaxInFlight = 2
INVARIANTS
  IndInv
  DecidedOnRecord
  DecidersHadAuthority
  CitationsOpen
  QueueServesReview
PROPERTIES
  AppendOnly
