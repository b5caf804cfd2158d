SPECIFICATION SearchSpec
CONSTANTS
  boss = boss
  morgan = morgan
  policy = policy
  diary = diary
  memo = memo
  security = security
  NoTopic = NoTopic
  Users = {boss, morgan}
  Admins = {boss}
  Topics = {security}
  Docs = {policy, diary, memo}
  Library = {policy}
  Owner <- MCOwner
  TopicOf <- MCTopicOf
  ProviderOf <- MCProviderOf
  FastApi = TRUE
  DotNet = FALSE
  Backends = {"fastapi"}
  MaxInFlight = 2
  MaxSearches = 1
INVARIANTS
  RecordedIsDecided
  SearchMissesNothing
