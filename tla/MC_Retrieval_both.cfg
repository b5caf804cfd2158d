SPECIFICATION SearchSpec
CONSTANTS
  boss = boss
  morgan = morgan
  policy = policy
  diary = diary
  memo = memo
  security = security
  NoTopic = NoTopic
  Users = {boss, morgan}
  Admins = {boss}
  Topics = {security}
  Docs = {policy, diary}
  Library = {policy}
  Owner <- MCOwner
  TopicOf <- MCTopicOf
  ProviderOf <- MCOneProvider
  FastApi = TRUE
  DotNet = FALSE
  Backends = {"fastapi", "dotnet"}
  MaxInFlight = 1
  MaxSearches = 1
INVARIANTS
  AnsweredFromVisible
  QueryMatchesSpace
