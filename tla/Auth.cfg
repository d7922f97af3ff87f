SPECIFICATION Spec
CONSTANTS
  Clients = {alice, bob}
  NoOne = NoOne
  Poll = 1
  TTL = 4
  Life = 5
  MaxIds = 2
  MaxErrors = 1
INVARIANTS TypeOK OwnToken TokenFresh
PROPERTIES TokenNotMissed TokenReachesClient
