SPECIFICATION Spec
CONSTANTS
  Refs = {"app"}
  Domains = {"d1", "d2"}
  Hosts = {"b1", "b2"}
  Paths = {"/", "/a"}
  Regexes = {"ra", "rb"}
  MaxLocations = 2
  Begins <- MCBegins
  Hits <- MCHits
  Length <- MCLength
  Files = {"f"}
  Payloads <- MCPayloads
  HandLines <- MCHandLines
  URIs = {"/", "/a", "/ab"}
  MaxHand = 5
  MaxFiles = 2
INVARIANTS
  OwnVhostReproducible
CHECK_DEADLOCK FALSE
