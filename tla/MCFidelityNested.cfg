SPECIFICATION Spec
CONSTANTS
  Refs = {"app"}
  Domains = {"d1", "d2"}
  Hosts = {"b1", "b2"}
  Paths = {"/", "/a"}
  Regexes = {"ra", "rb"}
  MaxLocations = 2
  Begins <- MCBegins
  Hits <- MCHits
  Length <- MCLength
  Files = {"f"}
  Payloads <- MCPayloads
  HandLines <- MCNestedLines
  URIs = {"/", "/a", "/ab"}
  MaxHand = 6
  MaxFiles = 2
INVARIANTS
  ReproducibleIsFlat
CHECK_DEADLOCK FALSE
