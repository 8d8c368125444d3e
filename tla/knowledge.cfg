\* A document is edited and ingested twice while two calls use the cache.
SPECIFICATION FairSpec
CHECK_DEADLOCK FALSE
CONSTANTS
  Sources = {"guide", "notes", "memo"}
  Docs = {"d", "m", "n", "c"}
  Runs = {"g1", "g2", "n1", "c1", "c2"}
  DocsOf <- Manifest
  Versions <- Texts
  SourceOf <- Ingests
  MaxAttempts = 2
  MaxFaults = 1
  Loads <- LoadSet
  Replicas = {"k1", "k2"}
  Searches = {"p1", "p2"}
  Callers <- TokenSet
  NoSource = "any"
  Queries = {"any"}
  KvLegal = {"guide", "notes", "memo"}
  Ttl = 2
  MaxTime = 1
INVARIANTS SearchIsSound
PROPERTIES IngestionAdvances CorpusSettles
