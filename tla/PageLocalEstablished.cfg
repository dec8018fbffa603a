SPECIFICATION AuditsSpec
CONSTANTS
  home = home
  page = page
  c1 = c1
  c2 = c2
  x = x
  y = y
  Site = Site
  Pages <- MCPages
  Home = home
  Within <- MCWithin
  Conditions <- MCConditions
  Requirement <- MCRequirement
  Observations <- MCObservations
  MaxHits = 2
  Envelopes <- MCEnvelopes
  Collections <- MCCollections
  Modes <- MCModes
  Hits <- MCHits
  Urls <- MCUrls
  Sites <- MCSites
  Changes <- MCChanges
  Changed <- MCChanged
  PartOf <- MCPartOf
  Directory <- MCDirectory
  MaxChanges = 1
INVARIANT PageLocalEstablished
CHECK_DEADLOCK FALSE
