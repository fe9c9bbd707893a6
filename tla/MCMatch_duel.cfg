SPECIFICATION FairSpec
CONSTANTS
  Units <- DuelUnits
  Policies <- External
  duration_ms = 9000
  decision_tick_ms = 3000
  WhiteResults <- DuelWhite
  MortalResults <- DuelMortal
  HeroicResults <- DuelHeroic
INVARIANTS
  TypeOK
  DeathEndsMatch
  ObservationExact
PROPERTIES
  InstantOrder
  RejectsOnlyIllegal
  EveryActionCounted
  ScriptedNeverIllegal
  MatchEnds
  ImplementsTimeline
