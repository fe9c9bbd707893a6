SPECIFICATION Spec
CONSTANTS
  Units <- DuelUnits
  Policies <- External
  duration_ms = 6500
  decision_tick_ms = 3000
  WhiteResults <- DuelWhite
  MortalResults <- DuelMortal
  HeroicResults <- DuelHeroic
PROPERTIES
  AppliesOnlySnapshotLegal
