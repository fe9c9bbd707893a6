SPECIFICATION Spec
CONSTANTS
  Units <- FastUnits
  Policies <- Idle
  duration_ms = 80
  decision_tick_ms = 1
  WhiteResults <- FastWhite
  MortalResults <- NoYellow
  HeroicResults <- NoYellow
INVARIANTS
  NoLostSwing
  NothingInThePast
  QueueFits
PROPERTIES
  SwingSpacing
