SPECIFICATION ReplaySpec
CONSTANTS
  Units <- DuelUnits
  Policies <- DuelPolicies
  duration_ms = 2000
  decision_tick_ms = 900
  WhiteResults <- DuelWhite
  MortalResults <- DuelMortal
  HeroicResults <- DuelHeroic
  Recorders <- Env
  MayKill = FALSE
  Uses <- VerifyOnly
INVARIANTS
  DrivenTracesReplay
