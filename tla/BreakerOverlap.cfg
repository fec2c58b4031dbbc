\* Attempts of p2 may end without a report, those of p1 always report.
SPECIFICATION FairLoadSpec
CONSTANTS
  NoProvider = NoProvider
  p1 = p1
  p2 = p2
  a1 = a1
  a2 = a2
  a3 = a3
  Providers = {p1, p2}
  Mute = {p2}
  Attempts = {a1, a2, a3}
  Threshold = 2
  Cooldown = 2
INVARIANT LoadTypeOK
PROPERTIES ProbesACooldownApart OpenLeftByProbeOrSuccess HalfOpenResolves
