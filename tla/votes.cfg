SPECIFICATION MCSpec
CONSTANTS
  DRep = {d1}
  Other = {s1}
  Proposal = {p1, p2, p3, p4, p5}
  Eligible <- Everyone
  d1 = d1
  s1 = s1
  p1 = p1
  p2 = p2
  p3 = p3
  p4 = p4
  p5 = p5
  Documented = {p1, p3, p4, p5}
  Forcing = {FALSE, TRUE}
  PageSize = 2
  Enough = 1
  VotesLimit = 6
  MaxBallots = 5
  MaxFaults = 1
INVARIANTS VotesTypeOK NoneOvertaken
PROPERTIES BallotsFound CountsFollow
