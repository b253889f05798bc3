SPECIFICATION FairSpec
CONSTANTS
  Claims = {c1, c2}
  Sentences = {s1}
  k1 = k1
  k2 = k2
  k3 = k3
  Cards = {k1, k2, k3}
  Fits <- MCFits
  Picks = {p1, p2}
  Runs = {r1, r2}
  Jobs <- MCJobs
  NoClaim = NoClaim
  NoCard = NoCard
  NoSentence = NoSentence
  NotChosen = NotChosen
  MaxAttempts = 2
INVARIANTS Inv LinkedAsPicked
PROPERTIES AnswerIsKept PickEnds
