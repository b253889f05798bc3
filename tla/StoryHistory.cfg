SPECIFICATION Spec
CONSTANTS
  hero = hero
  town = town
  blue = blue
  red = red
  hurt = hurt
  died = died
  returned = returned
  thriving = thriving
  ruins = ruins
  eyesBlue = eyesBlue
  eyesRed = eyesRed
  isHurt = isHurt
  dies = dies
  comesBack = comesBack
  isThere = isThere
  thrives = thrives
  falls = falls
  Characters = {hero}
  Places = {town}
  Values = {blue, red, hurt, died, returned, thriving, ruins}
  Deaths <- MCDeaths
  Revivals <- MCRevivals
  NoValue = NoValue
  Sentences = {eyesBlue, eyesRed, isHurt, dies, comesBack, isThere, thrives, falls}
  NoSentence = NoSentence
  Reads <- MCReads
  Stories <- MCStories
INVARIANTS Inv HeldAgainstOthers DeadAreNoticed
PROPERTIES OnlyAdds
