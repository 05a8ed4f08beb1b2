\* Two images for the machine and one for another, of three pages; two power cuts.
CONSTANTS
  Images = {f1, f2, g}
  Ours = {f1, f2}
  NumPages = 3
  MaxCuts = 2
  Torn = Torn
SPECIFICATION FairLifeSpec
INVARIANTS OnlyWholeImagesRun VerifiedMeansFlashed RightProgram
  
