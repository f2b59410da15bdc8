SPECIFICATION FramesSpec
CONSTANTS
  f1 = f1  f2 = f2  e1 = e1  e2 = e2  h1 = h1  h2 = h2
  Frame = {f1, f2}
  Elem = {e1, e2}
  Header = {h1, h2}
  Handle <- Handles
  NoElem = NoElem
  NoFrame = NoFrame
  Modes <- AllModes
  Pairs <- SafetyPairs
  Chan <- SecondChan
  NumChPerOutQue <- TwoQueues
SYMMETRY Symmetry
INVARIANTS FramesTypeOK BuffersKept NothingStranded
PROPERTIES CarriesFrames
