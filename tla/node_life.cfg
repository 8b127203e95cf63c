CONSTANTS
  Acc = {m1, m2}  NoAcc = NoAcc
  MaxPool = 1
  Ticker = {t1}  Silent = Silent
  ForceMining = FALSE
SPECIFICATION FairSpec
PROPERTY  CloseReturns  
