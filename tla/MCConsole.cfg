SPECIFICATION FairSpec
CONSTANTS
  MaxToasts = 2
  Groups = {g1}
  NoGroup = NoGroup
  Loads = {l1, l2}
  MaxFailures = 1
  Instances = {i1}
  NoInstance = NoInstance
  Fetches = {1, 2}
  MaxErrors = 0
  Counts <- MCCounts
  Digits = {2, 10, 11, 12, 13, 14, 15}
INVARIANTS TypeOK EveryToastGoes OneInterval OneQRInterval FiguresAreTold
PROPERTIES ListCatchesUp QRDialogCloses
