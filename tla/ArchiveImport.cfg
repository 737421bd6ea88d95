SPECIFICATION CopiesSpec
CONSTANTS
  c1 = c1
  c2 = c2
  pdf = pdf
  txt = txt
  t1 = t1
  Contents = {c1, c2}
  Extensions = {pdf, txt}
  Uploads <- OneUpload
  Targets = {t1}
  Requests = {r1, imp}
  Importer = imp
  Archives <- Backups
  NoArchive = NoArchive
  Operations = {"attach", "delete", "download"}
  NoTarget = NoTarget
INVARIANTS EvidenceHangsTogether RowsHaveTheirFiles
PROPERTIES CopiesAreWhole
