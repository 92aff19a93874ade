\* Uploads, registrations, deletions and Drive imports, two at a time.
SPECIFICATION LibrarySpec
CONSTANTS
  Assets = {a1, a2, a3, a4}
  Urls = {l1, l2, l3, bad}
  BadUrls = {bad}
  Files = {f1}
  Requests = {u1, u2}
  NoAsset = NoAsset
  NoUrl = NoUrl
  NoFile = NoFile
  StorageLimit = 1
  MaxOps = 6
  MaxCrashes = 1
  MaxDbFailures = 1
SYMMETRY LibrarySymmetry
INVARIANTS
  LibraryTypeOK
  RowsKeepTheirBytes
  DirectUploadsWithinLimit
  ImportsBounded
CHECK_DEADLOCK FALSE
