SPECIFICATION Spec
CONSTANTS
  Requests = {r1, r2, r3}
  Exts = {png, jpg}
  Parts = 2
  NoPicture = NoPicture
  NoRow = NoRow
  NoPath = NoPath
  Absent = Absent
  Nobody = Nobody
  MaxCrashes = 1
SYMMETRY Symmetry
INVARIANTS
  TypeOK
  AttachedAfterUpload
  PictureIsTheAttachedOne
CHECK_DEADLOCK FALSE
