\* Every part of the frontend's pages that works with the API, one at a time.
SPECIFICATION PagesSpec
CONSTANTS
  provider = provider
  reference = reference
  price = price
  title = title
  x = x
  mail = mail
  r1 = r1
  r2 = r2
  Fields <- MCFields
  Row = {price, title}
  Provider = provider
  Reference = reference
  Values = {x}
  Ref = ref
  None = None
  NoRequest = NoRequest
  Untouched = Untouched
  First <- MCFirst
  Screens = {"menu", "database"}
  Slots = {mail}
  Keys = {key}
  SaveAttempts = 2
  MaxRev = 3
  MaxTurns = 3
  Who = {g1, g2}
  Controls = {"ballot", "coffee", "seats", "person"}
  Unset = Unset
  MaxChanges = 2
  Places = {p1, p2}
  Looks = {l1, l2, l3}
  Me = Me
  Other = Other
  Free = Free
  Nowhere = Nowhere
  NoPlan = NoPlan
  MaxMoves = 3
  Revisions = {r1, r2}
  Codes = {c1, c2}
  Pods = {w1, w2}
  Nothing = Nothing
  Agree = 3
  MaxMenus = 2
  MaxTaps = 1
  MaxPresses = 2
  MaxErrors = 1
  Labels = {n1, n2, n3}
  Prices = {low, high}
  Absent = Absent
  MaxProducts = 3
  MaxEdits = 3
  Rules <- MCRules
  Secrets = {"mail", "payments"}
  MaxGrants = 2
  Names = {"db1"}
  BadName = "-"
  Required = {"service"}
  MaxActs = 5
INVARIANTS
  TypeOK
  LiveMeansCurrent
  ChosenIsFree
  TrailIsLatest
  ListIsTruth
PROPERTIES
  NoLostUpdate
  EditsSurvive
  PressEnds
  PickersFollow
  RoomSettles
  MenuArrives
  RevertsLeadHome
  TableSettles
CHECK_DEADLOCK FALSE
