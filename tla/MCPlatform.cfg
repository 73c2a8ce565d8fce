SPECIFICATION PlatformSpec
CHECK_DEADLOCK FALSE
CONSTANTS
  x1 = x1
  x2 = x2
  y1 = y1
  y2 = y2
  adam = adam
  eve = eve
  ann = ann
  bob = bob
  leo = leo
  Requests = {x1, x2}
  Seeds = {adam, eve}
  Mails = {ann}
  Passwords = {new}
  Old = old
  Production = TRUE
  TrustUnclaimed = TRUE
  LastSecond = 2
  None = none
  Calls = {x1, x2}
  People = {ann, bob}
  Team = team
  Box = box
  Menus <- TeamMenus
  Nobody = none
  Owners = {adam, eve}
  Staff = {eve}
  Adds = {x1, x2}
  Edits = {y1, y2}
  Boots = {y1, y2}
  Top = top
  Sub = sub
  NoDomain = none
  Streams = {x1, x2, leo}
  Components = {y1, y2}
  MaxStreams = 2
  NoStream = none
  Tabs = {x1, x2}
  MaxTokens = 2
  MaxEvents = 1
  MaxMessages = 2
  Found = {1}
  PageSize = 1
  Rows = {x1, x2}
  MaxWrites = 1
  MaxLoads = 2
  NoRow = none
  Viewers = {x1, x2}
  Letters = {leo}
  MaxMarks = 3
  Logins = {x1, x2, leo}
  MaxFailedAuth = 2
  AuthWindow = 2
  LastTick = 4
  MaxPolls = 2
  MaxResends = 2
  MaxOverlap = 2
  Latest = 5
  Hits = {3}
  ListSize = 2
  MaxTries = 2
  MaxViews = 3
  Periods = {week, month}
  Metrics = {sends, bounces}
  MaxFetches = 2
  NoFigures = none
SYMMETRY Symmetry
VIEW MovingView
CONSTRAINT Calm
INVARIANTS
  PlatformTypeOK SsoSignsProven KeysEndWithPassword
  MembershipHolds GrantWasHeld
  SignerIsProven StreamsHold TabsAgree ScreensAreTrue GuessesBounded
PROPERTIES DeadSessionsStayDead LastAdminNeedsRace
