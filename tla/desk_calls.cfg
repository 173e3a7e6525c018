SPECIFICATION Spec
CONSTANTS
  User = {"ann", "eve", "tom", "root"}
  Account = {"e", "t", "o"}
  Ticket = {1, 2, 3, 4, 5}
  Call = {1, 2, 3, 4, 5, 6, 7, 8, 9, 10, 11, 12, 13, 14, 15}
  None = None
  OpOf <- Ops15
  UserOf <- By
  TicketOf <- On
  Slash = {12, 13, 14}
  SysAdmin = {"root"}
  AccountsFor <- Accounts
  ProfilesOf <- Given
  Modes = {TRUE, FALSE}
  OwnedLimit = 2
  Filed = {5}
  FiledFor <- Others
  Worked = {5}
  Together <- Made
  TurnCap = 1
INVARIANTS DeskInv StaffOnly ShownIsTheirs
PROPERTIES ReopensWhatIsFinished CreatedAreListed
CHECK_DEADLOCK FALSE
