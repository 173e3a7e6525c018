SPECIFICATION Spec
CONSTANTS
  u1 = u1  u2 = u2  u3 = u3  a1 = a1  a2 = a2  a3 = a3  m1 = m1  m2 = m2
  c1 = c1  c2 = c2  c3 = c3  c4 = c4  none = none  noMail = noMail
  User = {u1, u3}
  Account = {a1, a2, a3}
  Mail = {m1, m2, noMail}
  Call = {c1, c2, c3}
  None = none
  NoMail = noMail
  MailOf <- Addresses
  Namesakes <- SameName
  Known = {a1}
  MailOfKnown <- Directory
  Matches <- Contains
  Faults = {"glpi", "kv", "crash"}
INVARIANTS IdInv DuplicatesAreBlind
PROPERTIES ClearLeavesNothing MappingIsPermanent MappingsStayListed
SYMMETRY Interchangeable
CHECK_DEADLOCK FALSE
