CONSTANTS
  Ops = Ops
  ben = ben
  dev1 = dev1
  op1 = op1
  why1 = why1
  mail1 = mail1
  adm1 = adm1
  Adm = Adm
  AdminRole = Adm
  Emails = {mail1, mail2}
  Roles = {Ops, Adm}
  MaxAccounts = 2
  MaxRequests = 2
  Admins = {adm1, adm2}
  MaxTokens = 2
  MaxLinks = 2
  AdmissionScopes <- MCAdmissionScopes
  NoEmail = NoEmail
  NoRequest = NoRequest
  NoRole = NoRole
  Users = {ann, ben}
  Devices = {dev1, dev2}
  Founder = ann
  MaxCred = 3
  MaxEra = 2
  AccessScopes <- MCAccessScopes
  Nobody = Nobody
  Operators = {op1, op2}
  Reasons = {why1, why2}
  MaxKeys = 3
  MaxCopies = 2
  MaxRev = 4
  ConsoleScopes <- MCConsoleScopes
  None = None
SPECIFICATION Spec
CHECK_DEADLOCK FALSE
INVARIANT AdminRemains
INVARIANT ActsOnce
INVARIANT DeadLinksGrantNothing
INVARIANT AccountsTypeOK
INVARIANT OneWayIn
INVARIANT NothingOutlived
