CONSTANTS
  t1 = t1
  t2 = t2
  ann = ann
  ben = ben
  Tab = {t1, t2}
  User = {ann, ben}
  NoUser = noUser
  NoTab = noTab
  Scopes <- MCScopes
SPECIFICATION Spec
SYMMETRY MCSymmetry
CHECK_DEADLOCK FALSE
INVARIANT TypeOK
INVARIANT TabsAgreeWithCookie
INVARIANT LoadingIsAwaited
PROPERTY FollowsCookie
