CONSTANTS
  a = a
  b = b
  c = c
  t1 = t1
  t2 = t2
  p1 = p1
  p2 = p2
  Ids = {a, b}
  Tokens = {t1}
  Procs = {p1}
  Idents <- MCIdents
  Fold <- MCFold
  Forms <- MCForms
  AdminForm <- MCAdminForm
  LdapUsers = {}
  LdapRoles = {"release-operator"}
  Directory = Directory
  Null = Null
  NoSession = NoSession
SPECIFICATION Spec
INVARIANT AcknowledgedCanSignIn
