CONSTANTS
  a = a
  b = b
  c = c
  t1 = t1
  t2 = t2
  p1 = p1
  p2 = p2
  Ids = {a, b}
  Tokens = {t1, t2}
  Procs = {p1, p2}
  Idents <- MCIdents
  Fold <- MCFold
  Forms <- MCForms
  AdminForm <- MCAdminForm
  LdapUsers = {"carol"}
  LdapRoles = {"platform-admin"}
  Directory = Directory
  Null = Null
  NoSession = NoSession
SPECIFICATION Spec
SYMMETRY MCSymmetry
INVARIANTS
  TypeOK
  SignupAcknowledged
  SessionBacked
  SingleAdministrator
  ReviewAgreement
  ReviewedByAdministrator
PROPERTIES
  StandingByReview
  KeepsPromise
