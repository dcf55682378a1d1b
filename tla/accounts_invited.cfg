SPECIFICATION Spec
CONSTANTS
  s1 = s1
  w1 = w1
  w2 = w2
  c1 = c1
  c2 = c2
  k1 = k1
  h1 = h1
  h2 = h2
  None = None
  i1 = i1
  Platform = Platform
  Schools = {s1}
  Passwords = {w1, w2}
  Codes = {c1, c2}
  CodeOf <- MCCodeOf
  Mails = {i1}
  MailOf <- MCMailOf
  Challenges = {}
  Handlers = {h1}
CHECK_DEADLOCK FALSE
PROPERTY InvitationIsUsedOnce
