SPECIFICATION FairSpec
CONSTANTS
  Sender = {s1, s2}
  Slot = {m1, m2, m3}
  light = light
  NULL = NULL
INVARIANTS
  ListIsUnread
  HeldInside
PROPERTIES
  MailTaken
