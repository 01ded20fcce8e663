\* Three clients, one of which may be killed.
CONSTANTS
  u1 = u1  u2 = u2  u3 = u3
  NoUser = NoUser
  Users = {u1, u2, u3}
  NLines <- OneSpeaks
  Deaths = {u1}
SPECIFICATION FairSpec
INVARIANTS DescriptorsAgree CountIsKnown
PROPERTIES ImplementsRoom EveryLineIsRead
CHECK_DEADLOCK FALSE
