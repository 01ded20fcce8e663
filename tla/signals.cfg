\* Six signals to a child that may be arbitrarily late.
CONSTANT NSignals = 6
SPECIFICATION FairSpec
INVARIANTS TypeOK CountsAgree OneLossPerLateSend
PROPERTIES BothEnd
CHECK_DEADLOCK FALSE
