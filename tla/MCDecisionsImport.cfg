CONSTANTS None = None
  KnownUsers <- MCUsers
  Members <- MCHolders
  GroupNames = {"team"}
  Questions <- MCQuestions
  Topics = {"bulk"}
SPECIFICATION Spec
INVARIANT ImportIsAllOrNone
