SPECIFICATION Spec
CONSTANTS
  MaxLists = 2
  MaxCards = 3
  MaxPlace = 1
  Sizes = {1}
  Keys = {}
  Plans = {"pro"}
  Limits <- MCLimits
  NoKey = NoKey
  Keep = Keep
PROPERTIES InboxIsKept SubtasksStay MovesLeaveOthersAlone
CHECK_DEADLOCK FALSE
