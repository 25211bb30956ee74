SPECIFICATION Spec
CONSTANT MaxShares = 3
PROPERTIES PresenterIsSeen PicturesEnd
CHECK_DEADLOCK FALSE
