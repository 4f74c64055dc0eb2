CONSTANTS
    Unresolved <- NoSecondPicture
    MaxRows = 7
    MaxFlowRows = 5
    MaxMedia = 3
    Attachments <- SomeAttachments
SPECIFICATION WireSpec
INVARIANT CallsAndResultsPaired
INVARIANT LabelsNameTheHostsMedia
CHECK_DEADLOCK FALSE
