SPECIFICATION FairSpec
CONSTANTS
    Jobs = {j1}
PROPERTIES
    TimeoutEndsJob
