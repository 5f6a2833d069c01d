SPECIFICATION Spec
CONSTANTS
    Modules = {1, 2}
    Outside = {}
    Ecosystem = {1, 2}
    Checks = {1, 2}
    Clients = {1, 2}
    Parts = {0, 1}
    Packages0 <- Pair
    Versions0 <- Ahead
    Released0 <- AllReleased
    MaxRequests = 4
    Edits <- HandEdits
    Opened = {2}
    BumpKinds = {"patch"}
    Pulls <- Pushed
    MaxCommits = 3
INVARIANTS
    PublishResolves
    PreviewedVersionShips
PROPERTIES
    EachPublishPreviewed
CHECK_DEADLOCK FALSE
