\* Every two registrations, in groups and not, with $api changed between them.
CONSTANTS
    RouteArgs <- AllRoutes
    Compats <- AllCompats
    Groups <- AllGroups
    SocketArgs <- AllSockets
    ApiDefaults <- AllDefaults
    Paths <- AllPaths
    Offers <- AllOffers
    Parameters <- AllParameters
    MaxRegistrations = 2
SPECIFICATION RoutingSpec
INVARIANTS
    ServedAsRegistered
    HiddenByTwinOnly
