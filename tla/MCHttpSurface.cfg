SPECIFICATION SurfaceSpec
CONSTANT Callers <- MCCallers
INVARIANTS OwnRouteReached SidesApart LimitedRolesAlterNothing
PROPERTY MaintenanceEndsFromListed
