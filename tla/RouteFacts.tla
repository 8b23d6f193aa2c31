------------------------------ MODULE RouteFacts ------------------------------
(***************************************************************************)
(* What the tables of the mounts, the routes and the roles keep to: facts  *)
(* about each of the routes and what is registered before it, on which the *)
(* properties of HttpSurface rest.                                         *)
(***************************************************************************)
EXTENDS ApiMounts

\* What routes/index.ts and the route files keep to, for every mount and every route.
ASSUME MountsAssumption ==
    \A m \in 1..Len(Mounts) :
        LET mount == Mounts[m]
        IN  /\ mount.base[1] \notin {"health", "auth"} => "authenticate" \in Before(mount)
            /\ mount.base[1] \in {"itsm", "tenant-admin"} => "requireTenantMembership" \in Before(mount)
            /\ mount.base[1] = "admin" /\ mount.base # <<"admin", "my-account">> =>
                  \A l \in 1..Len(mount.router) :
                      mount.router[l].does = "handle" =>
                          /\ mount.router[l].codes # {}
                          /\ \A code \in mount.router[l].codes : code[1] = "admin"

\* Mounts whose middleware asks for a membership are those of an organization, and those that ask
\* who it is are these, the platform's and the sessions; no other middleware stands before a router.
ASSUME MiddlewareAssumption ==
    \A m \in 1..Len(Mounts) :
        LET mount == Mounts[m]
        IN  /\ Before(mount) \subseteq {"authenticate", "requireTenantMembership"}
            /\ "requireTenantMembership" \in Before(mount) => mount.base[1] \in {"itsm", "tenant-admin"}
            /\ "authenticate" \in Before(mount) =>
                  \/ mount.base[1] \in {"itsm", "tenant-admin", "admin"}
                  \/ mount.base = <<"auth", "sessions">>

\* A route takes the path that is meant for it, and knows the code it asks for.
Meets(p) ==
    /\ Begins(Base(p), PathTo(p)) /\ Takes(Layer(p), Layer(p).on, Below(p[1], PathTo(p)))
    /\ Layer(p).on # "use"
    /\ Cardinality(Layer(p).codes) = 1 => Layer(p).codes \subseteq Known(Mounts[p[1]])

\* The first n layers of the router of mount m leave the path of the route at p alone.
LeftAlone(m, n, p) ==
    \A l \in 1..n :
        Takes(Mounts[m].router[l], Layer(p).on, Below(m, PathTo(p))) => Mounts[m].router[l].does # "handle"

\* No handler that is mounted or registered before a route takes a request that is meant for the
\* route, and no mount before it asks for more than the mount of the route does
\* (routes/index.ts:693, and the comment of itsm/assets.routes.ts:20).
ASSUME RoutesAssumption ==
    /\ \A p \in Targets :
          /\ Meets(p)
          /\ LeftAlone(p[1], p[2] - 1, p)
          /\ \A m \in 1..(p[1] - 1) :
                Begins(Mounts[m].base, PathTo(p)) =>
                    /\ LeftAlone(m, Len(Mounts[m].router), p)
                    /\ Before(Mounts[m]) \subseteq Before(Mounts[p[1]])
    /\ \A m \in 1..Len(Mounts) : ~ Begins(Mounts[m].base, <<"nowhere">>)

\* The codes of a limited role open little on its own side of the API
\* (catalog.ts:373, tenant-catalog.ts:1036).
GrantsOf(role) == IF OfOrganization(role) THEN TenantGrants(role) ELSE PlatformGrants(role)
ASSUME LimitedAssumption ==
    \A role \in LimitedRoles : \A p \in Targets :
        /\ Layer(p).codes = {} \/ Layer(p).codes \intersect GrantsOf(role) # {}
        /\ Area(p) \in {"itsm", "tenant-admin"} => OfOrganization(role)
        /\ AltersOthers(GrantsOf(role), p)
        => Address(p) = CancelOfExport
=============================================================================
