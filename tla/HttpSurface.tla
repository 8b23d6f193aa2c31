----------------------------- MODULE HttpSurface -----------------------------
(***************************************************************************)
(* The way of a request through the API: the maintenance gate, the mounts  *)
(* in their order, the middleware of a mount, the layers of its router and *)
(* the permission a route asks for (src/src/app.ts, routes/index.ts and    *)
(* api/middleware).  One request is under way at a time: the layers keep   *)
(* nothing but the maintenance settings and their cached copy.  Callers    *)
(* are in good standing; what an account in bad standing meets is modelled *)
(* in Accounts.  Bodies are valid: a schema that refuses one ends the      *)
(* request without an effect.                                              *)
(***************************************************************************)
EXTENDS ApiMounts

CONSTANT Callers    \* who calls: records [type, role, listed]

\* Users of an organization have a role of the organization's, and nobody else has.
ASSUME CallersAssumption == \A c \in Callers : c.type = "TENANT_USER" <=> OfOrganization(c.role)

VARIABLES request,      \* the request under way: [caller, method, path, target]
          pc,           \* how far it is: "idle", "gate", "mounts", "router" or "answered"
          place,        \* <<m, l>>: the mount it has come to, and the layer of its router
          answer,       \* what it is answered: "none" yet, "handled", "unauthorized",
                        \* "forbidden", "not found", "archived" or "maintenance"
          down,         \* whether the gate read that the platform is in maintenance
          maintenance,  \* the setting maintenance.mode
          cached        \* the gate's copy of it, kept for 15 seconds: "none", "on" or "off"
surfaceVars == <<request, pc, place, answer, down, maintenance, cached>>

\* The request that is meant for a route.
RequestFor(c, p) ==
    [caller |-> c, method |-> Layer(p).on, path |-> PathTo(p), target |-> p]
NoRequest == [caller |-> [type |-> "anonymous", role |-> "none", listed |-> FALSE],
              method |-> "get", path |-> <<"nowhere">>, target |-> NoPlace]

SettingWord(on) == IF on THEN "enabled" ELSE "disabled"   \* a mutation: the word a settings page shows
Setting(on) == IF on THEN "on" ELSE "off"

SurfaceInit ==
    /\ request = NoRequest /\ pc = "idle" /\ place = NoPlace /\ answer = "none"
    /\ down = FALSE /\ maintenance = FALSE /\ cached = "none"

-----------------------------------------------------------------------------
Answer(a) == pc' = "answered" /\ answer' = a

-----------------------------------------------------------------------------
\* A request comes in, and a request that is answered has gone.
Arrive ==
    /\ pc = "idle"
    /\ \E c \in Callers :
          \/ \E p \in Targets : request' = RequestFor(c, p)
          \/ request' = [NoRequest EXCEPT !.caller = c]
    /\ pc' = "gate"
    /\ UNCHANGED <<place, answer, down, maintenance, cached>>
Leave ==
    /\ pc = "answered"
    /\ request' = NoRequest /\ pc' = "idle" /\ place' = NoPlace /\ answer' = "none"
    /\ down' = FALSE
    /\ UNCHANGED <<maintenance, cached>>

\* maintenanceGate reads the settings through the cache; when it cannot, it lets everybody pass.
Exempt(path) == path[1] \in {"health", "auth"}
PassesDown(c, path) ==
    \/ Exempt(path)
    \/ c.listed
    \/ c.type = "PLATFORM_STAFF" /\ Wildcard \in Permissions(c)
GateWith(state) ==
    /\ down' = (state = "on")
    /\ IF state = "off" \/ PassesDown(request.caller, request.path)
       THEN pc' = "mounts" /\ UNCHANGED answer
       ELSE Answer("maintenance")
Gate ==
    /\ pc = "gate"
    /\ cached' = IF cached = "none" THEN Setting(maintenance) ELSE cached
    /\ GateWith(cached')
    /\ UNCHANGED <<request, place, maintenance>>
GateUnread ==
    /\ pc = "gate" /\ cached = "none"
    /\ GateWith("off")
    /\ UNCHANGED <<request, place, maintenance, cached>>
CacheExpires ==
    /\ pc = "idle" /\ cached # "none"
    /\ cached' = "none"
    /\ UNCHANGED <<request, pc, place, answer, down, maintenance>>

\* The next mount whose base path the request begins with, and the middleware before its router.
After(m) == {i \in (m + 1)..Len(Mounts) : Begins(Mounts[i].base, request.path)}
First(S) == CHOOSE i \in S : \A j \in S : i <= j
AdmitsSignedIn(c, middleware) == c.type # "anonymous"   \* a mutation: the membership is not asked for
Admits(c, middleware) ==
    CASE middleware = "authenticate" -> c.type # "anonymous"
      [] middleware = "requireTenantMembership" -> c.type = "TENANT_USER"
Enter ==
    /\ pc = "mounts"
    /\ IF After(place[1]) = {} THEN Answer("not found") /\ UNCHANGED place
       ELSE LET m == First(After(place[1]))
                before == Mounts[m].before
                refused == {i \in DOMAIN before : ~ Admits(request.caller, before[i])}
            IN  /\ place' = <<m, 0>>
                /\ IF refused = {} THEN pc' = "router" /\ UNCHANGED answer
                   ELSE Answer(IF before[First(refused)] = "authenticate"
                               THEN "unauthorized" ELSE "forbidden")
    /\ UNCHANGED <<request, down, maintenance, cached>>

\* The next layer of the router that takes the request; without one the mounts go on.
Rest == Below(place[1], request.path)
NextLayers ==
    {l \in (place[2] + 1)..Len(Mounts[place[1]].router) :
        Takes(Mounts[place[1]].router[l], request.method, Rest)}
Hit == <<place[1], First(NextLayers)>>
FallThrough ==
    /\ pc = "router" /\ NextLayers = {}
    /\ pc' = "mounts"
    /\ UNCHANGED <<request, place, answer, down, maintenance, cached>>
\* tenantContext: the tenant of the path may be archived.
Middleware ==
    /\ pc = "router" /\ NextLayers # {}
    /\ place' = Hit
    /\ Layer(place').on = "use"
    /\ \/ Layer(place').does = "tenantContext" /\ Answer("archived")
       \/ UNCHANGED <<pc, answer>>
    /\ UNCHANGED <<request, down, maintenance, cached>>

\* The handlers that write the settings the gate reads; they leave its copy as it is.
WritesMaintenance(p) ==
    /\ Layer(p).on = "patch"
    /\ \/ Mounts[p[1]].base = <<"admin", "system-administration">> /\ Layer(p).path = <<"maintenance">>
       \/ Mounts[p[1]].base = <<"admin", "platform-settings">> /\ Layer(p).path = <<":">>
Handle ==
    /\ pc = "router" /\ NextLayers # {}
    /\ place' = Hit
    /\ Layer(place').does = "handle"
    /\ LET layer == Layer(place') c == request.caller
       IN  IF layer.signedIn /\ c.type = "anonymous"
           THEN Answer("unauthorized") /\ UNCHANGED maintenance
           ELSE IF ~ Authorized(c, Mounts[place'[1]], layer.codes)
           THEN Answer("forbidden") /\ UNCHANGED maintenance
           ELSE /\ Answer("handled")
                /\ IF WritesMaintenance(place') THEN maintenance' \in BOOLEAN ELSE UNCHANGED maintenance
    /\ UNCHANGED <<request, down, cached>>

SurfaceNext == Arrive \/ Leave \/ Gate \/ GateUnread \/ CacheExpires \/ Enter \/ FallThrough \/ Middleware \/ Handle
SurfaceSpec == SurfaceInit /\ [][SurfaceNext]_surfaceVars

-----------------------------------------------------------------------------
Reached == pc = "answered" /\ answer = "handled"

\* Who is meant to be let through to a route: a member to what an organization works with, any
\* caller who is signed in to the rest but the public surface, with a code the route asks for.
Entitled(c, p) ==
    /\ Area(p) \in {"itsm", "tenant-admin"} => c.type = "TENANT_USER"
    /\ Area(p) = "admin" \/ Base(p) = <<"auth", "sessions">> \/ Layer(p).signedIn => c.type # "anonymous"
    /\ Layer(p).codes # {} => \E code \in Layer(p).codes : code \in Permissions(c)

\* No route is shadowed by one registered, or mounted, before it, and none asks for a permission
\* its catalog does not know: a request that reaches a handler reaches the one it was meant for,
\* and whoever is entitled to a route is kept from it only by the maintenance mode or by an
\* archived tenant (routes/index.ts:693, and the comment of itsm/assets.routes.ts:20).
OwnRouteReached ==
    pc = "answered" =>
        /\ answer = "handled" => place = request.target
        /\ request.target # NoPlace /\ Entitled(request.caller, request.target) =>
              answer \in {"handled", "maintenance", "archived"}

\* The two sides of the API stay apart, although the mounts of /admin carry no middleware that
\* asks for platform staff: a member of an organization gets no further there than to the
\* account pages, and neither staff nor an API key reaches an organization's own routes.
SidesApart ==
    Reached =>
        CASE request.caller.type = "TENANT_USER" ->
                Area(place) = "admin" => Base(place) = <<"admin", "my-account">>
          [] request.caller.type = "anonymous" -> Area(place) \in {"health", "auth"}
          [] OTHER -> Area(place) \notin {"itsm", "tenant-admin"}

\* Roles that are described as read-only, as requesters or as working on what is assigned to them
\* change nothing that others have made, by whatever of the 811 routes their codes open, read-only
\* codes included (catalog.ts:405, 440, tenant-catalog.ts:1092, 1122, 1146, 1160).  One route is
\* not closed to them: whoever may ask for an export can cancel anybody's (reports.service.ts:899).
LimitedRolesAlterNothing ==
    LET c == request.caller
    IN  Reached /\ c.role \in LimitedRoles /\ AltersOthers(Permissions(c), place) =>
            Address(place) = CancelOfExport

\* Nobody holds the wildcard the gate lets through: maintenance that is switched on is switched
\* off only from a listed address, or by a request whose gate still read the old settings from
\* the cache, or could not read them.
MaintenanceEndsFromListed == [][maintenance /\ ~ maintenance' => request.caller.listed \/ ~ down]_surfaceVars
=============================================================================
