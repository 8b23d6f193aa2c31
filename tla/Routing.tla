------------------------------- MODULE Routing -------------------------------
(***************************************************************************)
(* What the route files of src/src/routes are written with: a router is a  *)
(* sequence of layers, tried in the order in which they were registered,   *)
(* and a mount hangs a router under a base path with the middleware that   *)
(* runs before it.  A path is a sequence of segments, ":" a parameter; a   *)
(* permission code is a sequence of segments as well.                      *)
(***************************************************************************)
EXTENDS Sequences, Naturals

\* A layer: what it is registered for, its path, what it does, the codes
\* authorize or requireTenantPermission ask for, its own authenticate.
Route(method, path, codes) ==
    [on |-> method, path |-> path, does |-> "handle", codes |-> codes, signedIn |-> FALSE]
Get(path, codes) == Route("get", path, codes)
Post(path, codes) == Route("post", path, codes)
Put(path, codes) == Route("put", path, codes)
Patch(path, codes) == Route("patch", path, codes)
Delete(path, codes) == Route("delete", path, codes)
SignedIn(layer) == [layer EXCEPT !.signedIn = TRUE]
Use(path, middleware) ==
    [on |-> "use", path |-> path, does |-> middleware, codes |-> {}, signedIn |-> FALSE]

\* A router mounted within a router: its layers under its path.
Nested(base, layers) == [i \in DOMAIN layers |-> [layers[i] EXCEPT !.path = base \o @]]

\* registerItsmCrudRoutes: list and read, write and delete, and what there is a schema for.
Crud(base, read, manage, ops) ==
    LET one == Append(base, ":")
        If(op, layer) == IF op \in ops THEN <<layer>> ELSE <<>>
    IN  <<Get(base, {read})>> \o If("create", Post(base, {manage})) \o <<Get(one, {read})>> \o
        If("update", Patch(one, {manage})) \o <<Delete(one, {manage})>>

\* Whether a layer takes a request: a route the whole path, a middleware its beginning.
Segment(pattern, s) == pattern \in {":", s}
Begins(pattern, path) ==
    /\ Len(pattern) <= Len(path)
    /\ \A i \in DOMAIN pattern : Segment(pattern[i], path[i])
Takes(layer, method, path) ==
    /\ Begins(layer.path, path)
    /\ layer.on # "use" => layer.on = method /\ Len(layer.path) = Len(path)

\* A mount: its middleware is authenticate, requireTenantMembership, or nothing.
MountOf(base, router, before) == [base |-> base, router |-> router, before |-> before]
Public(base, router) == MountOf(base, router, <<>>)
Mount(base, router) == MountOf(base, router, <<"authenticate">>)
Member(base, router) == MountOf(base, router, <<"authenticate", "requireTenantMembership">>)
=============================================================================
