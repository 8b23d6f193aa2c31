SPECIFICATION Spec
CONSTANTS
    Users = {u1, u2}
    Calls = {c1, c2}
    Roles = {admin, custom}
    AdminRole = admin
    Grantable = {k}
    MaxChanges = 3
SYMMETRY Symmetry
INVARIANT EntriesFollowChanges
PROPERTIES LastAdministratorGuarded RevokedAdmitsNobody
CHECK_DEADLOCK FALSE
