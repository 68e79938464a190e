SPECIFICATION Spec
CONSTANTS
    User = {f, u1}
    Founder = f
    Role = {Admin, Staff}
    Admin = Admin
    System <- Administrators
    Portal <- Nobody
    Permission = {"users", "roles"}
    Grants = {{"users"}}
    Password = {1}
    Token = {}
    Reset = {}
    None = None
CHECK_DEADLOCK FALSE
INVARIANT LastAdministrator
