CONSTANTS
    Requests = {r1}
    Endpoints = {"createOrg", "invite", "accept"}
    Users = {root, ana, bob}
    Orgs = {acme}
    Projects = {}
    Invites = {i1}
    SuperAdmins = {root}
    OrgGrants = {"member"}
    ProjectGrants = {}
    MaxRow = 1
    MaxNow = 0
    None = None
SPECIFICATION Spec
CHECK_DEADLOCK FALSE
PROPERTY SuperAdminInvitationsWork
