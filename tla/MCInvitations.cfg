CONSTANTS
    Desks = {"invitations", "organizations", "projects"}
    Requests = {r1, r2}
    Endpoints = {"createOrg", "updateOrg", "removeOrg", "addOrgMember", "removeOrgMember", "createProject", "updateProject", "removeProject", "addProjectMember", "removeProjectMember", "invite", "inviteToProject", "accept", "resend", "cancel"}
    Users = {ana, bob}
    Orgs = {acme}
    Projects = {site}
    Invites = {i1}
    SuperAdmins = {}
    OrgGrants = {"owner", "member"}
    ProjectGrants = {"member"}
    MaxRow = 2
    MaxNow = 1
    None = None
SPECIFICATION DesksSpec
SYMMETRY Symm
CHECK_DEADLOCK FALSE
INVARIANT TypeOK
INVARIANT AcceptedMeansJoined
INVARIANT OrgBeforeProject
INVARIANT OwnersKeepTheirSeat
PROPERTY SettledStaysSettled
PROPERTY OwnerRowsAreFinal
PROPERTY OrgsKeepMembership
PROPERTY ProjectsKeepMembership
