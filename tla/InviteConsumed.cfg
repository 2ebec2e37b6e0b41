CONSTANTS
    Owners = {o1, o2}
    Invites = {i1}
    InviteUses = 1
    Tenants = {1, 2}
    BotIds = {b1}
    ProvisionJobs = {j1}
    MaxStaffActs = 0
SPECIFICATION Spec
INVARIANT InviteConsumed
CHECK_DEADLOCK FALSE
