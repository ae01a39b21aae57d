SPECIFICATION FairSpec
CONSTANTS
    member = member
    staff = staff
    Tabs = {t1}
    Users = {member, staff}
    Membership <- MCMembership
    NoUser = NoUser
    Handlers = {1, 2}
    MaxEvents = 2
    Kept <- MCKept
    Opens = {"root", "login", "signup", "checkEmail", "callback", "reset", "adminLogin", "adminMfa",
             "admin", "onboarding", "profile", "dashboard", "manuscripts"}
CHECK_DEADLOCK FALSE
INVARIANTS
    WizardHidesStaff
PROPERTIES 
    DraftIsKept
    EntryLands
