SPECIFICATION FairSpec
CONSTANTS
    Plans <- Scenarios
    Ceremonies = {"c1", "c2"}
    Finishes <- Finishing
    Attested <- Enrolments
    Asserts <- Signing
    Asserted <- Signed
    Secrets <- Asking
    Asked <- Calls
    Commands <- Sending
    Sent <- Lines
    Machines <- Hosts
    OwnerOf <- Owners
    Tenants = {"t1", "t2"}
CHECK_DEADLOCK FALSE
INVARIANT ServesWhole
 
INVARIANT CountersIncrease
 
INVARIANT SecretsStayReadable
PROPERTY StartsAgain
