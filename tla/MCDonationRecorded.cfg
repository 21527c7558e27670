CONSTANTS
    Donations = {d1}
    Payments = {p1}
    Requests = {r}
    Creators = {NoUser}
    NoUser = NoUser
    NoDonation = NoDonation
    NoPayment = NoPayment
    NoCall = NoCall
SPECIFICATION FairSpec
CHECK_DEADLOCK FALSE
PROPERTY CapturedIsRecorded
