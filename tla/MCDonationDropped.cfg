\* The donor tries twice; created_by_id as public_donate leaves it.
CONSTANTS
    Donations = {d1}
    Payments = {p1, p2}
    Requests = {r}
    Creators = {NoUser}
    NoUser = NoUser
    NoDonation = NoDonation
    NoPayment = NoPayment
    NoCall = NoCall
SPECIFICATION DonationSpec
CHECK_DEADLOCK FALSE
INVARIANT AckedIsBooked
