SPECIFICATION VotesSpec
CONSTANTS
    Emails = {e1, e2}
    Visitors = {v1, v2}
    Nobody = Nobody
INVARIANTS
    CountIsVotes
