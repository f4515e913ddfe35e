\* A user's requests after a logout, under fairness.
CONSTANTS
    Users = {u1}
    Calls = {c1, c2, c3}
    Passwords = {p1}
    LastSecond = 0
    NoToken = NoToken
    NoPassword = NoPassword
SPECIFICATION FairActiveSpec
PROPERTY LoggedOutIsBlocked
