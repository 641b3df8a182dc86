SPECIFICATION Spec
CONSTANTS
    Tokens = {t1, t2, t3}
    Users = {u1, u2}
    Requests = {r1, r2}
SYMMETRY Symmetry
INVARIANTS TypeOK OneLivePerFamily OnlyRacesSurvive
PROPERTIES FamilyDeadForGood
