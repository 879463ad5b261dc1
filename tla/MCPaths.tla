------------------------------ MODULE MCPaths ------------------------------
EXTENDS Paths

NoPlan == [probe |-> 0, migrate |-> 0, renew |-> 0, rebind |-> 0, ask |-> 0, answer |-> 0,
           lost |-> 0, spurious |-> 0, early |-> 0]
Probing == [NoPlan EXCEPT !.probe = 1, !.ask = 1, !.answer = 1]
Migrating == [NoPlan EXCEPT !.migrate = 1, !.ask = 1, !.answer = 1]
Renewing == [NoPlan EXCEPT !.renew = 2, !.ask = 1, !.answer = 1]
Rebinding1 == [NoPlan EXCEPT !.rebind = 1, !.answer = 1]

AllPlans == {[Probing EXCEPT !.ask = 0, !.lost = 1], Migrating,
             [Renewing EXCEPT !.lost = 1], [Renewing EXCEPT !.ask = 0, !.spurious = 1],
             [Rebinding1 EXCEPT !.lost = 1], [Rebinding1 EXCEPT !.spurious = 1],
             [NoPlan EXCEPT !.rebind = 1, !.renew = 1],
             [Renewing EXCEPT !.early = 1]}
EarlyPlans == {[Rebinding1 EXCEPT !.early = 1]}
=============================================================================
