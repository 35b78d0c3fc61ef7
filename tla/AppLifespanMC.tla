---------------------------- MODULE AppLifespanMC ---------------------------
(* Values for the constants of AppLifespan: two requests beside the two      *)
(* tasks of the application.                                                 *)
EXTENDS AppLifespan

CONSTANTS lifespan, refresher, r1, r2

MCRequests == {r1, r2}
MCTasks == {lifespan, refresher, r1, r2}
=============================================================================
