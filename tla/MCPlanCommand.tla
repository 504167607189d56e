--------------------------- MODULE MCPlanCommand ---------------------------
(* Instances of PlanCommand for TLC. *)
EXTENDS PlanCommand, TLC

CONSTANTS a1, a2, a3

MCIds == 1 .. 4
MCAttempts == {a1, a2, a3}
MCTwoAttempts == {a1, a2}

Rq(op, id, parent, pos, key) ==
    [op |-> op, id |-> id, parent |-> parent, pos |-> pos, key |-> key]

(* A create, a move up, and for one entity a move down, a rename that      *)
(* reuses the move's key, and a delete.                                    *)
MCRequests == {
    Rq("create", Top, 1, Keep, "k1"),
    Rq("update", 3, Top, 0, "k1"),
    Rq("update", 2, 1, Keep, "k2"), Rq("update", 2, Keep, Keep, "k2"),
    Rq("delete", 2, Keep, Keep, "k3")}

Row(parent, pos) == [status |-> "live", parent |-> parent, pos |-> pos, ver |-> Seed]
(* Two entities at the top, one of them with a child; an id to spare.      *)
MCPlans == {<<Row(Top, 0), Row(Top, 1), Row(1, 0), Absent>>}

(* Two moves, each below the other's entity. *)
MCCrossMoves == {Rq("update", 2, 3, Keep, "k1"), Rq("update", 3, 2, Keep, "k1")}
=============================================================================
