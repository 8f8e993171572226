---------------------------- MODULE MCPlanReview ----------------------------
(* Three requests at a time: two decisions about one plan, a plan that is   *)
(* approved by itself and decided by somebody else, a task that is deleted  *)
(* while it is made or executed.                                            *)
EXTENDS PlanReview, TLC

CONSTANTS r1, r2, r3

MCRequest == {r1, r2, r3}
Come(a, b, c) == (r1 :> a) @@ (r2 :> b) @@ (r3 :> c)

(* The plan that two requests approve, for two tasks, has one step. *)
MCSteps == (r1 :> {1, 2}) @@ (r2 :> {1, 2}) @@ (r3 :> {1})

MCWorkloads ==
    {Come("approve", "approve", "propose"), Come("propose", "approve", "reject"),
     Come("auto", "reject", "delete"), Come("direct", "delete", "delete"),
     Come("propose", "approve", "delete")}
=============================================================================
