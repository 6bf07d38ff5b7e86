-------------------------- MODULE MCDeployAdmission --------------------------
(* DeployAdmission on five requests, three applications and two slots: two *)
(* requests of one user for one application (so cancellation has to choose *)
(* the first), one of another user for it, and one for each of two more    *)
(* applications (so the limit binds while an application is free).         *)
EXTENDS DeployAdmission, TLC

CONSTANTS r1, r2, r3, r4, r5, web, api, jobs, ann, bob

MCRequests == {r1, r2, r3, r4, r5}
MCApps == {web, api, jobs}
MCUsers == {ann, bob}
MCAppOf == r1 :> web @@ r2 :> web @@ r3 :> web @@ r4 :> api @@ r5 :> jobs
MCUserOf == r1 :> ann @@ r2 :> ann @@ r3 :> bob @@ r4 :> bob @@ r5 :> ann

(* r1 and r2 differ in nothing but their name. *)
Interchangeable == Permutations({r1, r2})
=============================================================================
