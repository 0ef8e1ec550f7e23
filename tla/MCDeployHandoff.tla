--------------------------- MODULE MCDeployHandoff ---------------------------
(* One deployment that is in order and the ways to get its environment wrong. *)
EXTENDS DeployHandoff

CONSTANTS deployerKey, safe, timelock, attester, v1, v2, v3

MCAccounts  == {deployerKey, safe, timelock, attester, v1, v2, v3}
MCCallers   == {deployerKey, attester, v1}
MCMinters   == {v1, ZeroAddress}
MCContracts == {safe, timelock}
MCTokenRoleOps == {<<ADMIN_ROLE, v1>>, <<MINTER_ROLE, v1>>, <<DEFAULT_ADMIN_ROLE, deployerKey>>}

GoodPlan ==
    [safe |-> safe, timelock |-> timelock, wired |-> TRUE, delay |-> MinDelay,
     threshold |-> 3, window |-> 1, validators |-> <<v1, v2, v3>>]

MCPlans ==
    {GoodPlan,
     [GoodPlan EXCEPT !.validators = <<v1, v2, v3, deployerKey>>],
     [GoodPlan EXCEPT !.validators = <<v1, v2, v2>>],
     [GoodPlan EXCEPT !.validators = <<v1, v2>>],
     [GoodPlan EXCEPT !.validators = <<v1, v2, ZeroAddress>>],
     [GoodPlan EXCEPT !.threshold = 2],
     [GoodPlan EXCEPT !.window = 0],
     [GoodPlan EXCEPT !.window = UINT64_MAX + 1],
     [GoodPlan EXCEPT !.delay = MinDelay - 1],
     [GoodPlan EXCEPT !.wired = FALSE],
     [GoodPlan EXCEPT !.timelock = safe],
     [GoodPlan EXCEPT !.safe = deployerKey]}

OnePlan == {GoodPlan}
MCSafeOps == {<<"attester", DEFAULT_ADMIN_ROLE, deployerKey>>, <<"token", MINTER_ROLE, v2>>,
              <<"token", ADMIN_ROLE, v1>>}
=============================================================================
