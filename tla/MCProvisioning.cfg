SPECIFICATION Spec
CONSTANTS
    grant1 = grant1
    grant2 = grant2
    agent1 = agent1
    agent2 = agent2
    agent3 = agent3
    NoGrant = NoGrant
    Deleted = Deleted
    NoCall = NoCall
    Grants <- MCGrants
    Agents <- MCAgents
    Quotas <- MCQuotas
PROPERTY KeepsQuota
CHECK_DEADLOCK FALSE
