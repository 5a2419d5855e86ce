\* One current assignment: broken by two assignments at once.
CONSTANTS
    r1 = r1
    r2 = r2
    ann = ann
    bob = bob
    None = None
    Reply = {r1, r2}
    Agent = {ann, bob}
    AgentOf <- Agents
    BodyOf <- Bodies
    Window = 2
    Scopes <- Many
SPECIFICATION Spec
CHECK_DEADLOCK FALSE
INVARIANT OneHolder
