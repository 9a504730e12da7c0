SPECIFICATION FairSpec
CONSTANT Experts = {e1, e2}
PROPERTY WaitCollects
