SPECIFICATION FairSpec
CONSTANTS
    Functors = {f1, f2, f3}
    Clients = {c1, c2}
PROPERTY
    QuitIsObeyed
