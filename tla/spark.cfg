\* A pushed domain that is refreshed by hand and an opt-in domain, two
\* generations and two Hermes updates; two requests and the reconcile of the
\* clocks across one reboot; one commit of Hermes, two uses or mishaps; two remote
\* nodes and the local one, one of them without the helper, without an address
\* that a user entered, and off or on at first, two requests and one connection that breaks.  All handlers may be
\* done: deadlock is not checked.
CONSTANTS
    storage = storage
    hermesChecks = hermesChecks
    h1 = h1
    h2 = h2
    low = low
    Domains = {storage, hermesChecks}
    Pushed = {storage}
    OptIn = {hermesChecks}
    Manual = {storage}
    Hermes = hermesChecks
    MaxGen = 2
    MaxUpdates = 2
    Sets = {h1, h2}
    Reconcile = Reconcile
    Targets <- TwoTargets
    Unset = Unset
    Default = Default
    MaxBoots = 1
    MaxCommits = 1
    MaxHermesEvents = 2
    Remotes <- TwoRemotes
    Local = "here"
    Helpless = {"two"}
    Overridden = {"one", "here"}
    Calls = {"c1", "c2"}
    MaxCuts = 1
SPECIFICATION Spec
INVARIANTS
    SparkTypesOK
    SparkAgrees

    
    
CHECK_DEADLOCK FALSE
