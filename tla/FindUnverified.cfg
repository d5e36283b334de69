SPECIFICATION Spec
CONSTANTS
    Workers <- TwoWorkers
    Issues <- TwoIssues
    Content <- TwoContents
    Xnonces <- ThreeXnonces
    Tag <- WorkerTags
    Nonces <- OneNonce
    Targets <- SomeTargets
    Hashes <- SomeHashes
    OutboxCap = 1
    MaxJobs = 2
INVARIANTS
    SubmittedIsVerified
