\* Two callers, one permit between them, of a provider that changes what it does at
\* any moment.
SPECIFICATION FairSpec
CONSTANTS
    Caller = {"a", "b"}
    Casts <- MCEveryPair
    Permits = 1
    Deadline = 1
    Behaviours <- MCBehaviours
    MaxAge = 1

    
PROPERTIES
    UpFollows
