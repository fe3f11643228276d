SPECIFICATION MCSpec
CONSTANTS
    claude = claude
    codex = codex
    antigravity = antigravity
    claudeMd = claudeMd
    agentsMd = agentsMd
    Clients = {claude, codex, antigravity}
    Claude = claude
    Lenient = {codex, antigravity}
    Dropping = {codex}
    Md <- MCMd
    Healers = {s1}
    None = None
    MaxCommands = 2
    Sessions = {s1}
    Hooks = {h1, h2}
    Nobody = Nobody
    MaxTrees = 1
CHECK_DEADLOCK FALSE
SYMMETRY Symmetry
INVARIANTS SetupTypeOK UserEntriesKept InstallComplete UninstallComplete PackOfTheTree
PROPERTY FrozenPack
